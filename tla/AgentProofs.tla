----------------------------- MODULE AgentProofs -----------------------------
(***************************************************************************)
(* Proofs about one agent and the services around it. Each component is a  *)
(* behaviour of its own, so its invariant is proved of its steps alone and *)
(* then of AllSpec, whose other steps leave its variables as they are.     *)
(***************************************************************************)
EXTENDS MCAgent, SequenceFacts

-----------------------------------------------------------------------------
(* The wizard                                                              *)

Ends == {"success", "error", "denied", "expired"}

\* What the flows, the requests and the wizard hold.
WizardTypes ==
    /\ status \in [Flow -> {"unused", "pending", "stale", "lost"} \cup Ends]
    /\ req \in [Wizard!Req -> [flow : Flow \cup {"none"},
                               at : {"idle", "exchanging", "sent", "took", "refused"}]]
    /\ ui \in [at : {"form", "polling", "verifying"} \cup Ends, flow : Flow \cup {"none"}]

\* A flow succeeds by the supervisor's answer to a request of that flow, and the
\* wizard says so when it reads it.
WizardInv ==
    /\ WizardTypes
    /\ \A r \in Wizard!Req :
          req[r].at = "took" /\ req[r].flow \in Flow => req[r].flow \in added
    /\ \A f \in Flow : status[f] = "success" => f \in added
    /\ ui.at = "polling" => ui.flow \in Flow /\ status[ui.flow] # "unused"
    /\ Wizard!ShownIsAdded

LEMMA WizardStarts == Wizard!Init => WizardInv
  BY NoneIsNoFlow DEF Wizard!Init, WizardInv, WizardTypes, Wizard!ShownIsAdded, Wizard!Form, Wizard!Nothing, Ends

\* A mark is made on a known flow, and leaves the others.
LEMMA MarkedFlow ==
  ASSUME WizardTypes, NEW f, NEW s \in Ends
  PROVE  /\ Wizard!Marked(f, s) \in [Flow -> {"unused", "pending", "stale", "lost"} \cup Ends]
         /\ \A g \in Flow : Wizard!Marked(f, s)[g] \in {status[g], IF g = f THEN s ELSE status[g]}
  BY DEF Wizard!Marked, WizardTypes, Ends

LEMMA RefreshedFlow ==
  ASSUME WizardTypes, NEW f
  PROVE  /\ Wizard!Refreshed(f) \in [Flow -> {"unused", "pending", "stale", "lost"} \cup Ends]
         /\ \A g \in Flow : Wizard!Refreshed(f)[g] \in {status[g], "expired"}
  BY DEF Wizard!Refreshed, WizardTypes, Ends

LEMMA WizardKeeps == WizardInv /\ [Wizard!Next]_(Wizard!vars) => WizardInv'
<1> SUFFICES ASSUME WizardInv, [Wizard!Next]_(Wizard!vars) PROVE WizardInv'
  OBVIOUS
<1> USE NoneIsNoFlow DEF WizardInv, WizardTypes, Ends, Wizard!ShownIsAdded, Wizard!flows
<1>1. ASSUME NEW f \in Flow, Wizard!Start(f) PROVE WizardInv'
  BY <1>1 DEF Wizard!Start, Wizard!Form
<1>2. ASSUME NEW f \in Flow, Wizard!Expire(f) PROVE WizardInv'
  BY <1>2 DEF Wizard!Expire
<1>3. ASSUME NEW r \in Wizard!Req, NEW f \in Flow,
             NEW how \in {"code", "access_denied", "neither"}, Wizard!Callback(r, f, how)
      PROVE WizardInv'
  BY <1>3, RefreshedFlow, MarkedFlow DEF Wizard!Callback
<1>4. ASSUME NEW r \in Wizard!Req, Wizard!Exchanged(r) PROVE WizardInv'
  BY <1>4 DEF Wizard!Exchanged
<1>5. ASSUME NEW r \in Wizard!Req, Wizard!ExchangeFails(r) PROVE WizardInv'
  BY <1>5, MarkedFlow DEF Wizard!ExchangeFails, Wizard!Nothing
<1>6. ASSUME NEW r \in Wizard!Req, Wizard!Submit(r) PROVE WizardInv'
  BY <1>6 DEF Wizard!Submit, Wizard!Form
<1>7. ASSUME NEW r \in Wizard!Req, NEW willing \in BOOLEAN, Wizard!Serve(r, willing)
      PROVE WizardInv'
  BY <1>7 DEF Wizard!Serve, Wizard!Took
<1>8. ASSUME NEW r \in Wizard!Req, Wizard!Answered(r) PROVE WizardInv'
  BY <1>8, MarkedFlow DEF Wizard!Answered, Wizard!Tell, Wizard!Form, Wizard!Nothing
<1>9. ASSUME NEW r \in Wizard!Req, Wizard!GivenUp(r) PROVE WizardInv'
  BY <1>9, MarkedFlow DEF Wizard!GivenUp, Wizard!Tell, Wizard!Took, Wizard!Form, Wizard!Nothing
<1>10. ASSUME NEW r \in Wizard!Req, Wizard!CutOff(r) PROVE WizardInv'
  BY <1>10 DEF Wizard!CutOff, Wizard!Nothing
<1>11. CASE Wizard!Remove
  BY <1>11 DEF Wizard!Remove
<1>12. CASE Wizard!Poll
  <2>1. status' \in [Flow -> {"unused", "pending", "stale", "lost"} \cup Ends]
    BY <1>12, RefreshedFlow DEF Wizard!Poll
  <2>2. \A g \in Flow : status'[g] = "success" => g \in added
    BY <1>12, RefreshedFlow DEF Wizard!Poll
  <2>3. ui.flow \in Flow /\ status'[ui.flow] # "unused"
    BY <1>12, RefreshedFlow DEF Wizard!Poll
  <2> QED
    BY <1>12, <2>1, <2>2, <2>3 DEF Wizard!Poll
<1>13. CASE Wizard!Again
  BY <1>13 DEF Wizard!Again, Wizard!Form
<1>14. CASE Wizard!Restart
  BY <1>14 DEF Wizard!Restart, Wizard!Form, Wizard!Nothing
<1>15. CASE UNCHANGED Wizard!vars
  BY <1>15 DEF Wizard!vars
<1> QED
  BY <1>1, <1>2, <1>3, <1>4, <1>5, <1>6, <1>7, <1>8, <1>9, <1>10, <1>11, <1>12, <1>13, <1>14,
     <1>15 DEF Wizard!Next

LEMMA WizardSteps == [AllNext]_allVars => [Wizard!Next]_(Wizard!vars)
  BY DEF AllNext, allVars, wizardVars, Wizard!vars

\* The wizard says "added" after a consent only when the supervisor added the
\* account by that very flow.
THEOREM SuccessIsOfItsFlow == AllSpec => []ShownIsAdded
<1>1. AllInit => WizardInv
  BY WizardStarts DEF AllInit
<1>2. WizardInv /\ [AllNext]_allVars => WizardInv'
  BY WizardKeeps, WizardSteps
<1>3. WizardInv => ShownIsAdded
  BY DEF WizardInv, ShownIsAdded
<1> QED BY <1>1, <1>2, <1>3, PTL DEF AllSpec

-----------------------------------------------------------------------------
(* The cache of integrations                                               *)

\* What the registry, the cache, the load and the requests hold.
CacheTypes ==
    /\ reg \in [Id -> Access \cup {Absent}] /\ cache \in [Id -> Access \cup {Absent}]
    /\ snap \in [Id -> Access \cup {Absent}]
    /\ op \in [Op -> [kind : {"none", "add", "update", "remove"},
                      id : Id \cup {Cache!Idle.id}, to : Access \cup {Absent},
                      at : {"idle", "sent", "done", "refused"}]]
    /\ \A o \in Op : Cache!InFlight(o) => op[o].id \in Id

\* Request o has changed the registry and the cache has yet to be told.
Untold(o, i) == op[o].at = "done" /\ op[o].id = i
Outcome(o) == IF op[o].kind = "remove" THEN Absent ELSE op[o].to

\* Until a reply is lost or changes overlap: a change that was served is in the
\* registry, a listing under way is the registry's, and the loaded cache differs
\* from it only where a change has yet to be marked.
CacheInv ==
    /\ CacheTypes
    /\ ~crossed =>
          /\ \A o, q \in Op : Cache!InFlight(o) /\ Cache!InFlight(q) /\ o # q => op[o].id # op[q].id
          /\ \A o \in Op : op[o].at = "done" => reg[op[o].id] = Outcome(o)
          /\ load = "answered" => snap = reg
          /\ load = "done" => \A i \in Id : cache[i] = reg[i] \/ \E o \in Op : Untold(o, i)

LEMMA CacheStarts == Cache!Init => CacheInv
  BY DEF Cache!Init, Cache!Empty, Cache!Idle, Cache!InFlight, CacheInv, CacheTypes

LEMMA CacheKeeps == CacheInv /\ [Cache!Next]_(Cache!vars) => CacheInv'
<1> SUFFICES ASSUME CacheInv, [Cache!Next]_(Cache!vars) PROVE CacheInv'
  OBVIOUS
<1> USE DEF CacheInv, CacheTypes, Cache!InFlight, Untold, Outcome, Cache!startup, Cache!bounds
<1>1. CASE Cache!LoadAnswered
  BY <1>1 DEF Cache!LoadAnswered
<1>2. CASE Cache!LoadFails
  BY <1>2 DEF Cache!LoadFails
<1>3. CASE Cache!LoadDone
  BY <1>3 DEF Cache!LoadDone, Cache!Empty
<1>4. ASSUME NEW r \in Reader, Cache!Read(r) \/ Cache!ReadEnds(r) PROVE CacheInv'
  BY <1>4 DEF Cache!Read, Cache!ReadEnds, Cache!EnsureLoaded
<1>5. CASE Cache!AppStarts \/ Cache!GateRead \/ Cache!GateLook \/ Cache!GateWakes
           \/ Cache!Deadline \/ Cache!SetupDone \/ Cache!StartDeferred
  BY <1>5 DEF Cache!AppStarts, Cache!GateRead, Cache!GateLook, Cache!GateWakes, Cache!Deadline,
              Cache!SetupDone, Cache!StartDeferred, Cache!EnsureLoaded
<1>6. ASSUME NEW o \in Op, NEW i \in Id, NEW to \in Access \cup {Absent},
             NEW kind \in {"add", "update", "remove"}, Cache!Send(o, kind, i, to)
      PROVE CacheInv'
  <2>1. /\ op' = [op EXCEPT ![o] = [kind |-> kind, id |-> i, to |-> to, at |-> "sent"]]
        /\ op[o].at = "idle" /\ ~crossed /\ UNCHANGED <<reg, cache, load, snap>>
        /\ crossed' = \E p \in Op : Cache!InFlight(p) /\ op[p].id = i
    BY <1>6 DEF Cache!Send
  <2>2. CacheTypes'
    BY <2>1
  <2>3. ASSUME ~crossed', NEW p \in Op, NEW q \in Op, p # q, Cache!InFlight(p)', Cache!InFlight(q)'
        PROVE  op'[p].id # op'[q].id
    BY <2>1, <2>3
  <2>4. ASSUME load = "done", NEW j \in Id, cache[j] # reg[j] PROVE \E p \in Op : Untold(p, j)'
    BY <2>1, <2>4
  <2> QED BY <2>1, <2>2, <2>3, <2>4
<1>7. ASSUME NEW o \in Op, Cache!Serve(o) PROVE CacheInv'
  <2>1. CASE ~Cache!Accepts(op[o])
    BY <1>7, <2>1, SMTT(20) DEF Cache!Serve
  <2>2. CASE Cache!Accepts(op[o])
    <3>1. /\ op' = [op EXCEPT ![o].at = "done"] /\ op[o].at = "sent" /\ op[o].id \in Id
          /\ reg' = [reg EXCEPT ![op[o].id] = Outcome(o)]
          /\ crossed' = (crossed \/ load = "answered") /\ UNCHANGED <<cache, snap, load>>
      BY <1>7, <2>2 DEF Cache!Serve, Cache!Changed
    <3>2. CacheTypes'
      BY <3>1
    <3>3. ASSUME ~crossed', NEW p \in Op, op'[p].at = "done"
          PROVE  reg'[op'[p].id] = Outcome(p)'
      <4>1. CASE p = o
        BY <3>1, <4>1
      <4>2. CASE p # o
        <5>1. op'[p] = op[p] /\ op[p].id # op[o].id
          BY <3>1, <3>3, <4>2, ZenonT(30)
        <5> QED BY <3>1, <3>3, <5>1, ZenonT(30)
      <4> QED BY <4>1, <4>2
    <3>4. ASSUME ~crossed', load' = "done"
          PROVE  \A i \in Id : cache'[i] = reg'[i] \/ \E p \in Op : Untold(p, i)'
      <4> SUFFICES ASSUME NEW i \in Id, cache'[i] # reg'[i] PROVE \E p \in Op : Untold(p, i)'
        OBVIOUS
      <4>1. CASE i = op[o].id
        BY <3>1, <4>1
      <4>2. CASE i # op[o].id
        <5>1. PICK p \in Op : Untold(p, i)
          BY <3>1, <3>4, <4>2, ZenonT(30)
        <5> QED BY <3>1, <5>1
      <4> QED BY <4>1, <4>2
    <3>5. ASSUME ~crossed', NEW q \in Op, NEW t \in Op, q # t, Cache!InFlight(q)', Cache!InFlight(t)'
          PROVE  op'[q].id # op'[t].id
      <4>1. ASSUME NEW x \in Op, Cache!InFlight(x)' PROVE op'[x].id = op[x].id /\ Cache!InFlight(x)
        <5>1. CASE x = o
          BY <3>1, <5>1
        <5>2. CASE x # o
          <6>1. op'[x] = op[x]
            BY <3>1, <5>2
          <6> QED BY <4>1, <6>1
        <5> QED BY <5>1, <5>2
      <4>2. op'[q].id = op[q].id /\ Cache!InFlight(q)
        BY <3>5, <4>1
      <4>3. op'[t].id = op[t].id /\ Cache!InFlight(t)
        BY <3>5, <4>1
      <4>4. ~crossed
        BY <3>1, <3>5
      <4> QED BY <3>5, <4>2, <4>3, <4>4
    <3>6. ~crossed' => load' # "answered"
      BY <3>1
    <3> QED BY <3>2, <3>3, <3>4, <3>5, <3>6
  <2> QED BY <2>1, <2>2
<1>8. ASSUME NEW o \in Op, Cache!RequestAnswered(o) PROVE CacheInv'
  <2>1. /\ op' = [op EXCEPT ![o] = Cache!Idle] /\ op[o].at \in {"done", "refused"}
        /\ op[o].id \in Id /\ UNCHANGED <<reg, snap, load, crossed>>
        /\ cache' = IF op[o].at = "done" THEN [cache EXCEPT ![op[o].id] = Outcome(o)] ELSE cache
    BY <1>8 DEF Cache!RequestAnswered, Cache!Marked
  <2>2. CacheTypes'
    BY <2>1 DEF Cache!Idle
  <2>3. ASSUME ~crossed' PROVE \A q \in Op : op'[q].at = "done" => reg'[op'[q].id] = Outcome(q)'
    BY <2>1, <2>3 DEF Cache!Idle
  <2>4. ASSUME ~crossed', load' = "done"
        PROVE  \A i \in Id : cache'[i] = reg'[i] \/ \E q \in Op : Untold(q, i)'
    <3> SUFFICES ASSUME NEW i \in Id, cache'[i] # reg'[i] PROVE \E q \in Op : Untold(q, i)'
      OBVIOUS
    <3>1. PICK q \in Op : Untold(q, i)
      BY <2>1, <2>4
    <3>2. q # o
      BY <2>1, <2>4, <3>1
    <3> QED BY <2>1, <3>1, <3>2
  <2>5. ASSUME ~crossed', NEW q \in Op, NEW t \in Op, q # t, Cache!InFlight(q)', Cache!InFlight(t)'
        PROVE  op'[q].id # op'[t].id
    BY <2>1, <2>5 DEF Cache!Idle
  <2> QED BY <2>1, <2>2, <2>3, <2>4, <2>5
<1>9. ASSUME NEW o \in Op, Cache!RequestLost(o) PROVE CacheInv'
  BY <1>9 DEF Cache!RequestLost, Cache!Changed, Cache!Idle
<1>10. CASE Cache!SupervisorUp \/ Cache!SupervisorDies
  BY <1>10 DEF Cache!SupervisorUp, Cache!SupervisorDies
<1>11. CASE UNCHANGED Cache!vars
  BY <1>11 DEF Cache!vars
<1> QED
  BY <1>1, <1>2, <1>3, <1>4, <1>5, <1>6, <1>7, <1>8, <1>9, <1>10, <1>11 DEF Cache!Next

LEMMA CacheSteps == [AllNext]_allVars => [Cache!Next]_(Cache!vars)
  BY DEF AllNext, allVars, cacheVars, Cache!vars

\* When no request is in flight, the loaded cache is the registry, unless a
\* reply was lost or changes overlapped.
THEOREM CacheAgrees == AllSpec => []LoadedCacheAgrees
<1>1. AllInit => CacheInv
  BY CacheStarts DEF AllInit
<1>2. CacheInv /\ [AllNext]_allVars => CacheInv'
  BY CacheKeeps, CacheSteps
<1>3. CacheInv => LoadedCacheAgrees
  <2> SUFFICES ASSUME CacheInv, load = "done", ~crossed, \A o \in Op : ~Cache!InFlight(o)
               PROVE  cache = reg
    BY DEF LoadedCacheAgrees, Cache!LoadedCacheAgrees
  <2>1. \A i \in Id : cache[i] = reg[i]
    BY DEF CacheInv, CacheTypes, Cache!InFlight, Untold
  <2> QED BY <2>1 DEF CacheInv, CacheTypes
<1> QED BY <1>1, <1>2, <1>3, PTL DEF AllSpec

-----------------------------------------------------------------------------
(* The calls to a mail broker                                              *)

\* What the calls and the locks hold.
MailCall == [verb : {"none", "list", "send", "events", "fetch", "move"},
             folder : Folder \cup {Missing, "none"},
             at : {"idle", "resolved", "queued", "command", "stale"},
             retry : BOOLEAN, done : BOOLEAN, ok : BOOLEAN]
MailTypes ==
    /\ call \in [Call -> MailCall]
    /\ queue \in [Mail!Session -> Seq(Call)]

\* What the mailbox of a call has to do with its success: it runs its command
\* with its session's lock, which keeps its mailbox current, and a mailbox that is
\* selected at all is the current one unless a reconnection has forgotten it.
MailInv ==
    /\ MailTypes
    /\ \A c \in Call :
          /\ call[c].at # "idle" => ~call[c].ok
          /\ call[c].at # "idle" /\ call[c].verb \in Mail!InMailbox => call[c].folder # "none"
          /\ call[c].at \in {"command", "stale"} => Mail!Holds(c)
          /\ call[c].at = "command" /\ call[c].verb \in Mail!InMailbox => current = call[c].folder
          /\ call[c].ok => call[c].done
    /\ selected # "none" => current \in {"none", selected}

\* A call that has ended, as its tool sees it.
MailError == [verb |-> "none", folder |-> "none", at |-> "idle", retry |-> FALSE,
              done |-> FALSE, ok |-> FALSE]

LEMMA IdleIsCall == Mail!Idle \in MailCall
  BY DEF Mail!Idle, MailCall

LEMMA CallFields ==
    ASSUME NEW x \in MailCall, NEW b \in BOOLEAN
    PROVE  /\ [x EXCEPT !.ok = b] = [verb |-> x.verb, folder |-> x.folder, at |-> x.at,
                                     retry |-> x.retry, done |-> x.done, ok |-> b]
           /\ [x EXCEPT !.done = b] = [verb |-> x.verb, folder |-> x.folder, at |-> x.at,
                                       retry |-> x.retry, done |-> b, ok |-> x.ok]
  BY DEF MailCall

LEMMA IdleEnds == \A b \in BOOLEAN :
    [Mail!Idle EXCEPT !.ok = b] = [verb |-> "none", folder |-> "none", at |-> "idle",
                                   retry |-> FALSE, done |-> FALSE, ok |-> b]
<1> SUFFICES ASSUME NEW b \in BOOLEAN
    PROVE [Mail!Idle EXCEPT !.ok = b] = [verb |-> "none", folder |-> "none", at |-> "idle",
                                         retry |-> FALSE, done |-> FALSE, ok |-> b]
  OBVIOUS
<1> DEFINE x == Mail!Idle
<1>1. x.verb = "none" /\ x.folder = "none" /\ x.at = "idle" /\ x.retry = FALSE /\ x.done = FALSE
  BY DEF Mail!Idle
<1>2. x \in MailCall
  BY IdleIsCall
<1> HIDE DEF x
<1>3. [x EXCEPT !.ok = b] = [verb |-> x.verb, folder |-> x.folder, at |-> x.at,
                             retry |-> x.retry, done |-> x.done, ok |-> b]
  BY <1>2, CallFields
<1>4. [x EXCEPT !.ok = b] = [verb |-> "none", folder |-> "none", at |-> "idle",
                             retry |-> FALSE, done |-> FALSE, ok |-> b]
  BY <1>1, <1>3
<1> QED BY <1>4 DEF x

LEMMA ErrorEnds ==
    ASSUME NEW c \in Call, call \in [Call -> MailCall]
    PROVE  Mail!Ended(c, FALSE) = [call EXCEPT ![c] = MailError]
<1> DEFINE r == [Mail!Idle EXCEPT !.ok = FALSE]
<1>1. r = MailError
  BY IdleEnds DEF MailError
<1>2. Mail!Ended(c, FALSE) = [call EXCEPT ![c] = r]
  BY DEF Mail!Ended
<1> HIDE DEF r
<1> QED BY <1>1, <1>2

LEMMA SuccessEnds ==
    ASSUME NEW c \in Call, call \in [Call -> MailCall], NEW done \in BOOLEAN
    PROVE  [Mail!Ended(c, TRUE) EXCEPT ![c].done = done] =
             [call EXCEPT ![c] = [verb |-> "none", folder |-> "none", at |-> "idle", retry |-> FALSE,
                                  done |-> done, ok |-> TRUE]]
<1> DEFINE r == [Mail!Idle EXCEPT !.ok = TRUE]
           q == [verb |-> "none", folder |-> "none", at |-> "idle", retry |-> FALSE,
                 done |-> FALSE, ok |-> TRUE]
<1>1. r = q /\ q \in MailCall
  BY IdleEnds DEF MailCall
<1>2. Mail!Ended(c, TRUE) = [call EXCEPT ![c] = r]
  BY DEF Mail!Ended
<1>3. \A x \in MailCall : [[call EXCEPT ![c] = x] EXCEPT ![c].done = done]
                            = [call EXCEPT ![c] = [x EXCEPT !.done = done]]
  BY DEF MailCall
<1>4. \A x \in MailCall : [x EXCEPT !.done = done] =
        [verb |-> x.verb, folder |-> x.folder, at |-> x.at, retry |-> x.retry,
         done |-> done, ok |-> x.ok]
  BY CallFields
<1>5. /\ q.verb = "none" /\ q.folder = "none" /\ q.at = "idle" /\ q.retry = FALSE
      /\ q.done = FALSE /\ q.ok = TRUE
  OBVIOUS
<1> HIDE DEF r, q
<1>6. [Mail!Ended(c, TRUE) EXCEPT ![c].done = done] = [call EXCEPT ![c] = [q EXCEPT !.done = done]]
  BY <1>1, <1>2, <1>3
<1>7. [q EXCEPT !.done = done] = [verb |-> "none", folder |-> "none", at |-> "idle",
                                  retry |-> FALSE, done |-> done, ok |-> TRUE]
  BY <1>1, <1>4, <1>5
<1> QED BY <1>6, <1>7

LEMMA UpstreamIsSession == \A verb : Mail!Upstream(verb) \in Mail!Session
  BY DEF Mail!Upstream, Mail!Session

LEMMA InMailboxIsImap == \A verb \in Mail!InMailbox : Mail!Upstream(verb) = "imap"
  BY DEF Mail!Upstream, Mail!InMailbox

LEMMA MailStarts == Mail!Init => MailInv
  BY DEF Mail!Init, Mail!Idle, MailInv, MailTypes, MailCall, Mail!Session

\* What a step of one call must do to keep the invariant, whatever it does:
\* it may take the lock's queue only at its end, and change the current mailbox
\* only with the lock.
LEMMA OneCallMoves ==
    ASSUME MailInv, NEW c \in Call, NEW r \in MailCall, call' = [call EXCEPT ![c] = r],
           r.at # "idle" => ~r.ok /\ (r.verb \in Mail!InMailbox => r.folder # "none"),
           r.ok => r.done,
           r.at \in {"command", "stale"} => Mail!Holds(c) /\ r.verb = call[c].verb /\ queue' = queue,
           r.at = "command" /\ r.verb \in Mail!InMailbox => current' = r.folder,
           \/ queue' = queue
           \/ queue' = [queue EXCEPT ![Mail!Upstream(call[c].verb)] = Append(@, c)]
           \/ Mail!Holds(c) /\ queue' = [queue EXCEPT ![Mail!Upstream(call[c].verb)] = Tail(@)],
           current' = current \/ (Mail!Holds(c) /\ Mail!Upstream(call[c].verb) = "imap"),
           selected' # "none" => current' \in {"none", selected'}
    PROVE  MailInv'
<1> USE DEF MailInv, MailTypes
<1> DEFINE s == Mail!Upstream(call[c].verb)
<1>1. s \in Mail!Session
  BY UpstreamIsSession
<1>2. \A d \in Call : d # c => call'[d] = call[d]
  OBVIOUS
<1>3. call'[c] = r /\ call' \in [Call -> MailCall]
  OBVIOUS
<1>4. queue' \in [Mail!Session -> Seq(Call)]
  <2>1. CASE queue' = queue
    BY <2>1
  <2>2. CASE queue' = [queue EXCEPT ![s] = Append(@, c)]
    <3>1. Append(queue[s], c) \in Seq(Call)
      BY <1>1
    <3> HIDE DEF s
    <3> QED BY <2>2, <3>1
  <2>3. CASE Mail!Holds(c) /\ queue' = [queue EXCEPT ![s] = Tail(@)]
    <3>1. queue[s] # <<>>
      BY <2>3 DEF Mail!Holds
    <3>2. Tail(queue[s]) \in Seq(Call)
      BY <1>1, <3>1
    <3> HIDE DEF s
    <3> QED BY <2>3, <3>2
  <2> QED BY <2>1, <2>2, <2>3
<1>5. ASSUME NEW d \in Call, call'[d].at \in {"command", "stale"} PROVE Mail!Holds(d)'
  <2>1. CASE d = c
    BY <1>3, <1>5, <2>1 DEF Mail!Holds
  <2>2. CASE d # c
    <3> DEFINE t == Mail!Upstream(call[d].verb)
    <3>1. call'[d] = call[d] /\ t \in Mail!Session
      BY <1>2, <2>2, UpstreamIsSession
    <3>2. queue[t] # <<>> /\ Head(queue[t]) = d
      BY <1>5, <3>1 DEF Mail!Holds
    <3>3. CASE queue' = queue
      BY <3>1, <3>2, <3>3 DEF Mail!Holds
    <3>4. CASE queue' = [queue EXCEPT ![s] = Append(@, c)]
      <4>1. queue[t] \in Seq(Call)
        BY <3>1
      <4>2. Append(queue[t], c) # <<>> /\ Head(Append(queue[t], c)) = d
        BY <3>2, <4>1
      <4>3. queue'[t] # <<>> /\ Head(queue'[t]) = d
        <5> HIDE DEF s, t
        <5> QED BY <1>1, <3>1, <3>2, <3>4, <4>2
      <4> QED BY <3>1, <4>3 DEF Mail!Holds
    <3>5. CASE Mail!Holds(c) /\ queue' = [queue EXCEPT ![s] = Tail(@)]
      <4>1. s # t
        BY <2>2, <3>2, <3>5 DEF Mail!Holds
      <4>2. queue'[t] = queue[t]
        <5> HIDE DEF s, t
        <5> QED BY <3>1, <3>5, <4>1
      <4> QED BY <3>1, <3>2, <4>2 DEF Mail!Holds
    <3> QED BY <3>3, <3>4, <3>5
  <2> QED BY <2>1, <2>2
<1>6. ASSUME NEW d \in Call, call'[d].at = "command", call'[d].verb \in Mail!InMailbox
      PROVE  current' = call'[d].folder
  <2>1. CASE d = c
    BY <1>3, <1>6, <2>1
  <2>2. CASE d # c
    <3>1. call'[d] = call[d] /\ current = call[d].folder /\ Mail!Holds(d)
      BY <1>2, <1>6, <2>2
    <3>2. Mail!Upstream(call[d].verb) = "imap"
      BY <1>6, <3>1, InMailboxIsImap
    <3>3. ~(Mail!Holds(c) /\ s = "imap")
      BY <2>2, <3>1, <3>2 DEF Mail!Holds
    <3> QED BY <3>1, <3>3
  <2> QED BY <2>1, <2>2
<1>7. ASSUME NEW d \in Call
      PROVE  /\ call'[d].at # "idle" => ~call'[d].ok
             /\ call'[d].at # "idle" /\ call'[d].verb \in Mail!InMailbox => call'[d].folder # "none"
             /\ call'[d].ok => call'[d].done
  <2>1. CASE d = c
    BY <1>3, <2>1
  <2>2. CASE d # c
    BY <1>2, <2>2
  <2> QED BY <2>1, <2>2
<1> QED BY <1>3, <1>4, <1>5, <1>6, <1>7

LEMMA MailKeeps == MailInv /\ [Mail!Next]_(Mail!vars) => MailInv'
<1> SUFFICES ASSUME MailInv, [Mail!Next]_(Mail!vars) PROVE MailInv'
  OBVIOUS
<1>t. call \in [Call -> MailCall]
  BY DEF MailInv, MailTypes
<1>e. MailError \in MailCall
  BY DEF MailError, MailCall
<1>1. ASSUME NEW how, Mail!Boot(how) PROVE MailInv'
  BY <1>1 DEF Mail!Boot, Mail!Holds, MailInv, MailTypes
<1>2. ASSUME Mail!Killed PROVE MailInv'
  <2>1. \A d \in Call : call'[d] = IF call[d].at \in {"idle", "resolved"} THEN call[d] ELSE MailError
    BY <1>2, <1>t, ErrorEnds DEF Mail!Killed
  <2>2. call' \in [Call -> MailCall]
    <3>1. \A d \in Call : call'[d] \in MailCall
      BY <1>t, <1>e, <2>1
    <3>2. call' = [d \in Call |-> call'[d]]
      BY <1>2 DEF Mail!Killed
    <3> QED BY <3>1, <3>2
  <2>3. queue' \in [Mail!Session -> Seq(Call)]
    BY <1>2 DEF Mail!Killed
  <2>4. ASSUME NEW d \in Call
        PROVE  /\ call'[d].at \in {"idle", "resolved"}
               /\ call'[d].at # "idle" => call'[d] = call[d]
               /\ call'[d].ok => call'[d].done
    BY <2>1 DEF MailError, MailInv
  <2> QED BY <1>2, <2>2, <2>3, <2>4 DEF Mail!Killed, MailInv, MailTypes
<1>3. CASE Mail!Revoke
  BY <1>3 DEF Mail!Revoke, Mail!Holds, MailInv, MailTypes
<1>4. ASSUME NEW s \in Mail!Session, Mail!Drop(s) PROVE MailInv'
  BY <1>4 DEF Mail!Drop, Mail!Holds, MailInv, MailTypes
<1>5. ASSUME NEW c \in Call, NEW verb \in {"none", "list", "send", "events", "fetch", "move"},
             NEW f \in Folder \cup {Missing, "none"}, verb \in Mail!InMailbox => f # "none",
             Mail!Resolve(c, verb, f)
      PROVE MailInv'
  <2> DEFINE r == [verb |-> verb, folder |-> f, at |-> "resolved", retry |-> FALSE,
                   done |-> FALSE, ok |-> FALSE]
  <2>1. /\ call' = [call EXCEPT ![c] = r] /\ r \in MailCall
        /\ queue' = queue /\ current' = current /\ selected' = selected
    <3>3. [Mail!Idle EXCEPT !.verb = verb, !.folder = f, !.at = "resolved"] = r
      <4> DEFINE x == Mail!Idle
                 y == [x EXCEPT !.verb = verb]
                 z == [y EXCEPT !.folder = f]
      <4>1. x \in MailCall /\ x.retry = FALSE /\ x.done = FALSE /\ x.ok = FALSE
        BY IdleIsCall DEF Mail!Idle
      <4> HIDE DEF x
      <4>2. y \in MailCall /\ y = [verb |-> verb, folder |-> x.folder, at |-> x.at,
                                   retry |-> x.retry, done |-> x.done, ok |-> x.ok]
        BY <4>1 DEF MailCall
      <4> HIDE DEF y
      <4>3. z \in MailCall /\ z = [verb |-> y.verb, folder |-> f, at |-> y.at,
                                   retry |-> y.retry, done |-> y.done, ok |-> y.ok]
        BY <4>2 DEF MailCall
      <4> HIDE DEF z
      <4>4. [z EXCEPT !.at = "resolved"] = [verb |-> z.verb, folder |-> z.folder, at |-> "resolved",
                                            retry |-> z.retry, done |-> z.done, ok |-> z.ok]
        BY <4>3 DEF MailCall
      <4>5. [z EXCEPT !.at = "resolved"] = r
        BY <4>1, <4>2, <4>3, <4>4
      <4> QED BY <4>5 DEF x, y, z
    <3>4. r \in MailCall
      BY DEF MailCall
    <3> HIDE DEF r
    <3> QED BY <1>5, <3>3, <3>4 DEF Mail!Resolve
  <2>2. selected' # "none" => current' \in {"none", selected'}
    BY <2>1 DEF MailInv
  <2> QED BY <1>5, <2>1, <2>2, OneCallMoves
<1>6. ASSUME NEW c \in Call, Mail!Dispatch(c) PROVE MailInv'
  <2> DEFINE r == [call[c] EXCEPT !.at = "queued"]
  <2>1. /\ call[c].at = "resolved" /\ selected' = selected /\ current' = current
        /\ \/ call' = [call EXCEPT ![c] = MailError] /\ queue' = queue
           \/ /\ call' = [call EXCEPT ![c] = r]
              /\ queue' = [queue EXCEPT ![Mail!Upstream(call[c].verb)] = Append(@, c)]
    <3>1. [call EXCEPT ![c].at = "queued"] = [call EXCEPT ![c] = r]
      BY <1>t DEF MailCall
    <3> HIDE DEF r
    <3> QED BY <1>6, <1>t, <3>1, ErrorEnds DEF Mail!Dispatch
  <2>2. selected' # "none" => current' \in {"none", selected'}
    BY <2>1 DEF MailInv
  <2>3. CASE call' = [call EXCEPT ![c] = MailError] /\ queue' = queue
    BY <1>e, <2>1, <2>2, <2>3, OneCallMoves DEF MailError
  <2>4. CASE /\ call' = [call EXCEPT ![c] = r]
             /\ queue' = [queue EXCEPT ![Mail!Upstream(call[c].verb)] = Append(@, c)]
    <3>1. /\ r \in MailCall /\ r.at = "queued" /\ ~r.ok
          /\ r.verb \in Mail!InMailbox => r.folder # "none"
      BY <1>t, <2>1 DEF MailCall, MailInv
    <3> HIDE DEF r
    <3> QED BY <2>1, <2>2, <2>4, <3>1, OneCallMoves
  <2> QED BY <2>1, <2>3, <2>4
<1>7. ASSUME NEW c \in Call, Mail!Select(c) PROVE MailInv'
  <2> DEFINE At(a) == [call[c] EXCEPT !.at = a]
  <2>1. /\ call[c].at = "queued" /\ Mail!Holds(c)
        /\ \/ /\ call' = [call EXCEPT ![c] = At("command")] /\ UNCHANGED <<selected, current, queue>>
              /\ call[c].verb \in Mail!InMailbox => current = call[c].folder
           \/ call' = [call EXCEPT ![c] = At("stale")] /\ UNCHANGED <<selected, current, queue>>
           \/ /\ call' = [call EXCEPT ![c] = At("command")] /\ queue' = queue
              /\ selected' = call[c].folder /\ current' = call[c].folder
              /\ call[c].verb \in Mail!InMailbox
           \/ /\ call' = [call EXCEPT ![c] = MailError]
              /\ queue' = [queue EXCEPT !["imap"] = Tail(@)]
              /\ selected' = "none" /\ current' = current /\ call[c].verb \in Mail!InMailbox
    <3>1. \A a \in {"command", "stale"} : [call EXCEPT ![c].at = a] = [call EXCEPT ![c] = At(a)]
      BY <1>t DEF MailCall
    <3> HIDE DEF At
    <3> QED BY <1>7, <1>t, <3>1, ErrorEnds DEF Mail!Select, Mail!Released
  <2>2. call[c].verb \in Mail!InMailbox => Mail!Upstream(call[c].verb) = "imap"
    BY InMailboxIsImap
  <2>3. \A a \in {"command", "stale"} :
           /\ At(a) \in MailCall /\ At(a).at = a /\ ~At(a).ok
           /\ At(a).verb = call[c].verb /\ At(a).folder = call[c].folder
           /\ At(a).verb \in Mail!InMailbox => At(a).folder # "none"
    BY <1>t, <2>1 DEF MailCall, MailInv
  <2> HIDE DEF At
  <2>4. selected # "none" => current \in {"none", selected}
    BY DEF MailInv
  <2>5. CASE /\ call' = [call EXCEPT ![c] = At("command")] /\ UNCHANGED <<selected, current, queue>>
             /\ call[c].verb \in Mail!InMailbox => current = call[c].folder
    BY <2>1, <2>3, <2>4, <2>5, OneCallMoves
  <2>6. CASE call' = [call EXCEPT ![c] = At("stale")] /\ UNCHANGED <<selected, current, queue>>
    BY <2>1, <2>3, <2>4, <2>6, OneCallMoves
  <2>7. CASE /\ call' = [call EXCEPT ![c] = At("command")] /\ queue' = queue
             /\ selected' = call[c].folder /\ current' = call[c].folder
             /\ call[c].verb \in Mail!InMailbox
    BY <2>1, <2>2, <2>3, <2>7, OneCallMoves
  <2>8. CASE /\ call' = [call EXCEPT ![c] = MailError]
             /\ queue' = [queue EXCEPT !["imap"] = Tail(@)]
             /\ selected' = "none" /\ current' = current /\ call[c].verb \in Mail!InMailbox
    BY <1>e, <2>1, <2>2, <2>8, OneCallMoves DEF MailError
  <2> QED BY <2>1, <2>5, <2>6, <2>7, <2>8
<1>8. ASSUME NEW c \in Call, NEW b \in BOOLEAN, Mail!Command(c, b) PROVE MailInv'
  <2> DEFINE done == call[c].verb \in Mail!InMailbox => selected = call[c].folder
             Stale(d) == [call[c] EXCEPT !.at = "stale", !.done = d]
             fine == [verb |-> "none", folder |-> "none", at |-> "idle", retry |-> FALSE,
                      done |-> done, ok |-> TRUE]
  <2>1. /\ call[c].at = "command" /\ Mail!Holds(c) /\ UNCHANGED <<selected, current>>
        /\ \/ /\ queue' = queue
              /\ \E d \in BOOLEAN : call' = [call EXCEPT ![c] = Stale(d)]
           \/ /\ queue' = [queue EXCEPT ![Mail!Upstream(call[c].verb)] = Tail(@)]
              /\ \/ call' = [call EXCEPT ![c] = MailError]
                 \/ /\ call' = [call EXCEPT ![c] = fine]
                    /\ call[c].verb \in Mail!InMailbox => selected # "none"
    <3>1. call[c].done \in BOOLEAN /\ [call[c] EXCEPT !.at = "stale"] = Stale(call[c].done)
      BY <1>t DEF MailCall
    <3>2. done \in BOOLEAN
      OBVIOUS
    <3>3. [call EXCEPT ![c].at = "stale"] = [call EXCEPT ![c] = Stale(call[c].done)]
      BY <1>t, <3>1
    <3>4. [call EXCEPT ![c].at = "stale", ![c].done = done] = [call EXCEPT ![c] = Stale(done)]
      BY <1>t DEF MailCall
    <3>5. [Mail!Ended(c, TRUE) EXCEPT ![c].done = done] = [call EXCEPT ![c] = fine]
      BY <1>t, <3>2, SuccessEnds
    <3>6. Mail!Ended(c, FALSE) = [call EXCEPT ![c] = MailError]
      BY <1>t, ErrorEnds
    <3> HIDE DEF Stale, fine
    <3> QED BY <1>8, <3>1, <3>2, <3>3, <3>4, <3>5, <3>6 DEF Mail!Command, Mail!Released
  <2>2. /\ selected # "none" => current \in {"none", selected}
        /\ call[c].verb \in Mail!InMailbox => current = call[c].folder /\ call[c].folder # "none"
    BY <2>1 DEF MailInv
  <2>3. (call[c].verb \in Mail!InMailbox => selected # "none") => done
    BY <2>2
  <2>4. /\ \A d \in BOOLEAN : /\ Stale(d) \in MailCall /\ Stale(d).at = "stale" /\ ~Stale(d).ok
                              /\ Stale(d).verb = call[c].verb /\ Stale(d).folder = call[c].folder
        /\ fine \in MailCall /\ fine.at = "idle" /\ fine.done = done
    <3>1. done \in BOOLEAN /\ ~call[c].ok
      BY <2>1 DEF MailInv
    <3> HIDE DEF done
    <3> QED BY <1>t, <3>1 DEF MailCall
  <2> HIDE DEF done, fine, Stale
  <2>5. ASSUME NEW d \in BOOLEAN, queue' = queue, call' = [call EXCEPT ![c] = Stale(d)] PROVE MailInv'
    BY <2>1, <2>2, <2>4, <2>5, OneCallMoves
  <2>6. CASE /\ queue' = [queue EXCEPT ![Mail!Upstream(call[c].verb)] = Tail(@)]
             /\ call' = [call EXCEPT ![c] = MailError]
    BY <1>e, <2>1, <2>2, <2>6, OneCallMoves DEF MailError
  <2>7. CASE /\ queue' = [queue EXCEPT ![Mail!Upstream(call[c].verb)] = Tail(@)]
             /\ call' = [call EXCEPT ![c] = fine]
             /\ call[c].verb \in Mail!InMailbox => selected # "none"
    BY <2>1, <2>2, <2>3, <2>4, <2>7, OneCallMoves
  <2> QED BY <2>1, <2>5, <2>6, <2>7
<1>9. ASSUME NEW c \in Call, NEW b \in BOOLEAN, Mail!Reconnect(c, b) PROVE MailInv'
  <2> DEFINE r == [call[c] EXCEPT !.at = "queued", !.retry = TRUE]
  <2>1. /\ call[c].at = "stale"
        /\ \/ /\ call' = [call EXCEPT ![c] = r] /\ queue' = queue
              /\ selected' = IF Mail!Upstream(call[c].verb) = "imap" THEN "none" ELSE selected
           \/ /\ call' = [call EXCEPT ![c] = MailError]
              /\ queue' = [queue EXCEPT ![Mail!Upstream(call[c].verb)] = Tail(@)]
              /\ selected' = selected
        /\ current' = current \/ (current' = "none" /\ Mail!Upstream(call[c].verb) = "imap")
    BY <1>9, <1>t, ErrorEnds DEF Mail!Reconnect, Mail!Released
  <2>2. Mail!Holds(c)
    BY <2>1 DEF MailInv
  <2>3. selected' # "none" => current' \in {"none", selected'}
    BY <2>1 DEF MailInv
  <2>4. /\ r \in MailCall /\ r.at = "queued" /\ ~r.ok
        /\ r.verb \in Mail!InMailbox => r.folder # "none"
    BY <1>t, <2>1, ZenonT(30) DEF MailCall, MailInv
  <2> HIDE DEF r
  <2>5. CASE call' = [call EXCEPT ![c] = r] /\ queue' = queue
    BY <2>1, <2>2, <2>3, <2>4, <2>5, OneCallMoves
  <2>6. CASE /\ call' = [call EXCEPT ![c] = MailError]
             /\ queue' = [queue EXCEPT ![Mail!Upstream(call[c].verb)] = Tail(@)]
    BY <1>e, <2>1, <2>2, <2>3, <2>6, OneCallMoves DEF MailError
  <2> QED BY <2>1, <2>5, <2>6
<1>10. CASE UNCHANGED Mail!vars
  BY <1>10 DEF Mail!vars, Mail!Holds, MailInv, MailTypes
<1>11. ASSUME NEW c \in Call, NEW verb \in {"list", "send", "events"}, Mail!Resolve(c, verb, "none")
       PROVE  MailInv'
  BY <1>5, <1>11 DEF Mail!InMailbox
<1>12. ASSUME NEW c \in Call, NEW verb \in Mail!InMailbox, NEW f \in Folder \cup {Missing},
              Mail!Resolve(c, verb, f)
       PROVE  MailInv'
  BY <1>5, <1>12, NoneIsNoFolder DEF Mail!InMailbox
<1>13. CASE Mail!Spawn
  BY <1>2, <1>13 DEF Mail!Spawn
<1>14. ASSUME NEW w \in BOOLEAN, Mail!Update(w) PROVE MailInv'
  BY <1>2, <1>14 DEF Mail!Update
<1> QED
  BY <1>1, <1>3, <1>4, <1>6, <1>7, <1>8, <1>9, <1>10, <1>11, <1>12, <1>13, <1>14 DEF Mail!Next

LEMMA MailSteps == [AllNext]_allVars => [Mail!Next]_(Mail!vars)
  BY DEF AllNext, allVars, mailVars, Mail!vars

-----------------------------------------------------------------------------
(* The Google broker                                                       *)

\* What a request is to bring about, and the requests; a label is named.
Effect == Label \cup Uid \cup {NoLabel, "done", "file"}
Reads == [do : {"get", "change", "load", "save"}, on : Effect] \cup [do : {"label"}, on : Label]
Request == Reads \cup [do : {"modify"}, on : Effect]
Found == [name : Label, id : Google!LabelIds \cup Label \cup {NoLabel}]
GoogleCall == [at : {"idle", "running", "orphan"}, todo : Seq(Request),
               found : Seq(Found),
               wants : SUBSET Effect, did : SUBSET Effect, ok : BOOLEAN]

\* The requests of a move: two labels to find, then the messages.
Movelike(todo, found) ==
    (\E i \in DOMAIN todo : todo[i].do = "modify") =>
        /\ Len(found) <= 2
        /\ \A i \in DOMAIN todo :
              todo[i].do = IF i <= 2 - Len(found) THEN "label" ELSE "modify"
\* An id that was found is one that its name has had, or no label's.
WellFound(found) == \A k \in DOMAIN found :
    found[k].id \in had[found[k].name] \/ found[k].id \notin Google!LabelIds \cup {NoLabel}
\* What a call still owes is among the requests it has yet to make.
GoogleCallInv(r) ==
    /\ Movelike(r.todo, r.found) /\ WellFound(r.found)
    /\ r.at # "idle" => ~r.ok /\ r.wants \subseteq r.did \cup Google!Effects(r.todo)
    /\ r.ok => r.wants \subseteq r.did

LabelsInv ==
    /\ labels \in [Label -> Google!LabelIds \cup {NoLabel}]
    /\ had \in [Label -> SUBSET (Google!LabelIds \cup {NoLabel})]
    /\ \A n \in Label : labels[n] \in had[n]
    /\ "INBOX" \in had["INBOX"]
    /\ labelCache # Google!Unloaded =>
          /\ labelCache \in [Label -> Google!LabelIds \cup {NoLabel}]
          /\ \A n \in Label : labelCache[n] \in had[n]
GoogleInv ==
    /\ LabelsInv
    /\ googleCall \in [Call -> GoogleCall]
    /\ \A c \in Call : GoogleCallInv(googleCall[c])

LEMMA EffectsShrink ==
    ASSUME NEW todo \in Seq(Request), todo # <<>>
    PROVE  Google!Effects(todo) \subseteq
              Google!Effects(Tail(todo)) \cup
              (IF Head(todo).do \in {"save", "change", "modify"} THEN {Head(todo).on} ELSE {})
<1> SUFFICES ASSUME NEW i \in DOMAIN todo, todo[i].do \in {"save", "change", "modify"}
             PROVE  \/ todo[i].on \in Google!Effects(Tail(todo))
                    \/ i = 1
  BY DEF Google!Effects
<1>1. i \in Nat /\ Len(todo) \in Nat /\ 1 <= i /\ i <= Len(todo) /\ Len(Tail(todo)) = Len(todo) - 1
  OBVIOUS
<1>2. CASE i > 1
  <2>1. i - 1 \in DOMAIN Tail(todo) /\ Tail(todo)[i - 1] = todo[i]
    BY <1>1, <1>2
  <2> QED BY <2>1 DEF Google!Effects
<1> QED BY <1>1, <1>2

LEMMA MovelikeShrinks ==
    ASSUME NEW todo \in Seq(Request), todo # <<>>, NEW S, NEW found \in Seq(S), NEW x \in S,
           Movelike(todo, found)
    PROVE  /\ Head(todo).do = "label" => Movelike(Tail(todo), Append(found, x))
           /\ Head(todo).do = "modify" => Movelike(Tail(todo), found) /\ Len(found) = 2
           /\ Head(todo).do \notin {"label", "modify"} => Movelike(Tail(todo), found)
<1>1. /\ Len(todo) \in Nat \ {0} /\ Len(Tail(todo)) = Len(todo) - 1 /\ Len(found) \in Nat
      /\ DOMAIN todo = 1..Len(todo) /\ DOMAIN Tail(todo) = 1..(Len(todo) - 1)
      /\ \A i \in DOMAIN Tail(todo) : i + 1 \in DOMAIN todo /\ Tail(todo)[i] = todo[i + 1]
      /\ Head(todo) = todo[1] /\ 1 \in DOMAIN todo
      /\ Len(Append(found, x)) = Len(found) + 1
  OBVIOUS
<1>2. CASE \E i \in DOMAIN todo : todo[i].do = "modify"
  <2>1. /\ Len(found) <= 2
        /\ \A i \in DOMAIN todo : todo[i].do = IF i <= 2 - Len(found) THEN "label" ELSE "modify"
    BY <1>2 DEF Movelike
  <2>2. Head(todo).do = "label" => 1 <= 2 - Len(found)
    BY <1>1, <2>1
  <2>3. Head(todo).do = "modify" => Len(found) = 2
    <3>1. Head(todo).do = IF 1 <= 2 - Len(found) THEN "label" ELSE "modify"
      BY <1>1, <2>1
    <3>2. 1 <= 2 - Len(found) \/ Len(found) = 2
      <4>1. Len(found) \in Nat /\ Len(found) <= 2
        BY <2>1
      <4>2. \A n \in Nat : n <= 2 => 1 <= 2 - n \/ n = 2
        OBVIOUS
      <4> QED BY ONLY <4>1, <4>2, Zenon
    <3> QED BY <3>1, <3>2
  <2>4. Head(todo).do \in {"label", "modify"}
    BY <1>1, <2>1
  <2>5. Head(todo).do = "label" => Movelike(Tail(todo), Append(found, x))
    BY <1>1, <2>1, <2>2 DEF Movelike
  <2>6. Head(todo).do = "modify" => Movelike(Tail(todo), found)
    BY <1>1, <2>1, <2>3 DEF Movelike
  <2> QED BY <2>3, <2>4, <2>5, <2>6
<1>3. CASE ~\E i \in DOMAIN todo : todo[i].do = "modify"
  BY <1>1, <1>3 DEF Movelike
<1> QED BY <1>2, <1>3

LEMMA RequestsAreTyped ==
    /\ \A what \in {"get", "change", "load", "save"}, on \in Effect : Google!Do(what, on) \in Reads
    /\ \A n \in Label : Google!Do("label", n) \in Reads
    /\ \A u \in Uid : Google!Do("modify", u) \in Request
    /\ Reads \subseteq Request
  BY DEF Google!Do, Reads, Request, Effect

LEMMA SimpleIsReads == \A v \in DOMAIN Google!Simple : Google!Simple[v] \in Seq(Reads)
<1>1. /\ Google!read \in Seq(Reads) /\ Google!change \in Seq(Reads) /\ Google!save \in Seq(Reads)
      /\ <<Google!Do("label", "INBOX")>> \in Seq(Reads)
      /\ <<Google!Do("load", NoLabel)>> \in Seq(Reads)
  <2>1. /\ Google!Do("get", NoLabel) \in Reads /\ Google!Do("change", "done") \in Reads
        /\ Google!Do("save", "file") \in Reads /\ Google!Do("label", "INBOX") \in Reads
        /\ Google!Do("load", NoLabel) \in Reads
    BY RequestsAreTyped, LabelsAssumption DEF Effect
  <2> QED BY <2>1 DEF Google!read, Google!change, Google!save
<1>2. \A a, b \in Seq(Reads) : a \o b \in Seq(Reads)
  OBVIOUS
<1>3. /\ Google!export_file \in Seq(Reads) /\ Google!get_attachment \in Seq(Reads)
      /\ Google!list_messages \in Seq(Reads)
  BY <1>1, <1>2 DEF Google!export_file, Google!get_attachment, Google!list_messages
<1>4. \A v \in {"listFiles", "export", "changeFile"} : Google!Drive(v) \in Seq(Reads)
  BY <1>1, <1>2, <1>3 DEF Google!Drive, Google!list_files, Google!change_file
<1>5. \A v : Google!Calendar(v) \in Seq(Reads) /\ Google!Contacts(v) \in Seq(Reads)
  BY <1>1 DEF Google!Calendar, Google!Contacts, Google!list_events, Google!change_event,
              Google!list_contacts
<1>6. \A v \in {"listLabels", "listMessages", "fetchMessage", "fetchAttachment", "send"} :
         Google!Email(v) \in Seq(Reads)
  BY <1>1, <1>2, <1>3 DEF Google!Email, Google!get_message, Google!send_message
<1> SUFFICES ASSUME NEW v \in {"listFiles", "export", "changeFile", "listEvents", "changeEvent",
                               "listLabels", "listMessages", "fetchMessage", "fetchAttachment",
                               "send", "listContacts"}
             PROVE  Google!Simple[v] \in Seq(Reads)
  BY DEF Google!Simple
<1>7. Google!Simple[v] = CASE Google!Capability(v) = "drive" -> Google!Drive(v)
                           [] Google!Capability(v) = "calendar" -> Google!Calendar(v)
                           [] Google!Capability(v) = "contacts" -> Google!Contacts(v)
                           [] OTHER -> Google!Email(v)
  BY DEF Google!Simple
<1>8. /\ Google!Capability(v) = "drive" => v \in {"listFiles", "export", "changeFile"}
      /\ Google!Capability(v) \notin {"drive", "calendar", "contacts"} =>
            v \in {"listLabels", "listMessages", "fetchMessage", "fetchAttachment", "send"}
  BY DEF Google!Capability
<1> QED BY <1>4, <1>5, <1>6, <1>7, <1>8

LEMMA MoveIsMovelike ==
    ASSUME NEW m \in Moving
    PROVE  /\ Google!move_messages(m.from, m.to, m.uids) \in Seq(Request)
           /\ Movelike(Google!move_messages(m.from, m.to, m.uids), <<>>)
<1> DEFINE a == <<Google!Do("label", m.from), Google!Do("label", m.to)>>
           b == [i \in 1..Len(m.uids) |-> Google!Do("modify", m.uids[i])]
<1>1. m.from \in Label /\ m.to \in Label /\ m.uids \in Seq(Uid)
  BY LabelsAssumption
<1>2. a \in Seq(Request) /\ Len(a) = 2 /\ \A i \in 1..2 : a[i].do = "label"
  <2>1. Google!Do("label", m.from) \in Request /\ Google!Do("label", m.to) \in Request
    BY <1>1, RequestsAreTyped
  <2>2. Google!Do("label", m.from).do = "label" /\ Google!Do("label", m.to).do = "label"
    BY DEF Google!Do
  <2>3. \A x, y \in Request : /\ <<x, y>> \in Seq(Request) /\ Len(<<x, y>>) = 2
                              /\ <<x, y>>[1] = x /\ <<x, y>>[2] = y
    OBVIOUS
  <2>4. a \in Seq(Request) /\ Len(a) = 2
    BY <2>1, <2>3
  <2>5. a[1].do = "label" /\ a[2].do = "label"
    BY <2>1, <2>2, <2>3
  <2> QED BY <2>4, <2>5
<1>3. b \in Seq(Request) /\ Len(b) = Len(m.uids) /\ \A i \in 1..Len(b) : b[i].do = "modify"
  <2>1. \A i \in 1..Len(m.uids) : b[i] \in Request /\ b[i].do = "modify"
    BY <1>1, RequestsAreTyped DEF Google!Do
  <2>2. Len(m.uids) \in Nat
    BY <1>1
  <2>3. \A n \in Nat : \A f \in [1..n -> Request] : f \in Seq(Request) /\ Len(f) = n
    OBVIOUS
  <2>4. b \in [1..Len(m.uids) -> Request]
    BY <2>1
  <2> HIDE DEF b
  <2>5. b \in Seq(Request) /\ Len(b) = Len(m.uids)
    BY <2>2, <2>3, <2>4
  <2> QED BY <2>1, <2>5
<1> HIDE DEF a, b
<1>4. /\ a \o b \in Seq(Request) /\ Len(a \o b) = 2 + Len(b)
      /\ \A i \in 1..(2 + Len(b)) : (a \o b)[i] = IF i <= 2 THEN a[i] ELSE b[i - 2]
  <2>1. \A p, q \in Seq(Request) :
           /\ p \o q \in Seq(Request) /\ Len(p \o q) = Len(p) + Len(q)
           /\ \A i \in 1..(Len(p) + Len(q)) :
                 (p \o q)[i] = IF i <= Len(p) THEN p[i] ELSE q[i - Len(p)]
    OBVIOUS
  <2>2. a \in Seq(Request) /\ b \in Seq(Request) /\ Len(a) = 2
    BY <1>2, <1>3
  <2> HIDE DEF Request
  <2>3. \A i \in 1..(Len(a) + Len(b)) :
           (a \o b)[i] = IF i <= Len(a) THEN a[i] ELSE b[i - Len(a)]
    BY ONLY <2>1, <2>2, Zenon
  <2> QED BY ONLY <2>1, <2>2, <2>3, ZenonT(30)
<1>5. Len(b) \in Nat
  BY <1>3
<1>6. Movelike(a \o b, <<>>)
  <2>1. ASSUME NEW i \in DOMAIN (a \o b)
        PROVE  (a \o b)[i].do = IF i <= 2 THEN "label" ELSE "modify"
    <3>1. i \in 1..(2 + Len(b))
      BY <1>4, <1>5
    <3>2. CASE i <= 2
      BY <1>2, <1>4, <3>1, <3>2
    <3>3. CASE ~(i <= 2)
      <4>1. i - 2 \in 1..Len(b)
        BY <1>5, <3>1, <3>3
      <4> QED BY <1>3, <1>4, <3>1, <3>3, <4>1
    <3> QED BY <3>2, <3>3
  <2> QED BY <2>1 DEF Movelike
<1> QED BY <1>4, <1>6 DEF Google!move_messages, a, b

LEMMA IdleIsGoogleCall == Google!Idle \in GoogleCall /\ GoogleCallInv(Google!Idle) /\ GoogleCallInv(Google!Idle)'
<1>1. Google!Idle \in GoogleCall
  BY DEF Google!Idle, GoogleCall
<1>2. Google!Idle.todo = <<>> /\ Google!Idle.found = <<>> /\ Google!Idle.at = "idle" /\ ~Google!Idle.ok
  BY DEF Google!Idle
<1> QED BY <1>1, <1>2 DEF GoogleCallInv, Movelike, WellFound

LEMMA GoogleStarts == Google!Init => GoogleInv
<1> SUFFICES ASSUME Google!Init PROVE GoogleInv
  OBVIOUS
<1>1. LabelsInv
  BY LabelsAssumption DEF Google!Init, LabelsInv
<1>2. googleCall \in [Call -> GoogleCall] /\ \A c \in Call : googleCall[c] = Google!Idle
  BY IdleIsGoogleCall DEF Google!Init
<1> QED BY <1>1, <1>2, IdleIsGoogleCall DEF GoogleInv

\* What was found stays so, as names only gain ids.
LEMMA GoogleCallsKeep ==
    ASSUME GoogleInv, LabelsInv', \A n \in Label : had[n] \subseteq had'[n],
           googleCall' \in [Call -> GoogleCall],
           \A d \in Call : GoogleCallInv(googleCall'[d])
    PROVE  GoogleInv'
<1>1. ASSUME NEW d \in Call PROVE GoogleCallInv(googleCall[d])'
  <2> DEFINE r == googleCall'[d]
  <2>1. r \in GoogleCall /\ GoogleCallInv(r)
    OBVIOUS
  <2>2. ASSUME NEW k \in DOMAIN r.found
        PROVE  \/ r.found[k].id \in had'[r.found[k].name]
               \/ r.found[k].id \notin Google!LabelIds \cup {NoLabel}
    <3>1. r.found[k].name \in Label
      <4>1. r.found \in Seq(Found)
        BY <2>1 DEF GoogleCall
      <4>2. r.found[k] \in Found
        BY <4>1
      <4> QED BY <4>2 DEF Found
    <3>2. \/ r.found[k].id \in had[r.found[k].name]
          \/ r.found[k].id \notin Google!LabelIds \cup {NoLabel}
      BY <2>1 DEF GoogleCallInv, WellFound
    <3> HIDE DEF r
    <3> QED BY <3>1, <3>2
  <2> QED BY <2>1, <2>2 DEF GoogleCallInv, WellFound
<1> QED BY <1>1 DEF GoogleInv

LEMMA OneGoogleCall ==
    ASSUME GoogleInv, LabelsInv', had' = had, NEW c \in Call, NEW r \in GoogleCall, GoogleCallInv(r),
           googleCall' = [googleCall EXCEPT ![c] = r]
    PROVE  GoogleInv'
<1>1. googleCall' \in [Call -> GoogleCall]
  BY DEF GoogleInv
<1>2. \A d \in Call : GoogleCallInv(googleCall'[d])
  BY DEF GoogleInv
<1> QED BY <1>1, <1>2, GoogleCallsKeep


\* The next request of a call: what it was to bring about is done when it is passed.
LEMMA CallGoes ==
    ASSUME GoogleInv, NEW c \in Call, googleCall[c].at # "idle", googleCall[c].todo # <<>>,
           NEW found \in Seq(Found), WellFound(found), Movelike(Tail(googleCall[c].todo), found),
           NEW did \in SUBSET Effect, googleCall[c].did \subseteq did,
           Head(googleCall[c].todo).do \in {"save", "change", "modify"} =>
              Head(googleCall[c].todo).on \in did
    PROVE  \E r \in GoogleCall : GoogleCallInv(r)
              /\ Google!Goes(c, found, did) = [googleCall EXCEPT ![c] = r]
<1> DEFINE q == googleCall[c]
           r == [q EXCEPT !.todo = Tail(q.todo), !.found = found, !.did = did]
<1>1. q \in GoogleCall /\ GoogleCallInv(q)
  BY DEF GoogleInv
<1>2. q.todo \in Seq(Request) /\ q.todo # <<>> /\ Tail(q.todo) \in Seq(Request)
  <2>1. q.todo \in Seq(Request)
    BY <1>1 DEF GoogleCall
  <2> QED BY <2>1
<1>3. /\ r \in GoogleCall /\ r.at = q.at /\ r.todo = Tail(q.todo) /\ r.found = found
      /\ r.did = did /\ r.wants = q.wants /\ r.ok = q.ok
  <2> HIDE DEF q
  <2> QED BY <1>1, <1>2 DEF GoogleCall, Found
<1>4. q.wants \subseteq did \cup Google!Effects(Tail(q.todo)) /\ ~q.ok
  <2>1. Google!Effects(q.todo) \subseteq Google!Effects(Tail(q.todo)) \cup did
    BY <1>2, EffectsShrink
  <2> QED BY <1>1, <2>1 DEF GoogleCallInv
<1>5. GoogleCallInv(r)
  <2> HIDE DEF r
  <2> QED BY <1>3, <1>4 DEF GoogleCallInv
<1>6. Google!Goes(c, found, did) = [googleCall EXCEPT ![c] = r]
  BY DEF Google!Goes
<1> HIDE DEF r
<1> QED BY <1>3, <1>5, <1>6

\* A call that ended: one that says OK has made all its requests.
LEMMA CallEnds ==
    ASSUME GoogleInv, NEW c \in Call, NEW ok \in BOOLEAN,
           ok => googleCall[c].todo = <<>> /\ googleCall[c].at # "idle"
    PROVE  \E r \in GoogleCall : GoogleCallInv(r)
              /\ Google!Ended(c, ok) = [googleCall EXCEPT ![c] = r]
<1> DEFINE q == googleCall[c]
           x == Google!Idle
           r == [x EXCEPT !.ok = TRUE, !.wants = q.wants, !.did = q.did]
<1>1. q \in GoogleCall /\ GoogleCallInv(q) /\ x \in GoogleCall /\ GoogleCallInv(x)
  BY IdleIsGoogleCall DEF GoogleInv
<1>2. CASE ok /\ q.at = "running"
  <2>1. q.wants \subseteq q.did
    BY <1>1, <1>2 DEF GoogleCallInv, Google!Effects
  <2>2. x.at = "idle" /\ x.todo = <<>> /\ x.found = <<>>
    BY DEF Google!Idle
  <2> HIDE DEF q, x
  <2>3. /\ r \in GoogleCall /\ r.at = x.at /\ r.todo = x.todo /\ r.found = x.found
        /\ r.did = q.did /\ r.wants = q.wants /\ r.ok = TRUE
    BY <1>1 DEF GoogleCall
  <2> HIDE DEF r
  <2>4. GoogleCallInv(r)
    BY <2>1, <2>2, <2>3 DEF GoogleCallInv, Movelike, WellFound
  <2> USE DEF r
  <2>5. Google!Ended(c, ok) = [googleCall EXCEPT ![c] = r]
    BY <1>2 DEF Google!Ended, q, x
  <2> HIDE DEF r
  <2> QED BY <2>3, <2>4, <2>5
<1>3. CASE ~(ok /\ q.at = "running")
  BY <1>1, <1>3 DEF Google!Ended
<1> QED BY <1>2, <1>3

LEMMA GoogleKeeps == GoogleInv /\ [Google!Next]_(Google!vars) => GoogleInv'
<1> SUFFICES ASSUME GoogleInv, [Google!Next]_(Google!vars) PROVE GoogleInv'
  OBVIOUS
<1>t. LabelsInv /\ googleCall \in [Call -> GoogleCall] /\ \A c \in Call : GoogleCallInv(googleCall[c])
  BY DEF GoogleInv
\* A step that leaves labels, cache and past as they are leaves their invariant.
<1>l. ASSUME UNCHANGED <<labels, had, labelCache>> PROVE LabelsInv'
  BY <1>t, <1>l DEF LabelsInv
<1>m. ASSUME NEW c \in Call, LabelsInv', had' = had,
             \E r \in GoogleCall : GoogleCallInv(r) /\ googleCall' = [googleCall EXCEPT ![c] = r]
      PROVE  GoogleInv'
  BY <1>m, OneGoogleCall
<1>s. ASSUME LabelsInv', googleCall' = googleCall, had' = had PROVE GoogleInv'
  BY <1>s, <1>t, GoogleCallsKeep
<1>1. ASSUME NEW how, Google!Start(how) PROVE GoogleInv'
  BY <1>1, <1>l, <1>s DEF Google!Start
<1>2. CASE Google!Revoke
  BY <1>2, <1>l, <1>s DEF Google!Revoke
<1>3. ASSUME NEW c \in Call, Google!Abandon(c) PROVE GoogleInv'
  <2> DEFINE q == googleCall[c]
             r == [q EXCEPT !.at = "orphan"]
  <2>1. /\ LabelsInv' /\ had' = had /\ q.at = "running"
        /\ googleCall' = [googleCall EXCEPT ![c] = r]
    BY <1>3, <1>l DEF Google!Abandon
  <2>2. q \in GoogleCall /\ GoogleCallInv(q)
    BY <1>t
  <2> HIDE DEF q
  <2>3. /\ r \in GoogleCall /\ r.at = "orphan" /\ r.todo = q.todo /\ r.found = q.found
        /\ r.did = q.did /\ r.wants = q.wants /\ r.ok = q.ok
    BY <2>2 DEF GoogleCall
  <2> HIDE DEF r
  <2>4. GoogleCallInv(r)
    BY <2>1, <2>2, <2>3 DEF GoogleCallInv
  <2> QED BY <1>m, <2>1, <2>3, <2>4
<1>4. CASE Google!Spawn
  <2>1. LabelsInv' /\ had' = had
    BY <1>4, <1>t DEF Google!Spawn, LabelsInv
  <2>2. ASSUME NEW d \in Call PROVE googleCall'[d] \in GoogleCall /\ GoogleCallInv(googleCall'[d])
    BY <1>4, <1>t, IdleIsGoogleCall DEF Google!Spawn
  <2>3. googleCall' = [d \in Call |-> googleCall'[d]]
    BY <1>4 DEF Google!Spawn
  <2>4. googleCall' \in [Call -> GoogleCall]
    BY <2>2, <2>3
  <2> QED BY <2>1, <2>2, <2>4, GoogleCallsKeep
<1>5. ASSUME NEW n \in Label, Google!Relabel(n) PROVE GoogleInv'
  <2>1. labels' \in [Label -> Google!LabelIds \cup {NoLabel}]
    BY <1>5, <1>t DEF Google!Relabel, LabelsInv, Google!LabelIds
  <2>2. had' = [m \in Label |-> had[m] \cup {labels'[m]}]
    BY <1>5 DEF Google!Relabel
  <2>3. \A m \in Label : had[m] \subseteq had'[m] /\ labels'[m] \in had'[m]
    BY <2>2
  <2>4. had' \in [Label -> SUBSET (Google!LabelIds \cup {NoLabel})]
    BY <1>t, <2>1, <2>2 DEF LabelsInv
  <2>5. LabelsInv'
    BY <1>5, <1>t, <2>1, <2>3, <2>4, LabelsAssumption DEF Google!Relabel, LabelsInv
  <2>6. googleCall' = googleCall
    BY <1>5 DEF Google!Relabel
  <2> QED BY <1>t, <2>3, <2>5, <2>6, GoogleCallsKeep
<1>6. ASSUME NEW c \in Call, NEW verb, NEW todo \in Seq(Request), Movelike(todo, <<>>),
             Google!dispatch(c, verb, todo)
      PROVE  GoogleInv'
  <2> DEFINE x == Google!Idle
             r == [x EXCEPT !.at = "running", !.todo = todo, !.wants = Google!Effects(todo)]
  <2>1. LabelsInv' /\ had' = had
    BY <1>6, <1>l DEF Google!dispatch
  <2>2. /\ x \in GoogleCall /\ GoogleCallInv(x)
        /\ x.found = <<>> /\ x.did = {} /\ x.ok = FALSE
    BY IdleIsGoogleCall DEF Google!Idle
  <2>3. Google!Effects(todo) \subseteq Effect
    BY DEF Google!Effects, Request, Reads, Effect
  <2>4. googleCall' = [googleCall EXCEPT ![c] = r] \/ googleCall' = [googleCall EXCEPT ![c] = x]
    BY <1>6 DEF Google!dispatch
  <2> HIDE DEF x
  <2>5. /\ r \in GoogleCall /\ r.at = "running" /\ r.todo = todo /\ r.found = <<>>
        /\ r.did = {} /\ r.wants = Google!Effects(todo) /\ r.ok = FALSE
    BY <2>2, <2>3 DEF GoogleCall
  <2> HIDE DEF r
  <2>6. GoogleCallInv(r)
    BY <1>6, <2>5 DEF GoogleCallInv, WellFound
  <2> QED BY <1>m, <2>1, <2>2, <2>4, <2>5, <2>6
<1>7. ASSUME NEW c \in Call, Google!Refused(c) PROVE GoogleInv'
  <2>1. LabelsInv' /\ had' = had
    BY <1>7, <1>l DEF Google!Refused
  <2> QED BY <1>7, <1>m, <2>1, CallEnds DEF Google!Refused, Google!Fails
<1>8. ASSUME NEW c \in Call, Google!Return(c) PROVE GoogleInv'
  <2>1. LabelsInv' /\ had' = had
    BY <1>8, <1>l DEF Google!Return
  <2>2. googleCall' = Google!Ended(c, TRUE) /\ googleCall[c].todo = <<>> /\ googleCall[c].at # "idle"
    BY <1>8 DEF Google!Return
  <2> QED BY <1>m, <2>1, <2>2, CallEnds
\* A request that is neither a label nor a message of a move.
<1>p. ASSUME NEW c \in Call, NEW what \in {"get", "change", "load", "save"}, Google!Asks(c, what),
             LabelsInv', had' = had,
             \/ what \in {"get", "load"} /\ googleCall' = Google!Passed(c)
             \/ googleCall' = Google!Did(c)
      PROVE  GoogleInv'
  <2> DEFINE q == googleCall[c]
  <2>1. /\ q \in GoogleCall /\ GoogleCallInv(q) /\ q.at # "idle" /\ q.todo # <<>>
        /\ Head(q.todo).do = what
    BY <1>p, <1>t DEF Google!Asks
  <2>2. q.todo \in Seq(Request) /\ q.found \in Seq(Found) /\ q.did \in SUBSET Effect
    BY <2>1 DEF GoogleCall
  <2>3. Head(q.todo) \in Request
    BY <2>1, <2>2
  <2>4. Head(q.todo).on \in Effect
    BY <2>3 DEF Request, Reads, Effect
  <2>5. Movelike(Tail(q.todo), q.found)
    <3>1. Movelike(q.todo, q.found) /\ Head(q.todo).do \notin {"label", "modify"}
      BY <2>1 DEF GoogleCallInv
    <3>2. \E e \in Found : TRUE
      <4>1. [name |-> "INBOX", id |-> NoLabel] \in Found
        BY LabelsAssumption DEF Found
      <4> QED BY <4>1
    <3> HIDE DEF q
    <3> QED BY <2>1, <2>2, <3>1, <3>2, MovelikeShrinks
  <2>6. WellFound(q.found)
    BY <2>1 DEF GoogleCallInv
  <2>7. ASSUME googleCall' = Google!Passed(c), what \in {"get", "load"} PROVE GoogleInv'
    <3>1. Google!Passed(c) = Google!Goes(c, q.found, q.did)
      BY DEF Google!Passed
    <3> QED BY <1>p, <1>m, <2>1, <2>2, <2>5, <2>6, <2>7, <3>1, CallGoes
  <2>8. ASSUME googleCall' = Google!Did(c) PROVE GoogleInv'
    <3>1. Google!Did(c) = Google!Goes(c, q.found, q.did \cup {Head(q.todo).on})
      BY DEF Google!Did, Google!On
    <3> QED BY <1>p, <1>m, <2>1, <2>2, <2>4, <2>5, <2>6, <2>8, <3>1, CallGoes
  <2> QED BY <1>p, <2>7, <2>8
<1>9. ASSUME NEW c \in Call, Google!Get(c) PROVE GoogleInv'
  BY <1>9, <1>l, <1>p DEF Google!Get
<1>10. ASSUME NEW c \in Call, Google!Change(c) PROVE GoogleInv'
  BY <1>10, <1>l, <1>p DEF Google!Change
<1>11. ASSUME NEW c \in Call, Google!Save(c) PROVE GoogleInv'
  <2>1. LabelsInv' /\ had' = had
    BY <1>11, <1>l DEF Google!Save
  <2>2. CASE Google!Fails(c)
    BY <1>m, <2>1, <2>2, CallEnds DEF Google!Fails
  <2>3. CASE googleCall' = Google!Did(c)
    BY <1>11, <1>p, <2>1, <2>3 DEF Google!Save
  <2> QED BY <1>11, <2>2, <2>3 DEF Google!Save
<1>12. ASSUME NEW c \in Call, Google!list_labels(c) PROVE GoogleInv'
  <2>1. had' = had /\ LabelsInv'
    BY <1>12, <1>t DEF Google!list_labels, LabelsInv
  <2>2. CASE googleCall' = googleCall
    BY <1>s, <2>1, <2>2
  <2>3. CASE Google!Asks(c, "load") /\ googleCall' = Google!Passed(c)
    BY <1>p, <2>1, <2>3
  <2> QED BY <1>12, <2>2, <2>3 DEF Google!list_labels
<1>13. ASSUME NEW c \in Call, Google!resolve_label_id(c) PROVE GoogleInv'
  <2> DEFINE q == googleCall[c]
             n == Head(q.todo).on
             id == IF labelCache[n] = NoLabel THEN n ELSE labelCache[n]
             f == [name |-> n, id |-> id]
  <2>1. LabelsInv' /\ had' = had
    BY <1>13, <1>l DEF Google!resolve_label_id
  <2>2. /\ q \in GoogleCall /\ GoogleCallInv(q) /\ q.at # "idle" /\ q.todo # <<>>
        /\ Head(q.todo).do = "label" /\ labelCache # Google!Unloaded
    BY <1>13, <1>t DEF Google!resolve_label_id, Google!Asks
  <2>3. q.todo \in Seq(Request) /\ q.found \in Seq(Found) /\ q.did \in SUBSET Effect
    BY <2>2 DEF GoogleCall
  <2>4. Head(q.todo) \in Request
    BY <2>2, <2>3
  <2>5. n \in Label
    BY <2>2, <2>4 DEF Request, Reads
  <2>6. f \in Found /\ (f.id \in had[f.name] \/ f.id \notin Google!LabelIds \cup {NoLabel})
    <3>1. labelCache[n] \in had[n] /\ labelCache[n] \in Google!LabelIds \cup {NoLabel}
      BY <1>t, <2>2, <2>5 DEF LabelsInv
    <3>2. n \in Google!LabelIds \cup {NoLabel} => n \in had[n]
      BY <1>t, <2>5, LabelsAssumption DEF LabelsInv, Google!LabelIds
    <3> HIDE DEF n
    <3> QED BY <2>5, <3>1, <3>2 DEF Found
  <2>7. googleCall' = Google!Goes(c, Append(q.found, f), q.did)
    BY <1>13 DEF Google!resolve_label_id, Google!On
  <2> HIDE DEF f
  <2>8. Movelike(Tail(q.todo), Append(q.found, f))
    <3>1. Movelike(q.todo, q.found)
      BY <2>2 DEF GoogleCallInv
    <3> HIDE DEF q
    <3> QED BY <2>2, <2>3, <2>6, <3>1, MovelikeShrinks
  <2>9. Append(q.found, f) \in Seq(Found) /\ WellFound(Append(q.found, f))
    <3>1. WellFound(q.found)
      BY <2>2 DEF GoogleCallInv
    <3> HIDE DEF q
    <3>2. /\ Append(q.found, f) \in Seq(Found)
          /\ \A k \in DOMAIN Append(q.found, f) :
                \/ k \in DOMAIN q.found /\ Append(q.found, f)[k] = q.found[k]
                \/ Append(q.found, f)[k] = f
      BY <2>3, <2>6
    <3> QED BY <2>6, <3>1, <3>2 DEF WellFound
  <2>10. Head(q.todo).do \notin {"save", "change", "modify"}
    BY <2>2
  <2> DEFINE all == Append(q.found, f)
  <2>11. /\ all \in Seq(Found) /\ WellFound(all) /\ Movelike(Tail(q.todo), all)
         /\ googleCall' = Google!Goes(c, all, q.did)
    BY <2>7, <2>8, <2>9
  <2> HIDE DEF all
  <2> QED BY <1>m, <2>1, <2>2, <2>3, <2>10, <2>11, CallGoes
<1>14. ASSUME NEW c \in Call, Google!Modify(c) PROVE GoogleInv'
  <2> DEFINE q == googleCall[c]
             from == q.found[1]
             to == q.found[2]
  <2>1. LabelsInv' /\ had' = had
    BY <1>14, <1>l DEF Google!Modify
  <2>2. /\ q \in GoogleCall /\ GoogleCallInv(q) /\ q.at # "idle" /\ q.todo # <<>>
        /\ Head(q.todo).do = "modify" /\ {from.id, to.id} \subseteq {labels[n] : n \in Label}
    BY <1>14, <1>t DEF Google!Modify, Google!Asks
  <2>3. q.todo \in Seq(Request) /\ q.found \in Seq(Found) /\ q.did \in SUBSET Effect
    BY <2>2 DEF GoogleCall
  <2>4. Head(q.todo) \in Request
    BY <2>2, <2>3
  <2>5. Head(q.todo).on \in Effect
    BY <2>4 DEF Request, Reads, Effect
  <2>6. Movelike(Tail(q.todo), q.found) /\ Len(q.found) = 2
    <3>1. Movelike(q.todo, q.found)
      BY <2>2 DEF GoogleCallInv
    <3>2. \E e \in Found : TRUE
      <4>1. [name |-> "INBOX", id |-> NoLabel] \in Found
        BY LabelsAssumption DEF Found
      <4> QED BY <4>1
    <3> HIDE DEF q
    <3> QED BY <2>2, <2>3, <3>1, <3>2, MovelikeShrinks
  <2>7. WellFound(q.found)
    BY <2>2 DEF GoogleCallInv
  <2>8. from.id \in had[from.name] /\ to.id \in had[to.name]
    <3>1. 1 \in DOMAIN q.found /\ 2 \in DOMAIN q.found
      BY <2>3, <2>6
    <3>2. {from.id, to.id} \subseteq Google!LabelIds \cup {NoLabel}
      BY <1>t, <2>2 DEF LabelsInv
    <3> QED BY <2>7, <3>1, <3>2 DEF WellFound
  <2>9. googleCall' = Google!Goes(c, q.found, q.did \cup {Head(q.todo).on})
    BY <1>14, <2>8 DEF Google!Modify, Google!Did, Google!On
  <2> QED BY <1>m, <2>1, <2>2, <2>3, <2>5, <2>6, <2>7, <2>9, CallGoes
<1>15. ASSUME NEW c \in Call, NEW verb \in DOMAIN Google!Simple,
              Google!dispatch(c, verb, Google!Simple[verb])
       PROVE  GoogleInv'
  <2>1. Google!Simple[verb] \in Seq(Reads)
    BY SimpleIsReads
  <2>2. Google!Simple[verb] \in Seq(Request)
    BY <2>1, RequestsAreTyped
  <2>3. \A i \in DOMAIN Google!Simple[verb] : Google!Simple[verb][i].do # "modify"
    BY <2>1 DEF Reads
  <2>4. Movelike(Google!Simple[verb], <<>>)
    BY <2>3 DEF Movelike
  <2> QED BY <1>6, <1>15, <2>2, <2>4
<1>16. ASSUME NEW c \in Call, NEW m \in Moving,
              Google!dispatch(c, "move", Google!move_messages(m.from, m.to, m.uids))
       PROVE  GoogleInv'
  BY <1>6, <1>16, MoveIsMovelike
<1>17. CASE UNCHANGED Google!vars
  BY <1>17, <1>l, <1>s DEF Google!vars
<1> QED
  BY <1>1, <1>2, <1>3, <1>4, <1>5, <1>7, <1>8, <1>9, <1>10, <1>11, <1>12, <1>13, <1>14, <1>15,
     <1>16, <1>17 DEF Google!Next

LEMMA GoogleSteps == [AllNext]_allVars => [Google!Next]_(Google!vars)
  BY DEF AllNext, allVars, googleVars, Google!vars

\* A tool is told that its call succeeded only when what it asked for was
\* carried out: the mail broker's command in the mailbox the call names, the
\* Google broker's changes, files and moves, between labels of the names given.
THEOREM SuccessIsDone == AllSpec => []OkMeansDone
<1>1. AllInit => MailInv /\ GoogleInv
  BY MailStarts, GoogleStarts DEF AllInit
<1>2. MailInv /\ GoogleInv /\ [AllNext]_allVars => MailInv' /\ GoogleInv'
  BY MailKeeps, MailSteps, GoogleKeeps, GoogleSteps
<1>3. MailInv /\ GoogleInv => OkMeansDone
  BY DEF MailInv, GoogleInv, GoogleCallInv, OkMeansDone, Mail!OkMeansDone, Google!OkMeansDone
<1> QED BY <1>1, <1>2, <1>3, PTL DEF AllSpec

-----------------------------------------------------------------------------
(* The stream of a model call                                              *)

Fragment == [index : Nat, pieces : Nat]
StreamTypes ==
    /\ api \in Api \cup {"none"}
    /\ answer \in [text : Nat, calls : Seq(Nat)]
    /\ sent \in [text : Nat, calls : Seq(Nat), closed : BOOLEAN]
    /\ acc \in [text : Nat, calls : Seq(Fragment), closed : BOOLEAN]
    /\ deltas \in Nat

\* The accumulated fragments are what the wire has carried, each call's at its
\* place, and what the client was shown is the text among them.
StreamInv ==
    /\ StreamTypes
    /\ deltas = acc.text /\ acc.text = sent.text
    /\ Len(acc.calls) = Len(sent.calls) /\ Len(sent.calls) <= Len(answer.calls)
    /\ \A i \in 1..Len(acc.calls) : acc.calls[i].index = i /\ acc.calls[i].pieces = sent.calls[i]
    /\ api = "none" => outcome = Stream!Pending /\ sent = Stream!NoFragments
    /\ StreamedAsWhole

LEMMA StreamStarts == Stream!Init => StreamInv
<1> SUFFICES ASSUME Stream!Init PROVE StreamInv
  OBVIOUS
<1>1. /\ answer = [text |-> 0, calls |-> <<>>] /\ sent = [text |-> 0, calls |-> <<>>, closed |-> FALSE]
      /\ acc = [text |-> 0, calls |-> <<>>, closed |-> FALSE] /\ api = "none" /\ deltas = 0
      /\ outcome = Stream!Pending
  BY DEF Stream!Init, Stream!None, Stream!NoFragments
<1>2. StreamTypes
  BY <1>1 DEF StreamTypes, Fragment
<1>3. outcome.kind = "pending"
  BY <1>1 DEF Stream!Pending
<1> QED
  BY <1>1, <1>2, <1>3 DEF StreamInv, Stream!NoFragments, StreamedAsWhole, Stream!StreamedAsWhole

LEMMA StreamKeeps == StreamInv /\ [Stream!Next]_(Stream!streamVars) => StreamInv'
<1> SUFFICES ASSUME StreamInv, [Stream!Next]_(Stream!streamVars) PROVE StreamInv'
  OBVIOUS
<1> USE AnswersAssumption DEF StreamInv, StreamTypes, Fragment
<1>p. Stream!Pending.kind = "pending"
  BY DEF Stream!Pending
<1>1. ASSUME NEW w \in Api, NEW a \in Answers, Stream!Request(w, a) PROVE StreamInv'
  <2>1. api' \in Api /\ answer' = a /\ outcome = Stream!Pending /\ sent = Stream!NoFragments
        /\ UNCHANGED <<sent, acc, deltas, outcome>>
    BY <1>1 DEF Stream!Request
  <2>2. Len(sent.calls) = 0
    BY <2>1 DEF Stream!NoFragments
  <2>3. StreamedAsWhole'
    BY <1>p, <2>1 DEF StreamedAsWhole, Stream!StreamedAsWhole
  <2>4. api' # "none"
    BY <2>1
  <2> QED BY <2>1, <2>2, <2>3, <2>4
<1>2. CASE Stream!TextPiece
  <2>1. /\ sent' = [sent EXCEPT !.text = @ + 1] /\ acc' = [acc EXCEPT !.text = @ + 1]
        /\ deltas' = deltas + 1 /\ UNCHANGED <<api, answer, outcome>>
        /\ api # "none" /\ outcome.kind = "pending"
    BY <1>p, <1>2 DEF Stream!TextPiece, Stream!Streaming
  <2>2. StreamedAsWhole'
    BY <2>1 DEF StreamedAsWhole, Stream!StreamedAsWhole
  <2>3. /\ sent' \in [text : Nat, calls : Seq(Nat), closed : BOOLEAN]
        /\ sent'.text = sent.text + 1 /\ sent'.calls = sent.calls
    <3> DEFINE x == sent
    <3>1. x \in [text : Nat, calls : Seq(Nat), closed : BOOLEAN]
      OBVIOUS
    <3> HIDE DEF x
    <3>2. [x EXCEPT !.text = @ + 1] \in [text : Nat, calls : Seq(Nat), closed : BOOLEAN]
          /\ [x EXCEPT !.text = @ + 1].text = x.text + 1 /\ [x EXCEPT !.text = @ + 1].calls = x.calls
      BY <3>1
    <3> QED BY <2>1, <3>2 DEF x
  <2>4. /\ acc' \in [text : Nat, calls : Seq(Fragment), closed : BOOLEAN]
        /\ acc'.text = acc.text + 1 /\ acc'.calls = acc.calls
    <3> DEFINE x == acc
               S == Seq(Fragment)
    <3>1. x \in [text : Nat, calls : S, closed : BOOLEAN]
      OBVIOUS
    <3> HIDE DEF x, S
    <3>2. [x EXCEPT !.text = @ + 1] \in [text : Nat, calls : S, closed : BOOLEAN]
          /\ [x EXCEPT !.text = @ + 1].text = x.text + 1 /\ [x EXCEPT !.text = @ + 1].calls = x.calls
      BY <3>1
    <3> QED BY <2>1, <3>2 DEF x, S
  <2> HIDE DEF Fragment
  <2> QED BY <2>1, <2>2, <2>3, <2>4
<1>3. CASE Stream!Announced
  <2> DEFINE k == Len(sent.calls) + 1
             piece == IF api = "ollama" THEN answer.calls[k] ELSE 0
             fragment == [index |-> k, pieces |-> piece]
  <2>1. /\ sent' = [sent EXCEPT !.calls = Append(@, piece)]
        /\ acc' = [acc EXCEPT !.calls = Append(@, fragment)]
        /\ k \in 1..Len(answer.calls) /\ UNCHANGED <<api, answer, deltas, outcome>>
        /\ api # "none" /\ outcome.kind = "pending"
    BY <1>p, <1>3 DEF Stream!Announced, Stream!Streaming
  <2>2. StreamedAsWhole'
    BY <2>1 DEF StreamedAsWhole, Stream!StreamedAsWhole
  <2>3. piece \in Nat /\ fragment \in Fragment
    BY <2>1
  <2>4. fragment.index = Len(acc.calls) + 1 /\ fragment.pieces = piece /\ k = Len(sent.calls) + 1
    OBVIOUS
  <2> HIDE DEF k, piece, fragment
  <2>5. /\ sent'.calls = Append(sent.calls, piece) /\ acc'.calls = Append(acc.calls, fragment)
        /\ sent'.text = sent.text /\ acc'.text = acc.text
    BY <2>1
  <2>6. Append(sent.calls, piece) \in Seq(Nat) /\ Append(acc.calls, fragment) \in Seq(Fragment)
    BY <2>3
  <2>7. /\ sent' \in [text : Nat, calls : Seq(Nat), closed : BOOLEAN]
        /\ acc' \in [text : Nat, calls : Seq(Fragment), closed : BOOLEAN]
    <3> HIDE DEF Fragment
    <3> QED BY <2>1, <2>6
  <2>8. /\ Len(acc'.calls) = Len(acc.calls) + 1 /\ Len(sent'.calls) = k
        /\ \A i \in 1..Len(acc'.calls) :
              acc'.calls[i].index = i /\ acc'.calls[i].pieces = sent'.calls[i]
    <3> DEFINE a == acc.calls
               b == sent.calls
    <3>1. a \in Seq(Fragment) /\ b \in Seq(Nat) /\ Len(a) = Len(b) /\ k = Len(b) + 1
      BY <2>4
    <3>2. \A i \in 1..Len(a) : a[i].index = i /\ a[i].pieces = b[i]
      OBVIOUS
    <3> HIDE DEF a, b
    <3>3. /\ Len(Append(a, fragment)) = Len(a) + 1 /\ Len(Append(b, piece)) = k
          /\ \A i \in 1..(Len(a) + 1) :
                Append(a, fragment)[i].index = i /\ Append(a, fragment)[i].pieces = Append(b, piece)[i]
      BY <2>3, <2>4, <3>1, <3>2, SMTT(20) DEF a
    <3> QED BY <2>5, <3>3 DEF a, b
  <2> HIDE DEF Fragment
  <2> QED BY <2>1, <2>2, <2>4, <2>5, <2>7, <2>8, SMTT(20)
<1>4. ASSUME NEW k \in 1..2, Stream!ArgumentPiece(k) PROVE StreamInv'
  <2> DEFINE grown == [i \in DOMAIN acc.calls |->
                 LET f == acc.calls[i]
                 IN  [f EXCEPT !.pieces = IF f.index = k THEN f.pieces + 1 ELSE f.pieces]]
  <2>1. /\ sent' = [sent EXCEPT !.calls[k] = @ + 1] /\ acc' = [acc EXCEPT !.calls = grown]
        /\ k \in 1..Len(sent.calls) /\ UNCHANGED <<api, answer, deltas, outcome>>
        /\ api # "none" /\ outcome.kind = "pending"
    <3>1. /\ k \in DOMAIN sent.calls /\ api # "none" /\ outcome = Stream!Pending
          /\ sent' = [sent EXCEPT !.calls[k] = @ + 1]
          /\ acc' = [acc EXCEPT !.calls = grown]
          /\ UNCHANGED <<api, answer, deltas, outcome>>
      BY <1>4, Zenon DEF Stream!ArgumentPiece, Stream!Streaming
    <3> HIDE DEF grown
    <3> QED BY <1>p, <3>1, SMTT(20)
  <2>2. StreamedAsWhole'
    <3> HIDE DEF grown
    <3> QED BY <2>1 DEF StreamedAsWhole, Stream!StreamedAsWhole
  <2>3. /\ grown \in Seq(Fragment) /\ Len(grown) = Len(acc.calls)
        /\ \A i \in 1..Len(acc.calls) :
              /\ grown[i].index = i
              /\ grown[i].pieces = IF i = k THEN acc.calls[i].pieces + 1 ELSE acc.calls[i].pieces
    <3> DEFINE a == acc.calls
               G(f) == [f EXCEPT !.pieces = IF f.index = k THEN f.pieces + 1 ELSE f.pieces]
    <3>1. a \in Seq(Fragment) /\ \A i \in 1..Len(a) : a[i].index = i
      OBVIOUS
    <3>2. \A f \in Fragment : /\ G(f) \in Fragment /\ G(f).index = f.index
                              /\ G(f).pieces = IF f.index = k THEN f.pieces + 1 ELSE f.pieces
      BY SMTT(20)
    <3>3. grown = [i \in 1..Len(a) |-> G(a[i])]
      BY <3>1
    <3> HIDE DEF a, G, Fragment, grown
    <3>4. grown \in Seq(Fragment) /\ Len(grown) = Len(a)
      BY <3>1, <3>2, <3>3
    <3>5. \A i \in 1..Len(a) : grown[i] = G(a[i]) /\ a[i] \in Fragment /\ a[i].index = i
      BY <3>1, <3>3
    <3> QED BY <3>2, <3>4, <3>5, SMTT(20) DEF a
  <2> HIDE DEF grown, Fragment
  <2>4. /\ acc'.calls = grown /\ acc'.text = acc.text /\ sent'.text = sent.text
        /\ sent'.calls = [sent.calls EXCEPT ![k] = @ + 1]
    BY <2>1
  <2>5. /\ [sent.calls EXCEPT ![k] = @ + 1] \in Seq(Nat)
        /\ Len([sent.calls EXCEPT ![k] = @ + 1]) = Len(sent.calls)
        /\ \A i \in 1..Len(sent.calls) :
              [sent.calls EXCEPT ![k] = @ + 1][i] = IF i = k THEN sent.calls[i] + 1 ELSE sent.calls[i]
    <3> DEFINE b == sent.calls
    <3>1. b \in Seq(Nat) /\ k \in 1..Len(b)
      BY <2>1
    <3> HIDE DEF b
    <3>2. /\ [b EXCEPT ![k] = @ + 1] \in Seq(Nat) /\ Len([b EXCEPT ![k] = @ + 1]) = Len(b)
          /\ \A i \in 1..Len(b) : [b EXCEPT ![k] = @ + 1][i] = IF i = k THEN b[i] + 1 ELSE b[i]
      BY <3>1
    <3> QED BY <3>2 DEF b
  <2>6. /\ sent' \in [text : Nat, calls : Seq(Nat), closed : BOOLEAN]
        /\ acc' \in [text : Nat, calls : Seq(Fragment), closed : BOOLEAN]
    BY <2>1, <2>3, <2>5
  <2>7. ASSUME NEW i \in 1..Len(acc.calls) PROVE grown[i].pieces = sent'.calls[i]
    <3>1. sent'.calls[i] = IF i = k THEN sent.calls[i] + 1 ELSE sent.calls[i]
      BY <2>4, <2>5
    <3>2. acc.calls[i].pieces = sent.calls[i]
      OBVIOUS
    <3>3. grown[i].pieces = IF i = k THEN acc.calls[i].pieces + 1 ELSE acc.calls[i].pieces
      BY <2>3
    <3> QED BY <3>1, <3>2, <3>3
  <2> QED BY <2>1, <2>2, <2>3, <2>4, <2>5, <2>6, <2>7
<1>5. CASE Stream!StreamEnds
  <2>1. /\ sent' = [sent EXCEPT !.closed = TRUE] /\ UNCHANGED <<api, answer, acc, deltas>>
        /\ api \in Api /\ (Stream!Complete \/ api # "anthropic")
        /\ outcome' = CASE api = "anthropic" -> Stream!AnthropicReply
                        [] api = "responses" -> Stream!ResponsesReply
                        [] api = "openai"    -> Stream!OpenAIReply
                        [] api = "ollama"    -> Stream!OllamaReply
    BY <1>5 DEF Stream!StreamEnds, Stream!Streaming
  <2>2. /\ sent'.text = sent.text /\ sent'.calls = sent.calls
        /\ sent' \in [text : Nat, calls : Seq(Nat), closed : BOOLEAN]
    BY <2>1
  <2>3. Stream!Complete' = Stream!Complete
    BY <2>1, <2>2 DEF Stream!Complete
  <2>4. ASSUME Stream!Complete
        PROVE  /\ acc.text = answer.text
               /\ [i \in DOMAIN acc.calls |-> [index |-> acc.calls[i].index, args |-> "whole"]]
                    = [i \in DOMAIN answer.calls |-> [index |-> i, args |-> "whole"]]
               /\ Stream!BuildToolCalls(answer, acc)
                    = [i \in DOMAIN answer.calls |-> [index |-> i, args |-> "whole"]]
    BY <2>4 DEF Stream!Complete, Stream!BuildToolCalls, Stream!Parsed
  <2>5. StreamedAsWhole'
    <3>1. CASE api = "anthropic"
      BY <2>1, <2>3, <3>1 DEF StreamedAsWhole, Stream!StreamedAsWhole, Stream!AnthropicReply,
                               Stream!Normalized, Stream!Complete
    <3>2. CASE api = "responses" \/ api = "openai"
      BY <2>1, <2>3, <2>4, <3>2
      DEF StreamedAsWhole, Stream!StreamedAsWhole, Stream!ResponsesReply, Stream!OpenAIReply,
          Stream!Normalized
    <3>3. CASE api = "ollama"
      BY <2>1, <2>3, <2>4, <3>3
      DEF StreamedAsWhole, Stream!StreamedAsWhole, Stream!OllamaReply, Stream!Normalized, Stream!Failed
    <3> QED BY <2>1, <3>1, <3>2, <3>3
  <2> QED BY <2>1, <2>2, <2>5
<1>6. ASSUME NEW kind \in {"retryable", "fatal"},
             api # "none", outcome' = Stream!Failed(kind), UNCHANGED <<api, answer, sent, acc, deltas>>
      PROVE  StreamInv'
  BY <1>6 DEF Stream!Failed, StreamedAsWhole, Stream!StreamedAsWhole
<1>7. CASE UNCHANGED Stream!streamVars
  BY <1>7 DEF Stream!streamVars, StreamedAsWhole, Stream!StreamedAsWhole, Stream!Complete
<1>8. ASSUME NEW kind \in {"retryable", "fatal"}, Stream!StreamBreaks(kind) PROVE StreamInv'
  BY <1>6, <1>8 DEF Stream!StreamBreaks, Stream!Streaming
<1>9. CASE Stream!FirstTokenLate
  BY <1>6, <1>9 DEF Stream!FirstTokenLate
<1> QED
  BY <1>1, <1>2, <1>3, <1>4, <1>5, <1>7, <1>8, <1>9 DEF Stream!Next

LEMMA StreamSteps == [AllNext]_allVars => [Stream!Next]_(Stream!streamVars)
  BY DEF AllNext, allVars, streamVars, Stream!streamVars

\* Every adapter assembles the fragments of a stream that came to its end to
\* the answer it would have been given whole, and the text of its reply is what was
\* shown of it.
THEOREM FragmentsMakeTheAnswer == AllSpec => []StreamedAsWhole
<1>1. AllInit => StreamInv
  BY StreamStarts DEF AllInit
<1>2. StreamInv /\ [AllNext]_allVars => StreamInv'
  BY StreamKeeps, StreamSteps
<1>3. StreamInv => StreamedAsWhole
  BY DEF StreamInv
<1> QED BY <1>1, <1>2, <1>3, PTL DEF AllSpec

-----------------------------------------------------------------------------
(* The history and its compaction                                          *)

Message == [role : {"user", "assistant", "tool"}, id : Nat, summary : BOOLEAN, text : BOOLEAN,
            calls : Seq(Tool), call : Seq(Nat), size : Nat, covers : SUBSET Nat]

HistoryTypes ==
    /\ hist \in Seq(Message) /\ plan \in Seq(Message)
    /\ at \in Stage /\ born \in Nat /\ results \in Seq(Nat)

\* The plan is still the messages after the pinned one while the strategy awaits.
PlanStands ==
    at \in {"summarizing", "intent"} =>
        /\ 1 <= Len(plan) /\ Len(plan) < Len(hist)
        /\ \A i \in 1..Len(plan) : plan[i] = hist[i + 1]

\* The history starts with the user's message; a summary is only ever second.
SummaryIsSecond ==
    /\ at # "idle" => hist # <<>>
    /\ hist # <<>> => hist[1].role = "user"
    /\ \A i \in 1..Len(hist) : hist[i].summary => i = 2

HistoryInv ==
    /\ HistoryTypes /\ PlanStands /\ SummaryIsSecond /\ NothingForgotten
    /\ at = "intent" => summary.covers \subseteq Nat
                        /\ (summary.covers = {} \/ Covered(plan) \subseteq summary.covers)

LEMMA InCovered == \A s, n : n \in Covered(s) <=> \E i \in DOMAIN s : n \in s[i].covers
  BY DEF Covered

LEMMA PlainIsMessage ==
    ASSUME NEW role \in {"user", "assistant", "tool"}, NEW id \in Nat, NEW size \in Nat
    PROVE  /\ Plain(role, id, size) \in Message /\ Plain(role, id, size).role = role
           /\ ~Plain(role, id, size).summary /\ Plain(role, id, size).covers = {id}
<1>1. {id} \in SUBSET Nat /\ <<>> \in Seq(Tool) /\ <<>> \in Seq(Nat)
  OBVIOUS
<1> QED BY <1>1 DEF Plain, Message

\* What the variants of a message keep of it.
Noted(m, learnt)    == [m EXCEPT !.summary = TRUE, !.covers = learnt]
Extracted(m, learnt) == [m EXCEPT !.covers = learnt, !.size = 1]
Said(m, cs, text)   == [m EXCEPT !.calls = cs, !.text = text]
ResultOf(m, of)     == [m EXCEPT !.call = of]

LEMMA NotedIsMessage ==
    ASSUME NEW m \in Message, NEW learnt \in SUBSET Nat
    PROVE  Noted(m, learnt) \in Message /\ Noted(m, learnt).covers = learnt
  BY DEF Message, Noted

LEMMA ExtractedIsMessage ==
    ASSUME NEW m \in Message, NEW learnt \in SUBSET Nat
    PROVE  LET n == Extracted(m, learnt) IN
           n \in Message /\ n.role = m.role /\ n.summary = m.summary /\ n.covers = learnt
  BY DEF Message, Extracted

LEMMA SaidIsMessage ==
    ASSUME NEW m \in Message, NEW cs \in Seq(Tool), NEW text \in BOOLEAN
    PROVE  LET n == Said(m, cs, text) IN
           n \in Message /\ n.role = m.role /\ n.summary = m.summary /\ n.covers = m.covers
  BY DEF Message, Said

LEMMA ResultIsMessage ==
    ASSUME NEW m \in Message, NEW of \in Seq(Nat)
    PROVE  LET n == ResultOf(m, of) IN
           n \in Message /\ n.role = m.role /\ n.summary = m.summary /\ n.covers = m.covers
  BY DEF Message, ResultOf

\* Messages appended to the history, each covering itself, cover what is born.
LEMMA MoreIsCovered ==
    ASSUME HistoryTypes, SummaryIsSecond, NothingForgotten, NEW more \in Seq(Message),
           hist' = hist \o more, born' = born + Len(more), voided' = voided,
           hist = <<>> => more # <<>> /\ more[1].role = "user",
           \A i \in 1..Len(more) : ~more[i].summary /\ more[i].covers = {born + i}
    PROVE  /\ hist' \in Seq(Message) /\ born' \in Nat /\ hist' # <<>>
           /\ hist'[1].role = "user" /\ \A i \in 1..Len(hist') : hist'[i].summary => i = 2
           /\ NothingForgotten'
           /\ \A i \in 1..Len(hist) : hist'[i] = hist[i]
<1> USE DEF HistoryTypes
<1>1. /\ hist' \in Seq(Message) /\ Len(hist') = Len(hist) + Len(more)
      /\ \A i \in 1..Len(hist) : hist'[i] = hist[i]
      /\ \A i \in 1..Len(more) : hist'[Len(hist) + i] = more[i]
  BY ConcatProperties
<1>2. \A i \in 1..Len(hist') : i \in 1..Len(hist) \/ \E j \in 1..Len(more) : i = Len(hist) + j
  <2> SUFFICES ASSUME NEW i \in 1..Len(hist'), i \notin 1..Len(hist)
               PROVE  \E j \in 1..Len(more) : i = Len(hist) + j
    OBVIOUS
  <2>1. i - Len(hist) \in 1..Len(more) /\ i = Len(hist) + (i - Len(hist))
    BY <1>1
  <2> QED BY <2>1
<1>3. ASSUME NEW i \in 1..Len(hist'), hist'[i].summary PROVE i = 2
  <2>1. CASE i \in 1..Len(hist)
    BY <1>1, <1>3, <2>1 DEF SummaryIsSecond
  <2>2. CASE \E j \in 1..Len(more) : i = Len(hist) + j
    BY <1>1, <1>3, <2>2
  <2> QED BY <1>2, <2>1, <2>2
<1>4. hist' # <<>> /\ hist'[1].role = "user"
  <2>1. CASE hist = <<>>
    BY <1>1, <2>1
  <2>2. CASE hist # <<>>
    BY <1>1, <2>2 DEF SummaryIsSecond
  <2> QED BY <2>1, <2>2
<1>5. ASSUME NEW n \in 1..born', n \notin voided' PROVE n \in Covered(hist')
  <2>1. CASE n \in 1..born
    <3>1. n \in Covered(hist)
      BY <1>5, <2>1 DEF NothingForgotten
    <3>2. PICK i \in DOMAIN hist : n \in hist[i].covers
      BY <3>1, InCovered
    <3>3. i \in DOMAIN hist' /\ n \in hist'[i].covers
      BY <1>1, <3>2
    <3> QED BY <3>3, InCovered
  <2>2. CASE n \notin 1..born
    <3>1. n - born \in 1..Len(more) /\ n = born + (n - born)
      BY <1>5, <2>2
    <3>2. Len(hist) + (n - born) \in DOMAIN hist' /\ n \in hist'[Len(hist) + (n - born)].covers
      BY <1>1, <3>1
    <3> QED BY <3>2, InCovered
  <2> QED BY <2>1, <2>2
<1> QED BY <1>1, <1>3, <1>4, <1>5 DEF NothingForgotten

LEMMA KeptStartARound ==
    ASSUME NEW s \in Seq(Message)
    PROVE  /\ CountKept(s) \in 0..Len(s)
           /\ CountKept(s) # 0 => IsAssistant(s[Len(s) + 1 - CountKept(s)])
<1> DEFINE says == {i \in DOMAIN s : IsAssistant(s[i])}
           last == {i \in says : Cardinality({j \in says : j > i}) < KeepGroups}
<1>1. CountKept(s) = IF last = {} THEN 0 ELSE Len(s) + 1 - Min(last)
  BY DEF CountKept
<1>2. last \subseteq 1..Len(s) /\ \A i \in last : IsAssistant(s[i])
  OBVIOUS
<1> HIDE DEF last
<1>3. last # {} => Min(last) \in 1..Len(s) /\ IsAssistant(s[Min(last)])
  <2>1. 1..Len(s) \subseteq Nat
    OBVIOUS
  <2>2. last # {} => Min(last) \in last
    BY <1>2, <2>1, LeastOfNaturals
  <2> QED BY <1>2, <2>2
<1>4. Len(s) \in Nat
  OBVIOUS
<1>5. last # {} => Len(s) + 1 - CountKept(s) = Min(last)
  BY <1>1, <1>3, <1>4
<1> QED BY <1>1, <1>3, <1>4, <1>5

LEMMA CompactableIsAfterTheFirst ==
    ASSUME NEW s \in Seq(Message), s # <<>>, s[1].role = "user", Compactable(s) # <<>>
    PROVE  LET p == Compactable(s) IN
           /\ p \in Seq(Message) /\ 1 <= Len(p) /\ Len(p) < Len(s)
           /\ \A i \in 1..Len(p) : p[i] = s[i + 1]
<1> DEFINE b == Tail(s)
           n == Len(b) - CountKept(b)
<1>1. Body(s) = b
  BY DEF Body, HasPinned
<1>2. Compactable(s) = SubSeq(b, 1, n)
  BY <1>1 DEF Compactable
<1>3. b \in Seq(Message) /\ Len(b) = Len(s) - 1 /\ \A i \in 1..Len(b) : b[i] = s[i + 1]
  OBVIOUS
<1>4. n \in 0..Len(b)
  <2> HIDE DEF b
  <2>1. CountKept(b) \in 0..Len(b) /\ Len(b) \in Nat
    BY <1>3, KeptStartARound
  <2> QED BY <2>1
<1> HIDE DEF b, n
<1>5. Len(SubSeq(b, 1, n)) = n /\ \A i \in 1..n : SubSeq(b, 1, n)[i] = b[i]
  BY <1>3, <1>4
<1>6. SubSeq(b, 1, n) \in Seq(Message)
  BY <1>3, <1>4
<1>7. n >= 1
  BY <1>2, <1>4, <1>5, <1>6
<1> QED BY <1>2, <1>3, <1>4, <1>5, <1>6, <1>7

\* A compaction picks messages up to the end of a round.
LEMMA CompactableEndsARound ==
    ASSUME NEW s \in Seq(Message), s # <<>>, s[1].role = "user", Compactable(s) # <<>>,
           Len(Compactable(s)) + 2 <= Len(s)
    PROVE  s[Len(Compactable(s)) + 2].role # "tool"
<1> DEFINE b == Tail(s)
           n == Len(b) - CountKept(b)
<1>0. Body(s) = b
  BY DEF Body, HasPinned
<1>1. Compactable(s) = SubSeq(b, 1, n)
  BY <1>0 DEF Compactable
<1>2. b \in Seq(Message) /\ Len(b) = Len(s) - 1 /\ Len(b) \in Nat /\ \A i \in 1..Len(b) : b[i] = s[i + 1]
  OBVIOUS
<1> HIDE DEF b
<1>3. /\ CountKept(b) \in 0..Len(b)
      /\ CountKept(b) # 0 => IsAssistant(b[Len(b) + 1 - CountKept(b)])
  BY <1>2, KeptStartARound
<1>4. n \in 0..Len(b) /\ Len(b) + 1 - CountKept(b) = n + 1
  BY <1>2, <1>3
<1>5. Len(Compactable(s)) = n
  <2> HIDE DEF n
  <2> QED BY <1>1, <1>2, <1>4
<1>6. CountKept(b) # 0 /\ n + 1 \in 1..Len(b)
  BY <1>2, <1>3, <1>4, <1>5
<1>7. b[n + 1].role = "assistant" /\ b[n + 1] = s[n + 2]
  <2>1. b[n + 1].role = "assistant"
    BY <1>3, <1>4, <1>6 DEF IsAssistant
  <2>2. b[n + 1] = s[(n + 1) + 1] /\ (n + 1) + 1 = n + 2
    BY SMTT(20), <1>2, <1>4, <1>6
  <2> QED BY <2>1, <2>2
<1> QED BY <1>5, <1>7

\* Of messages with no summary but the first, the summarizer reads everything.
LEMMA AllIsRead ==
    ASSUME NEW s \in Seq(Message), \A i \in 1..Len(s) : s[i].summary => i = 1
    PROVE  Covered(s) \subseteq SummarizerInput(s) /\ SummarizerInput(s) \subseteq Nat
<1> DEFINE old == {i \in DOMAIN s : s[i].summary}
<1>1. \A i \in DOMAIN s : s[i].covers \subseteq Nat
  <2>1. \A m \in Message : m.covers \subseteq Nat
    BY DEF Message
  <2>2. \A i \in DOMAIN s : s[i] \in Message
    OBVIOUS
  <2> QED BY <2>1, <2>2
<1>2. old \subseteq {1} /\ old \subseteq DOMAIN s
  OBVIOUS
<1>3. old # {} => Min(old) = 1 /\ 1 \in DOMAIN s
  BY <1>2, LeastOfNaturals
<1>4. Prior(s) = IF old = {} THEN {} ELSE s[Min(old)].covers
  BY DEF Prior
<1>5. \A n : n \in SummarizerInput(s) <=>
               n \in Prior(s) \/ \E i \in DOMAIN s : ~s[i].summary /\ n \in s[i].covers
  BY DEF SummarizerInput
<1>6. ASSUME NEW n \in Covered(s) PROVE n \in SummarizerInput(s)
  <2>1. PICK i \in DOMAIN s : n \in s[i].covers
    BY <1>6, InCovered
  <2>2. CASE s[i].summary
    BY <1>2, <1>3, <1>4, <1>5, <2>1, <2>2
  <2>3. CASE ~s[i].summary
    BY <1>5, <2>1, <2>3
  <2> QED BY <2>2, <2>3
<1>7. Prior(s) \subseteq Nat
  BY <1>1, <1>3, <1>4
<1> QED BY <1>1, <1>5, <1>6, <1>7

\* What a compaction leaves in place of the picked messages.
LEMMA ReplacedMessages ==
    ASSUME NEW s \in Seq(Message), NEW p \in Nat, 1 <= p, p < Len(s), NEW a \in Message, NEW b \in Message
    PROVE  LET new == <<a>> \o <<b>> \o SubSeq(s, p + 2, Len(s)) IN
           /\ new \in Seq(Message) /\ Len(new) = Len(s) - p + 1 /\ new[1] = a /\ new[2] = b
           /\ \A j \in (p + 2)..Len(s) : j - p + 1 \in 3..Len(new) /\ new[j - p + 1] = s[j]
           /\ \A i \in 3..Len(new) : i + p - 1 \in (p + 2)..Len(s) /\ new[i] = s[i + p - 1]
<1> DEFINE rest == SubSeq(s, p + 2, Len(s))
           two  == <<a>> \o <<b>>
           new  == two \o rest
<1>1. /\ rest \in Seq(Message) /\ Len(rest) = Len(s) - p - 1
      /\ \A i \in 1..(Len(s) - p - 1) : rest[i] = s[p + 1 + i]
  BY SubSeqProperties
<1>2. two \in Seq(Message) /\ Len(two) = 2 /\ two[1] = a /\ two[2] = b
  OBVIOUS
<1> HIDE DEF rest, two
<1>3. /\ new \in Seq(Message) /\ Len(new) = 2 + Len(rest)
      /\ \A i \in 1..2 : new[i] = two[i]
      /\ \A k \in 1..Len(rest) : new[2 + k] = rest[k]
  <2>1. /\ new \in Seq(Message) /\ Len(new) = Len(two) + Len(rest)
        /\ \A i \in 1..(Len(two) + Len(rest)) :
              new[i] = IF i <= Len(two) THEN two[i] ELSE rest[i - Len(two)]
    BY <1>1, <1>2, ConcatProperties
  <2> HIDE DEF new
  <2>2. Len(rest) \in Nat
    BY <1>1
  <2>3. \A k \in 1..Len(rest) : 2 + k \in 1..(2 + Len(rest)) /\ ~(2 + k <= 2) /\ (2 + k) - 2 = k
    BY <2>2
  <2> QED BY <1>2, <2>1, <2>2, <2>3
<1> HIDE DEF new
<1>4. \A k \in 1..(Len(s) - p - 1) : new[2 + k] = s[p + 1 + k]
  BY <1>1, <1>3
<1>5. ASSUME NEW j \in (p + 2)..Len(s) PROVE j - p + 1 \in 3..Len(new) /\ new[j - p + 1] = s[j]
  <2> DEFINE k == j - p - 1
  <2>1. k \in 1..(Len(s) - p - 1) /\ 2 + k = j - p + 1 /\ p + 1 + k = j
    OBVIOUS
  <2>2. j - p + 1 \in 3..Len(new)
    BY <1>1, <1>3
  <2> HIDE DEF k
  <2> QED BY <1>4, <2>1, <2>2
<1>6. ASSUME NEW i \in 3..Len(new) PROVE i + p - 1 \in (p + 2)..Len(s) /\ new[i] = s[i + p - 1]
  <2> DEFINE k == i - 2
  <2>1. Len(new) = Len(s) - p + 1
    BY <1>1, <1>3
  <2>2. /\ k \in 1..(Len(s) - p - 1) /\ 2 + k = i /\ p + 1 + k = i + p - 1
        /\ i + p - 1 \in (p + 2)..Len(s)
    BY <2>1
  <2> HIDE DEF k
  <2>3. new[2 + k] = s[p + 1 + k]
    BY <1>4, <2>2
  <2> QED BY ONLY <2>2, <2>3
<1> QED BY <1>1, <1>2, <1>3, <1>5, <1>6 DEF new, two, rest

\* A compaction puts the pinned message and a summary in the place of the picked
\* messages.
CompactsTo(kept, note, learnt, intent) ==
    /\ kept.role = "user" /\ ~kept.summary /\ kept.calls = hist[1].calls
    /\ intent = "blank" \/ hist[1].covers \subseteq kept.covers
    /\ note.role = "assistant" /\ note.covers = learnt /\ note.calls = <<>>
    /\ hist' \in Seq(Message) /\ Len(hist') = Len(hist) - Len(plan) + 1
    /\ hist'[1] = kept /\ hist'[2] = note
    /\ \A j \in (Len(plan) + 2)..Len(hist) :
          j - Len(plan) + 1 \in 3..Len(hist') /\ hist'[j - Len(plan) + 1] = hist[j]
    /\ \A i \in 3..Len(hist') :
          i + Len(plan) - 1 \in (Len(plan) + 2)..Len(hist) /\ hist'[i] = hist[i + Len(plan) - 1]
    /\ at' = "calling" /\ plan' = <<>>
    /\ voided' = voided \cup (IF intent = "blank" THEN Covered(<<hist[1]>>) ELSE {})
                        \cup (IF learnt = {} THEN Covered(plan) ELSE {})

LEMMA CompactReplaces ==
    ASSUME HistoryInv, at \in {"summarizing", "intent"}, NEW learnt \in SUBSET Nat,
           NEW intent \in {"none", "text", "blank"}, Compact(learnt, intent)
    PROVE  \E kept, note \in Message : CompactsTo(kept, note, learnt, intent)
<1> DEFINE p == Len(plan)
           first == hist[1]
           kept == CASE intent = "none" -> first
                     [] intent = "text" -> Extracted(first, UserIds(hist))
                     [] intent = "blank" -> Extracted(first, {})
           note == Noted(Plain("assistant", 0, 1), learnt)
           new == <<kept>> \o <<note>> \o SubSeq(hist, p + 2, Len(hist))
<1>1. /\ hist \in Seq(Message) /\ plan \in Seq(Message) /\ p \in Nat /\ 1 <= p /\ p < Len(hist)
      /\ first \in Message /\ first.role = "user" /\ ~first.summary
  <2>1. /\ hist \in Seq(Message) /\ plan \in Seq(Message) /\ 1 <= p /\ p < Len(hist)
    BY DEF HistoryInv, HistoryTypes, PlanStands
  <2>2. 1 \in 1..Len(hist) /\ hist # <<>> /\ p \in Nat
    BY <2>1
  <2>3. first \in Message
    BY <2>1, <2>2
  <2>4. first.role = "user" /\ ~first.summary
    BY <2>2 DEF HistoryInv, SummaryIsSecond
  <2> QED BY <2>1, <2>2, <2>3, <2>4
<1>2. HasPinned(hist) /\ Head(hist) = first /\ Len(<<first>>) = 1 /\ hist # <<>>
  BY <1>1 DEF HasPinned
<1>3. /\ hist' = new /\ at' = "calling" /\ plan' = <<>>
      /\ voided' = voided \cup (IF intent = "blank" THEN Covered(<<first>>) ELSE {})
                          \cup (IF learnt = {} THEN Covered(plan) ELSE {})
  <2>1. hist' = Replaced(hist, learnt, <<kept>>)
    BY <1>2 DEF Compact, Extracted
  <2>2. Replaced(hist, learnt, <<kept>>) = <<kept>> \o <<note>> \o SubSeq(hist, 1 + Len(plan) + 1, Len(hist))
    BY <1>2 DEF Replaced, Noted
  <2>3. 1 + Len(plan) + 1 = p + 2
    BY <1>1
  <2> HIDE DEF kept, note
  <2>4. hist' = new
    BY <2>1, <2>2, <2>3
  <2> QED BY <1>2, <2>4 DEF Compact
<1>4. UserIds(hist) \subseteq Nat /\ first.covers \subseteq UserIds(hist)
  <2>1. \A n : n \in UserIds(hist) <=> \E i \in DOMAIN hist : hist[i].role = "user" /\ n \in hist[i].covers
    BY DEF UserIds
  <2>2. \A i \in DOMAIN hist : hist[i].covers \subseteq Nat
    <3>1. \A m \in Message : m.covers \subseteq Nat
      BY DEF Message
    <3> QED BY <1>1, <3>1
  <2>3. 1 \in DOMAIN hist
    BY <1>1
  <2> QED BY <1>1, <2>1, <2>2, <2>3
<1>5. /\ kept \in Message /\ kept.role = "user" /\ ~kept.summary /\ kept.calls = first.calls
      /\ intent = "blank" \/ first.covers \subseteq kept.covers
  <2> HIDE DEF first
  <2>1. \A x \in SUBSET Nat : LET n == Extracted(first, x) IN
           n \in Message /\ n.role = first.role /\ n.summary = first.summary /\ n.covers = x
    BY <1>1, ExtractedIsMessage
  <2>0. \A x : Extracted(first, x).calls = first.calls
    BY <1>1 DEF Extracted, Message
  <2>2. CASE intent = "none"
    BY <1>1, <2>2
  <2>3. CASE intent = "text"
    BY <1>1, <1>4, <2>0, <2>1, <2>3
  <2>4. CASE intent = "blank"
    BY <1>1, <2>0, <2>1, <2>4
  <2> QED BY <2>2, <2>3, <2>4
<1>6. note \in Message /\ note.covers = learnt /\ note.role = "assistant" /\ note.calls = <<>>
  <2> DEFINE m == Plain("assistant", 0, 1)
  <2>1. m \in Message /\ m.role = "assistant" /\ m.calls = <<>>
    BY PlainIsMessage DEF Plain
  <2> HIDE DEF m
  <2>2. Noted(m, learnt).role = m.role /\ Noted(m, learnt).calls = m.calls
    BY <2>1 DEF Noted, Message
  <2> QED BY <2>1, <2>2, NotedIsMessage DEF m
<1> HIDE DEF kept, note, first
<1>7. /\ new \in Seq(Message) /\ Len(new) = Len(hist) - p + 1 /\ new[1] = kept /\ new[2] = note
      /\ \A j \in (p + 2)..Len(hist) : j - p + 1 \in 3..Len(new) /\ new[j - p + 1] = hist[j]
      /\ \A i \in 3..Len(new) : i + p - 1 \in (p + 2)..Len(hist) /\ new[i] = hist[i + p - 1]
  BY <1>1, <1>5, <1>6, ReplacedMessages
<1> HIDE DEF new
<1>8. CompactsTo(kept, note, learnt, intent)
  BY <1>3, <1>5, <1>6, <1>7 DEF CompactsTo, first
<1> QED BY <1>5, <1>6, <1>8

\* A compaction forgets nothing: what it drops the summary covers, or it is one
\* of the messages that an empty answer stands for.
LEMMA CompactKeeps ==
    ASSUME HistoryInv, at \in {"summarizing", "intent"}, NEW learnt \in SUBSET Nat,
           learnt = {} \/ Covered(plan) \subseteq learnt,
           NEW intent \in {"none", "text", "blank"}, Compact(learnt, intent),
           born' = born, results' = results
    PROVE  HistoryInv'
<1> DEFINE p == Len(plan)
           first == hist[1]
           new == hist'
<1>0. PICK kept, note \in Message : CompactsTo(kept, note, learnt, intent)
  BY CompactReplaces
<1>1. /\ hist \in Seq(Message) /\ plan \in Seq(Message) /\ p \in Nat /\ 1 <= p /\ p < Len(hist)
      /\ \A i \in 1..p : plan[i] = hist[i + 1]
  BY DEF HistoryInv, HistoryTypes, PlanStands
<1>2. /\ kept.role = "user" /\ ~kept.summary
      /\ intent = "blank" \/ first.covers \subseteq kept.covers
      /\ note.covers = learnt
      /\ new \in Seq(Message) /\ Len(new) = Len(hist) - p + 1 /\ new[1] = kept /\ new[2] = note
      /\ \A j \in (p + 2)..Len(hist) : j - p + 1 \in 3..Len(new) /\ new[j - p + 1] = hist[j]
      /\ \A i \in 3..Len(new) : i + p - 1 \in (p + 2)..Len(hist) /\ new[i] = hist[i + p - 1]
      /\ at' = "calling" /\ plan' = <<>>
      /\ voided' = voided \cup (IF intent = "blank" THEN Covered(<<first>>) ELSE {})
                          \cup (IF learnt = {} THEN Covered(plan) ELSE {})
  BY <1>0 DEF CompactsTo
<1> HIDE DEF new, first
<1>3. ASSUME NEW i \in 1..Len(new), new[i].summary PROVE i = 2
  <2>1. CASE i = 1
    BY <1>2, <1>3, <2>1
  <2>2. CASE i \in 3..Len(new)
    <3>1. hist[i + p - 1].summary /\ i + p - 1 \in 1..Len(hist) /\ i + p - 1 # 2
      BY <1>1, <1>2, <1>3, <2>2
    <3> QED BY <3>1 DEF HistoryInv, SummaryIsSecond
  <2> QED BY <1>1, <1>2, <2>1, <2>2
<1>4. ASSUME NEW n \in 1..born, n \notin voided' PROVE n \in Covered(new)
  <2>1. DOMAIN new = 1..Len(new) /\ Len(new) >= 2
    BY <1>1, <1>2
  <2>2. n \in Covered(hist)
    BY <1>2, <1>4 DEF HistoryInv, NothingForgotten
  <2>3. PICK j \in DOMAIN hist : n \in hist[j].covers
    BY <2>2, InCovered
  <2>4. CASE j = 1
    <3>1. n \in first.covers
      BY <2>3, <2>4 DEF first
    <3>2. n \in Covered(<<first>>)
      BY <3>1 DEF Covered
    <3>3. n \in kept.covers
      BY <1>2, <1>4, <3>1, <3>2
    <3> QED BY <1>2, <2>1, <3>3, InCovered
  <2>5. CASE j \in 2..(p + 1)
    <3>1. j - 1 \in 1..p /\ (j - 1) + 1 = j
      BY <1>1, <2>5
    <3>2. plan[j - 1] = hist[j] /\ j - 1 \in DOMAIN plan
      BY <1>1, <3>1
    <3>3. n \in Covered(plan)
      BY <2>3, <3>2, InCovered
    <3>4. n \in note.covers
      BY <1>2, <1>4, <3>3
    <3> QED BY <1>2, <2>1, <3>4, InCovered
  <2>6. CASE j \in (p + 2)..Len(hist)
    <3>1. j - p + 1 \in DOMAIN new /\ n \in new[j - p + 1].covers
      BY <1>2, <2>1, <2>3, <2>6, SMTT(20)
    <3> QED BY <3>1, InCovered
  <2> QED BY <1>1, <2>4, <2>5, <2>6
<1>5. new # <<>> /\ new[1].role = "user"
  BY <1>1, <1>2
<1>6. HistoryTypes'
  BY <1>2 DEF new, HistoryInv, HistoryTypes, Stage
<1>7. NothingForgotten'
  BY <1>2, <1>4 DEF new, NothingForgotten
<1>8. SummaryIsSecond'
  BY <1>2, <1>3, <1>5 DEF new, SummaryIsSecond
<1> QED
  BY <1>2, <1>6, <1>7, <1>8 DEF HistoryInv, PlanStands

LEMMA HistoryStays ==
    ASSUME HistoryInv, hist' = hist, born' = born, voided' = voided,
           at' \in Stage, results' \in Seq(Nat),
           at' # "idle" => at # "idle",
           \/ plan' = <<>> /\ at' \notin {"summarizing", "intent"}
           \/ plan' = plan /\ (at' \in {"summarizing", "intent"} => at' = at),
           at' = "intent" => summary' = summary
    PROVE  HistoryInv'
<1>1. HistoryTypes'
  <2>1. <<>> \in Seq(Message)
    OBVIOUS
  <2> QED BY <2>1 DEF HistoryInv, HistoryTypes
<1>2. PlanStands'
  BY DEF HistoryInv, PlanStands
<1>3. SummaryIsSecond' /\ NothingForgotten'
  BY DEF HistoryInv, SummaryIsSecond, NothingForgotten
<1> QED BY <1>1, <1>2, <1>3 DEF HistoryInv

LEMMA HistoryGrows ==
    ASSUME HistoryInv, NEW more \in Seq(Message),
           hist' = hist \o more, born' = born + Len(more), voided' = voided,
           hist = <<>> => more # <<>> /\ more[1].role = "user",
           \A i \in 1..Len(more) : ~more[i].summary /\ more[i].covers = {born + i},
           at' \in Stage \ {"intent"}, results' \in Seq(Nat),
           \/ plan' = <<>> /\ at' # "summarizing"
           \/ plan' = plan /\ at' # "summarizing"
           \/ plan' = Compactable(hist') /\ plan' # <<>>
    PROVE  HistoryInv'
<1>1. /\ hist' \in Seq(Message) /\ born' \in Nat /\ hist' # <<>>
      /\ hist'[1].role = "user" /\ \A i \in 1..Len(hist') : hist'[i].summary => i = 2
      /\ NothingForgotten'
  BY MoreIsCovered DEF HistoryInv
<1>2. plan' \in Seq(Message) /\ PlanStands'
  <2>1. CASE at' # "summarizing" /\ (plan' = <<>> \/ plan' = plan)
    <3>1. <<>> \in Seq(Message)
      OBVIOUS
    <3> QED BY <2>1, <3>1 DEF HistoryInv, HistoryTypes, PlanStands
  <2>2. CASE plan' = Compactable(hist') /\ plan' # <<>>
    <3>1. LET p == Compactable(hist') IN
          /\ p \in Seq(Message) /\ 1 <= Len(p) /\ Len(p) < Len(hist')
          /\ \A i \in 1..Len(p) : p[i] = hist'[i + 1]
      BY <1>1, <2>2, CompactableIsAfterTheFirst
    <3> QED BY <2>2, <3>1 DEF PlanStands
  <2> QED BY <2>1, <2>2
<1>3. HistoryTypes' /\ SummaryIsSecond'
  BY <1>1, <1>2 DEF HistoryTypes, SummaryIsSecond
<1> QED BY <1>1, <1>2, <1>3 DEF HistoryInv

LEMMA HistoryStarts == Init => HistoryInv
<1> SUFFICES ASSUME Init PROVE HistoryInv
  OBVIOUS
<1>1. hist = <<>> /\ plan = <<>> /\ at = "idle" /\ born = 0 /\ results = <<>>
  BY DEF Init
<1>2. HistoryTypes
  BY <1>1 DEF HistoryTypes, Stage
<1>3. NothingForgotten
  BY <1>1 DEF NothingForgotten
<1> QED BY <1>1, <1>2, <1>3 DEF HistoryInv, PlanStands, SummaryIsSecond

LEMMA HistoryKeeps == HistoryInv /\ [Next]_vars => HistoryInv'
<1> SUFFICES ASSUME HistoryInv, [Next]_vars PROVE HistoryInv'
  OBVIOUS
<1>t. hist \in Seq(Message) /\ plan \in Seq(Message) /\ at \in Stage /\ born \in Nat /\ results \in Seq(Nat)
  BY DEF HistoryInv, HistoryTypes
<1>n. <<>> \in Seq(Nat)
  OBVIOUS
<1>1. CASE UserMessage
  <2> DEFINE m == Plain("user", born + 1, 1)
  <2>1. m \in Message /\ m.role = "user" /\ ~m.summary /\ m.covers = {born + 1}
    <3>1. born + 1 \in Nat /\ 1 \in Nat
      BY <1>t
    <3> QED BY <3>1, PlainIsMessage
  <2> HIDE DEF m
  <2>2. /\ hist' = hist \o <<m>> /\ born' = born + Len(<<m>>) /\ voided' = voided
        /\ at' = "hooks" /\ plan' = plan /\ results' = results
    BY <1>1, <1>t, <2>1 DEF UserMessage, m
  <2>3. <<m>> \in Seq(Message) /\ <<m>> # <<>> /\ <<m>>[1] = m /\ Len(<<m>>) = 1
    BY <2>1
  <2>4. \A i \in 1..Len(<<m>>) : ~<<m>>[i].summary /\ <<m>>[i].covers = {born + i}
    BY <2>1, <2>3
  <2> QED BY <1>t, <2>1, <2>2, <2>3, <2>4, HistoryGrows DEF Stage
<1>2. CASE Nudge \/ Stop \/ Delta
  BY <1>2, <1>t, HistoryStays DEF Nudge, Stop, Delta, seen
<1>3. CASE SummaryFails \/ Retry
  BY <1>3, <1>t, HistoryStays DEF SummaryFails, Retry, Stage, seen
<1>4. ASSUME NEW b, CallFails(b) PROVE HistoryInv'
  BY <1>4, <1>n, <1>t, HistoryStays DEF CallFails, EndTurn, Stage, seen, loop
<1>5. CASE Abandon
  BY <1>5, <1>n, <1>t, HistoryStays DEF Abandon, EndTurn, Stage, loop
<1>6. CASE BeforeModel
  <2> DEFINE extra == IF StopSeen THEN IF nudged THEN 1 ELSE 0
                      ELSE (IF nudged THEN 1 ELSE 0) + (IF Exhausted THEN 1 ELSE 0)
                           + (IF Looping THEN 1 ELSE 0)
             more == [k \in 1..extra |-> Plain("user", born + k, 1)]
  <2>1. extra \in Nat
    OBVIOUS
  <2>2. /\ hist' = hist \o more /\ born' = born + extra /\ voided' = voided /\ at = "hooks"
        /\ \/ at' = "idle" /\ plan' = <<>> /\ results' = <<>>
           \/ at' = "calling" /\ plan' = <<>> /\ results' = results
           \/ at' = "summarizing" /\ plan' = Compactable(hist') /\ plan' # <<>> /\ results' = results
    <3> HIDE DEF StopSeen, Exhausted, Looping
    <3> QED BY <1>6 DEF BeforeModel, EndTurn
  <2> HIDE DEF extra
  <2>3. \A k \in 1..extra : more[k] = Plain("user", born + k, 1) /\ more[k] \in Message
                            /\ ~more[k].summary /\ more[k].covers = {born + k}
    BY <1>t, <2>1, PlainIsMessage
  <2>4. more \in Seq(Message) /\ Len(more) = extra
    BY <2>1, <2>3
  <2> HIDE DEF more
  <2>5. hist # <<>>
    BY <2>2 DEF HistoryInv, SummaryIsSecond
  <2>6. at' \in Stage \ {"intent"} /\ results' \in Seq(Nat)
    BY <1>t, <1>n, <2>2 DEF Stage
  <2> QED BY <2>2, <2>3, <2>4, <2>5, <2>6, HistoryGrows
<1>7. ASSUME NEW b \in BOOLEAN, SummaryDone(b) PROVE HistoryInv'
  <2> DEFINE learnt == IF b THEN {} ELSE SummarizerInput(plan)
  <2>1. \A i \in 1..Len(plan) : plan[i].summary => i = 1
    BY <1>7 DEF SummaryDone, HistoryInv, PlanStands, SummaryIsSecond
  <2>2. learnt \subseteq Nat /\ (learnt = {} \/ Covered(plan) \subseteq learnt)
    BY <1>t, <2>1, AllIsRead
  <2> HIDE DEF learnt
  <2>3. CASE Compact(learnt, "none")
    BY <1>7, <2>2, <2>3, CompactKeeps DEF SummaryDone
  <2>4. CASE /\ at' = "intent" /\ summary' = [covers |-> learnt, size |-> 1]
             /\ UNCHANGED <<hist, plan, voided>>
    <3>1. at = "summarizing" /\ born' = born /\ results' = results /\ summary'.covers = learnt
      BY <1>7, <2>4 DEF SummaryDone
    <3>2. HistoryTypes'
      BY <1>t, <2>4, <3>1 DEF HistoryTypes, Stage
    <3>3. PlanStands' /\ SummaryIsSecond' /\ NothingForgotten'
      BY <2>4, <3>1 DEF HistoryInv, PlanStands, SummaryIsSecond, NothingForgotten
    <3>4. Covered(plan)' = Covered(plan)
      BY <2>4 DEF Covered
    <3> QED BY <2>2, <3>1, <3>2, <3>3, <3>4 DEF HistoryInv
  <2> QED BY <1>7, <2>3, <2>4 DEF SummaryDone, learnt
<1>8. ASSUME NEW intent \in {"none", "text", "blank"}, IntentDone(intent) PROVE HistoryInv'
  BY <1>8, CompactKeeps DEF IntentDone, HistoryInv
<1>9. ASSUME NEW r \in Reply, Answer(r.calls, r.text) PROVE HistoryInv'
  <2> DEFINE note == Plain("user", born + 1, 1)
             said == Said(Plain("assistant", born + 1, 1), r.calls, r.text)
  <2>1. r.calls \in Seq(Tool) /\ r.text \in BOOLEAN
    BY ContextAssumption
  <2>2. /\ note \in Message /\ ~note.summary /\ note.covers = {born + 1}
        /\ said \in Message /\ ~said.summary /\ said.covers = {born + 1}
    <3>1. born + 1 \in Nat /\ 1 \in Nat
      BY <1>t
    <3>2. note \in Message /\ ~note.summary /\ note.covers = {born + 1}
      BY <3>1, PlainIsMessage
    <3> DEFINE m == Plain("assistant", born + 1, 1)
    <3>3. m \in Message /\ ~m.summary /\ m.covers = {born + 1}
      BY <3>1, PlainIsMessage
    <3> HIDE DEF m, note
    <3>4. LET n == Said(m, r.calls, r.text) IN
          n \in Message /\ ~n.summary /\ n.covers = {born + 1}
      BY <2>1, <3>3, SaidIsMessage
    <3> QED BY <3>2, <3>4 DEF m
  <2>3. hist # <<>>
    BY <1>9 DEF Answer, HistoryInv, SummaryIsSecond
  <2>4. ASSUME NEW m \in Message, ~m.summary, m.covers = {born + 1}, hist' = Append(hist, m),
               at' \in {"idle", "tools"}, results' \in Seq(Nat), plan' = <<>> \/ plan' = plan
        PROVE  HistoryInv'
    <3>1. <<m>> \in Seq(Message) /\ <<m>>[1] = m /\ Len(<<m>>) = 1
      OBVIOUS
    <3>2. hist' = hist \o <<m>>
      BY <1>t, <2>4
    <3>3. \A i \in 1..Len(<<m>>) : ~<<m>>[i].summary /\ <<m>>[i].covers = {born + i}
      BY <2>4, <3>1
    <3>4. born' = born + Len(<<m>>) /\ voided' = voided
      BY <1>9, <3>1 DEF Answer
    <3> QED BY <2>3, <2>4, <3>1, <3>2, <3>3, <3>4, HistoryGrows DEF Stage
  <2>5. [k \in DOMAIN r.calls |-> 0] \in Seq(Nat)
    BY <2>1
  <2>6. \/ hist' = Append(hist, note) /\ at' = "idle" /\ results' = <<>> /\ plan' = <<>>
        \/ /\ hist' = Append(hist, said)
           /\ \/ at' = "idle" /\ results' = <<>> /\ plan' = <<>>
              \/ at' = "tools" /\ results' = [k \in DOMAIN r.calls |-> 0] /\ plan' = plan
    <3> HIDE DEF StopSeen
    <3> QED BY <1>9 DEF Answer, EndTurn, Said
  <2> HIDE DEF note, said
  <2> QED BY <1>n, <2>2, <2>4, <2>5, <2>6
<1>10. ASSUME NEW k, NEW size \in Sizes, ToolDone(k, size) PROVE HistoryInv'
  <2> DEFINE a == Last(hist)
             done == [results EXCEPT ![k] = Capped(size)]
             more == [j \in DOMAIN done |-> ResultOf(Plain("tool", born + j, done[j]), <<a.id, j>>)]
  <2>1. at = "tools" /\ k \in DOMAIN results /\ voided' = voided /\ plan' = plan
        /\ \/ results' = done /\ UNCHANGED <<hist, at, born>>
           \/ /\ hist' = hist \o more /\ born' = born + Len(done)
              /\ results' = <<>> /\ at' = "hooks"
    BY <1>10 DEF ToolDone, ResultOf
  <2>2. Capped(size) \in Nat
    BY ContextAssumption DEF Capped
  <2>3. done \in Seq(Nat)
    BY <1>t, <2>1, <2>2
  <2>4. hist # <<>> /\ a.id \in Nat
    <3>1. hist # <<>>
      BY <2>1 DEF HistoryInv, SummaryIsSecond
    <3>2. a \in Message
      BY <1>t, <3>1 DEF Last
    <3>3. \A m \in Message : m.id \in Nat
      BY DEF Message
    <3> QED BY <3>1, <3>2, <3>3
  <2> HIDE DEF done, a
  <2>5. CASE results' = done /\ UNCHANGED <<hist, at, born>>
    BY <1>t, <2>1, <2>3, <2>5, HistoryStays
  <2>6. CASE hist' = hist \o more /\ born' = born + Len(done) /\ results' = <<>> /\ at' = "hooks"
    <3>1. ASSUME NEW j \in 1..Len(done)
          PROVE  more[j] \in Message /\ ~more[j].summary /\ more[j].covers = {born + j}
      <4> DEFINE m == Plain("tool", born + j, done[j])
      <4>1. m \in Message /\ ~m.summary /\ m.covers = {born + j}
        <5>1. born + j \in Nat /\ done[j] \in Nat
          BY <1>t, <2>3
        <5> QED BY <5>1, PlainIsMessage
      <4>2. <<a.id, j>> \in Seq(Nat)
        BY <2>4
      <4>3. more[j] = ResultOf(m, <<a.id, j>>)
        BY <2>3
      <4> HIDE DEF m, more
      <4> DEFINE of == <<a.id, j>>
      <4>4. of \in Seq(Nat)
        BY <4>2
      <4> HIDE DEF of
      <4>5. LET n == ResultOf(m, of) IN n \in Message /\ n.summary = m.summary /\ n.covers = m.covers
        BY <4>1, <4>4, ResultIsMessage
      <4> QED BY <4>1, <4>3, <4>5 DEF of
    <3>2. more \in Seq(Message) /\ Len(more) = Len(done)
      <4>1. DOMAIN more = 1..Len(done) /\ Len(done) \in Nat
        BY <2>3
      <4>2. more = [j \in 1..Len(done) |-> more[j]]
        BY <4>1
      <4> HIDE DEF more
      <4> QED BY <3>1, <4>1, <4>2
    <3> HIDE DEF more
    <3>3. born' = born + Len(more)
      BY <2>6, <3>2
    <3> QED BY <1>n, <2>1, <2>4, <2>6, <3>1, <3>2, <3>3, HistoryGrows DEF Stage
  <2> QED BY <2>1, <2>5, <2>6
<1>11. CASE UNCHANGED vars
  BY <1>11, <1>t, HistoryStays DEF vars, seen
<1> QED
  BY <1>1, <1>2, <1>3, <1>4, <1>5, <1>6, <1>7, <1>8, <1>9, <1>10, <1>11 DEF Next

LEMMA HistorySteps == [AllNext]_allVars => [Next]_vars
  BY DEF AllNext, allVars

\* Every message ever appended is in the history, its summary or its intent,
\* unless a model answered nothing, however the compactions fall.
THEOREM HistoryIsKept == AllSpec => []NothingForgotten
<1>1. AllInit => HistoryInv
  BY HistoryStarts DEF AllInit
<1>2. HistoryInv /\ [AllNext]_allVars => HistoryInv'
  BY HistoryKeeps, HistorySteps
<1>3. HistoryInv => NothingForgotten
  BY DEF HistoryInv
<1> QED BY <1>1, <1>2, <1>3, PTL DEF AllSpec

-----------------------------------------------------------------------------
(* Messages on the wire, flattened                                         *)

\* The blocks of flattened messages are the flattened blocks of the messages.
LEMMA BlocksOfFlattened ==
    ASSUME NEW Role, NEW B
    PROVE  \A s \in Seq(Seq([role : Role, blocks : Seq(B)])) :
              Blocks(FlattenSeq(s)) = FlattenSeq([i \in 1..Len(s) |-> Blocks(s[i])])
<1> DEFINE W == [role : Role, blocks : Seq(B)]
           Of(w) == [i \in 1..Len(w) |-> w[i].blocks]
           Each(s) == [i \in 1..Len(s) |-> Blocks(s[i])]
           P == {s \in Seq(Seq(W)) : Blocks(FlattenSeq(s)) = FlattenSeq(Each(s))}
<1>b. \A w \in Seq(W) : Blocks(w) = FlattenSeq(Of(w)) /\ Of(w) \in Seq(Seq(B)) /\ Blocks(w) \in Seq(B)
  <2> TAKE w \in Seq(W)
  <2>1. DOMAIN w = 1..Len(w) /\ Len(w) \in Nat
    OBVIOUS
  <2>2. \A i \in 1..Len(w) : w[i].blocks \in Seq(B)
    <3>1. \A i \in 1..Len(w) : w[i] \in W
      <4> HIDE DEF W, Of
      <4> QED OBVIOUS
    <3>2. \A x \in W : x.blocks \in Seq(B)
      OBVIOUS
    <3> QED BY <3>1, <3>2
  <2>3. Of(w) \in Seq(Seq(B))
    BY <2>1, <2>2
  <2>4. Blocks(w) = FlattenSeq(Of(w))
    BY <2>1 DEF Blocks
  <2> HIDE DEF Of
  <2> QED BY <2>3, <2>4, FlattenIsSeq
<1>1. <<>> \in P
  <2>1. Each(<<>>) = <<>> /\ <<>> \in Seq(Seq(W)) /\ <<>> \in Seq(W) /\ Of(<<>>) = <<>>
    OBVIOUS
  <2> HIDE DEF Each, Of, W
  <2> QED BY <1>b, <2>1, FlattenEmpty
<1>2. ASSUME NEW s \in Seq(Seq(W)), NEW x \in Seq(W), s \in P PROVE Append(s, x) \in P
  <2> DEFINE f == FlattenSeq(s)
             t == Append(s, x)
  <2>1. FlattenSeq(t) = f \o x /\ f \in Seq(W) /\ t \in Seq(Seq(W))
    BY FlattenAppend, FlattenIsSeq
  <2>2. Of(f \o x) = Of(f) \o Of(x)
    <3> HIDE DEF f
    <3>1. /\ Len(f \o x) = Len(f) + Len(x) /\ Len(f) \in Nat /\ Len(x) \in Nat
          /\ \A i \in 1..(Len(f) + Len(x)) : (f \o x)[i] = IF i <= Len(f) THEN f[i] ELSE x[i - Len(f)]
      BY <2>1
    <3> QED BY <3>1
  <2>3. Each(t) = Append(Each(s), Blocks(x)) /\ Each(s) \in Seq(Seq(B))
    <3> HIDE DEF Of, W
    <3>0. \A i \in 1..Len(s) : s[i] \in Seq(W)
      OBVIOUS
    <3>1. \A i \in 1..Len(s) : Blocks(s[i]) \in Seq(B)
      BY <1>b, <3>0
    <3>2. Each(s) \in Seq(Seq(B))
      BY <3>1
    <3>3. Len(t) = Len(s) + 1 /\ \A i \in 1..Len(t) : t[i] = IF i <= Len(s) THEN s[i] ELSE x
      OBVIOUS
    <3> HIDE DEF t
    <3>4. Each(t) = Append(Each(s), Blocks(x))
      BY <3>3
    <3> QED BY <3>2, <3>4
  <2> HIDE DEF Of, Each, W, f, t
  <2>4. Blocks(FlattenSeq(t)) = FlattenSeq(Of(f) \o Of(x))
    <3>1. f \o x \in Seq(W)
      BY <2>1
    <3> QED BY <1>b, <2>1, <2>2, <3>1
  <2>5. FlattenSeq(Of(f) \o Of(x)) = Blocks(f) \o Blocks(x)
    <3>1. /\ Of(f) \in Seq(Seq(B)) /\ Of(x) \in Seq(Seq(B))
          /\ Blocks(f) = FlattenSeq(Of(f)) /\ Blocks(x) = FlattenSeq(Of(x))
      BY <1>b, <2>1
    <3>2. \A a, c \in Seq(Seq(B)) : FlattenSeq(a \o c) = FlattenSeq(a) \o FlattenSeq(c)
      BY FlattenConcat
    <3> QED BY <3>1, <3>2
  <2>6. FlattenSeq(Each(t)) = FlattenSeq(Each(s)) \o Blocks(x)
    BY <1>b, <2>3, FlattenAppend
  <2>7. Blocks(f) = FlattenSeq(Each(s))
    BY <1>2 DEF f
  <2>8. Blocks(FlattenSeq(t)) = FlattenSeq(Each(t))
    BY <2>4, <2>5, <2>6, <2>7
  <2> QED BY <2>1, <2>8 DEF t
<1> HIDE DEF P
<1>3. Seq(Seq(W)) \subseteq P
  BY <1>1, <1>2, InductOverSeq
<1> QED BY <1>3 DEF P

-----------------------------------------------------------------------------
(* What the providers are sent                                             *)

BlockSet == [type : {"text", "call", "result"}, id : Seq(Nat)]
WireSet  == [role : {"user", "assistant", "tool", "item"}, blocks : Seq(BlockSet)]

\* A tool's result is its block; any other message's blocks are texts and its
\* calls, an assistant's every call.
Faithful(m, b) ==
    IF m.role = "tool" THEN b = <<Block("result", m.call)>>
    ELSE /\ \A k \in 1..Len(b) : \/ b[k] = Block("text", NoId)
                                 \/ \E c \in 1..Len(m.calls) : b[k] = Block("call", <<m.id, c>>)
         /\ m.role = "assistant" =>
               \A c \in 1..Len(m.calls) : \E k \in 1..Len(b) : b[k] = Block("call", <<m.id, c>>)

\* The part of one message in what is sent.
Anthropic(m) ==
    CASE m.role = "assistant" -> IF Texts(m) \o Calls(m) = <<>> THEN <<>>
                                 ELSE Wire("assistant", Texts(m) \o Calls(m))
      [] m.role = "tool" -> Wire("user", <<Block("result", m.call)>>)
      [] OTHER -> Wire("user", <<Block("text", NoId)>>)
OpenAI(m) ==
    CASE m.role = "tool" -> Wire("tool", <<Block("result", m.call)>>)
      [] OTHER -> Wire(m.role, Texts(m) \o Calls(m))
Responses(m) ==
    CASE m.role = "assistant" ->
             FlattenSeq([k \in DOMAIN (Texts(m) \o Calls(m)) |->
                 Wire("assistant", <<(Texts(m) \o Calls(m))[k]>>)])
      [] m.role = "tool" -> Wire("item", <<Block("result", m.call)>>)
      [] OTHER -> Wire("user", <<Block("text", NoId)>>)

LEMMA BlockIsBlock ==
    /\ Block("text", NoId) \in BlockSet
    /\ \A id \in Seq(Nat) : Block("call", id) \in BlockSet /\ Block("result", id) \in BlockSet
<1>1. <<>> \in Seq(Nat)
  OBVIOUS
<1> QED BY <1>1 DEF Block, BlockSet, NoId

LEMMA WireIsWire ==
    ASSUME NEW role \in {"user", "assistant", "tool", "item"}, NEW b \in Seq(BlockSet)
    PROVE  Wire(role, b) \in Seq(WireSet) /\ Blocks(Wire(role, b)) = b
<1> DEFINE r == [role |-> role, blocks |-> b]
<1>1. r \in WireSet /\ r.blocks = b
  BY DEF WireSet
<1> HIDE DEF r
<1>2. <<r>> \in Seq(WireSet) /\ [i \in DOMAIN <<r>> |-> <<r>>[i].blocks] = Append(<<>>, b)
  BY <1>1
<1>3. FlattenSeq(Append(<<>>, b)) = b
  <2>1. <<>> \in Seq(Seq(BlockSet)) /\ <<>> \o b = b
    OBVIOUS
  <2> QED BY <2>1, FlattenAppend, FlattenEmpty
<1> QED BY <1>2, <1>3 DEF Wire, Blocks, r

LEMMA NoBlocks == Blocks(<<>>) = <<>> /\ <<>> \in Seq(WireSet)
<1>1. [i \in DOMAIN <<>> |-> <<>>[i].blocks] = <<>>
  OBVIOUS
<1> QED BY <1>1, FlattenEmpty DEF Blocks

\* What a message other than a result says.
LEMMA SaidIsFaithful ==
    ASSUME NEW m \in Message, m.role # "tool"
    PROVE  LET x == Texts(m) \o Calls(m) IN x \in Seq(BlockSet) /\ Faithful(m, x)
<1> DEFINE t == Texts(m)
           c == Calls(m)
           x == t \o c
<1>1. m.id \in Nat /\ m.calls \in Seq(Tool) /\ Len(m.calls) \in Nat /\ DOMAIN m.calls = 1..Len(m.calls)
  BY DEF Message
<1>2. /\ t \in Seq(BlockSet) /\ Len(t) \in Nat /\ \A k \in 1..Len(t) : t[k] = Block("text", NoId)
  <2>1. t = <<>> \/ t = <<Block("text", NoId)>>
    BY DEF Texts
  <2> DEFINE b == Block("text", NoId)
  <2>2. b \in BlockSet
    BY BlockIsBlock
  <2>3. \A k \in 1..Len(t) : t[k] = b
    BY <2>1
  <2>4. t \in Seq(BlockSet) /\ Len(t) \in Nat
    <3>1. t = <<>> \/ t = <<b>>
      BY <2>1
    <3> HIDE DEF b, t
    <3>2. <<>> \in Seq(BlockSet) /\ \A y \in BlockSet : <<y>> \in Seq(BlockSet)
      OBVIOUS
    <3>3. t \in Seq(BlockSet)
      BY <2>2, <3>1, <3>2
    <3> QED BY <3>3
  <2> QED BY <2>3, <2>4
<1>3. /\ c \in Seq(BlockSet) /\ Len(c) = Len(m.calls)
      /\ \A k \in 1..Len(c) : c[k] = Block("call", <<m.id, k>>)
  <2>1. \A k \in 1..Len(m.calls) : Block("call", <<m.id, k>>) \in BlockSet
    <3>1. \A k \in 1..Len(m.calls) : <<m.id, k>> \in Seq(Nat)
      BY <1>1
    <3> QED BY <3>1, BlockIsBlock
  <2>2. c = [k \in 1..Len(m.calls) |-> Block("call", <<m.id, k>>)]
    BY <1>1 DEF Calls, CallId
  <2> HIDE DEF c
  <2> QED BY <1>1, <2>1, <2>2
<1> HIDE DEF t, c
<1>4. /\ x \in Seq(BlockSet) /\ Len(x) = Len(t) + Len(c)
      /\ \A k \in 1..(Len(t) + Len(c)) : x[k] = IF k <= Len(t) THEN t[k] ELSE c[k - Len(t)]
  BY <1>2, <1>3, ConcatProperties
<1> HIDE DEF x
<1>5. ASSUME NEW k \in 1..Len(x)
      PROVE  x[k] = Block("text", NoId) \/ \E d \in 1..Len(m.calls) : x[k] = Block("call", <<m.id, d>>)
  <2>1. CASE k <= Len(t)
    BY <1>2, <1>4, <2>1
  <2>2. CASE ~(k <= Len(t))
    <3>1. k - Len(t) \in 1..Len(c)
      BY <1>1, <1>2, <1>3, <1>4, <2>2
    <3> QED BY <1>3, <1>4, <2>2, <3>1
  <2> QED BY <2>1, <2>2
<1>6. ASSUME NEW d \in 1..Len(m.calls) PROVE \E k \in 1..Len(x) : x[k] = Block("call", <<m.id, d>>)
  <2>1. Len(t) + d \in 1..Len(x) /\ ~(Len(t) + d <= Len(t)) /\ (Len(t) + d) - Len(t) = d
    BY <1>1, <1>2, <1>3, <1>4
  <2>2. x[Len(t) + d] = c[d]
    BY <1>4, <2>1
  <2> QED BY <1>3, <2>1, <2>2
<1>7. Faithful(m, x)
  BY <1>5, <1>6 DEF Faithful
<1> QED BY <1>4, <1>7 DEF x, t, c

\* Each adapter is faithful to each message.
LEMMA AdaptersAreFaithful ==
    ASSUME NEW m \in Message, NEW w \in {Anthropic(m), OpenAI(m), Responses(m)}
    PROVE  w \in Seq(WireSet) /\ Blocks(w) \in Seq(BlockSet) /\ Faithful(m, Blocks(w))
<1> DEFINE x == Texts(m) \o Calls(m)
           said == <<Block("text", NoId)>>
           out == <<Block("result", m.call)>>
<1>1. m.role \in {"user", "assistant", "tool"} /\ m.call \in Seq(Nat) /\ Len(m.calls) \in Nat
  BY DEF Message
<1>2. /\ said \in Seq(BlockSet) /\ out \in Seq(BlockSet) /\ <<>> \in Seq(BlockSet)
      /\ (m.role = "tool" => Faithful(m, out))
      /\ (m.role = "user" => Faithful(m, said))
  <2>1. \A b \in BlockSet : <<b>> \in Seq(BlockSet)
    OBVIOUS
  <2>2. said \in Seq(BlockSet) /\ out \in Seq(BlockSet)
    BY <1>1, <2>1, BlockIsBlock
  <2>3. <<>> \in Seq(BlockSet)
    OBVIOUS
  <2>4. Len(said) = 1 /\ said[1] = Block("text", NoId)
    OBVIOUS
  <2>5. m.role = "user" => Faithful(m, said)
    <3> HIDE DEF said
    <3> QED BY <2>4 DEF Faithful
  <2>6. m.role = "tool" => Faithful(m, out)
    BY DEF Faithful
  <2> QED BY <2>2, <2>3, <2>5, <2>6
<1>3. m.role # "tool" => x \in Seq(BlockSet) /\ Faithful(m, x)
  BY SaidIsFaithful
<1>4. m.role # "tool" =>
        LET y == FlattenSeq([k \in DOMAIN x |-> Wire("assistant", <<x[k]>>)]) IN
        y \in Seq(WireSet) /\ Blocks(y) = x
  <2> SUFFICES ASSUME m.role # "tool"
               PROVE  LET y == FlattenSeq([k \in DOMAIN x |-> Wire("assistant", <<x[k]>>)]) IN
                      y \in Seq(WireSet) /\ Blocks(y) = x
    OBVIOUS
  <2> DEFINE r == [k \in 1..Len(x) |-> [role |-> "assistant", blocks |-> <<x[k]>>]]
  <2> HIDE DEF x, out, said
  <2>1. x \in Seq(BlockSet) /\ Len(x) \in Nat /\ DOMAIN x = 1..Len(x)
    BY <1>3
  <2>2. \A k \in 1..Len(x) : <<x[k]>> \in Seq(BlockSet)
    BY <2>1
  <2>3. /\ r \in Seq(WireSet) /\ DOMAIN r = 1..Len(x) /\ Len(r) = Len(x)
        /\ \A k \in 1..Len(x) : r[k].blocks = <<x[k]>>
    <3>1. \A k \in 1..Len(x) : [role |-> "assistant", blocks |-> <<x[k]>>] \in WireSet
      BY <2>2 DEF WireSet
    <3> QED BY <2>1, <3>1
  <2>4. [k \in DOMAIN x |-> Wire("assistant", <<x[k]>>)] = [k \in 1..Len(r) |-> <<r[k]>>]
    BY <2>1, <2>3 DEF Wire
  <2> HIDE DEF r
  <2>5. FlattenSeq([k \in 1..Len(r) |-> <<r[k]>>]) = r
    BY <2>3, FlattenSingles
  <2>6. Blocks(r) = x
    <3>1. [k \in DOMAIN r |-> r[k].blocks] = [k \in 1..Len(x) |-> <<x[k]>>]
      BY <2>3
    <3>2. FlattenSeq([k \in 1..Len(x) |-> <<x[k]>>]) = x
      BY <2>1, FlattenSingles
    <3> QED BY <3>1, <3>2 DEF Blocks
  <2> QED BY <2>3, <2>4, <2>5, <2>6
<1> HIDE DEF x, out, said
<1>5. /\ m.role = "tool" => \E role \in {"user", "tool", "item"} : w = Wire(role, out)
      /\ m.role = "user" => w = Wire("user", said) \/ w = Wire("user", x)
      /\ m.role = "assistant" =>
            \/ w = Wire("assistant", x)
            \/ x = <<>> /\ w = <<>>
            \/ w = FlattenSeq([k \in DOMAIN x |-> Wire("assistant", <<x[k]>>)])
  BY DEF Anthropic, OpenAI, Responses, x, out, said
<1>6. CASE m.role = "tool"
  BY <1>2, <1>5, <1>6, WireIsWire
<1>7. CASE m.role = "user"
  BY <1>2, <1>3, <1>5, <1>7, WireIsWire
<1>8. CASE m.role = "assistant"
  BY <1>2, <1>3, <1>4, <1>5, <1>8, WireIsWire, NoBlocks
<1> QED BY <1>1, <1>6, <1>7, <1>8

\* What is sent for a history is, message by message, faithful to it.
LEMMA SentIsFaithful ==
    ASSUME NEW h \in Seq(Message), NEW p \in {"anthropic", "openai", "openai_compat"}
    PROVE  \E g \in Seq(Seq(BlockSet)) :
              /\ Len(g) = Len(h) /\ Blocks(Converted(p, h)) = FlattenSeq(g)
              /\ \A i \in 1..Len(h) : Faithful(h[i], g[i])
<1> DEFINE Of(m) == CASE p = "anthropic" -> Anthropic(m) [] p = "openai" -> Responses(m)
                      [] OTHER -> OpenAI(m)
           s == [i \in 1..Len(h) |-> Of(h[i])]
           g == [i \in 1..Len(s) |-> Blocks(s[i])]
<1>1. Len(h) \in Nat /\ DOMAIN h = 1..Len(h) /\ \A i \in 1..Len(h) : h[i] \in Message
  OBVIOUS
<1>2. Converted(p, h) = FlattenSeq(s)
  <2>1. CASE p = "anthropic"
    BY <1>1, <2>1 DEF Converted, AnthropicMessages, Anthropic
  <2>2. CASE p = "openai"
    BY <1>1, <2>2 DEF Converted, ResponsesItems, Responses
  <2>3. CASE p = "openai_compat"
    BY <1>1, <2>3 DEF Converted, OpenAIMessages, OpenAI
  <2> QED BY <2>1, <2>2, <2>3
<1>3. \A i \in 1..Len(h) : Of(h[i]) \in Seq(WireSet) /\ Blocks(Of(h[i])) \in Seq(BlockSet)
                           /\ Faithful(h[i], Blocks(Of(h[i])))
  BY <1>1, AdaptersAreFaithful
<1> HIDE DEF Of
<1>4. s \in Seq(Seq(WireSet)) /\ Len(s) = Len(h)
  BY <1>1, <1>3
<1>5. g \in Seq(Seq(BlockSet)) /\ Len(g) = Len(h) /\ \A i \in 1..Len(h) : g[i] = Blocks(Of(h[i]))
  BY <1>1, <1>3, <1>4
<1>6. Blocks(FlattenSeq(s)) = FlattenSeq(g)
  <2> HIDE DEF s
  <2> QED BY <1>4, BlocksOfFlattened, ZenonT(30) DEF WireSet
<1> HIDE DEF g, s
<1> QED BY <1>2, <1>3, <1>5, <1>6

Callers(s) == {i \in 1..Len(s) : s[i].calls # <<>>}

\* Only assistants call, each under an identifier of its own.
CallersInOrder(s, n) ==
    /\ \A i \in Callers(s) : s[i].role = "assistant" /\ s[i].id <= n
    /\ \A i, j \in Callers(s) : i < j => s[i].id < s[j].id

\* A result stands among the results of its call's message, right after it.
HasCall(s, j) ==
    \E i \in 1..(j - 1) :
        /\ j - i <= Len(s[i].calls) /\ s[j].call = <<s[i].id, j - i>>
        /\ \A k \in (i + 1)..j : s[k].role = "tool"
ResultsHaveCalls(s) == \A j \in 1..Len(s) : s[j].role = "tool" => HasCall(s, j)

\* The first n messages have their results, unless their round is in c.
CallsHaveResults(s, c, n) ==
    \A i \in 1..n : s[i].id \notin c =>
        \A k \in 1..Len(s[i].calls) :
            i + k <= Len(s) /\ s[i + k].role = "tool" /\ s[i + k].call = <<s[i].id, k>>

LEMMA FaithfulIsMatched ==
    ASSUME NEW h \in Seq(Message), NEW n, NEW except, NEW wire,
           CallersInOrder(h, n), ResultsHaveCalls(h), CallsHaveResults(h, except, Len(h)),
           NEW g \in Seq(Seq(BlockSet)), Len(g) = Len(h), Blocks(wire) = FlattenSeq(g),
           \A i \in 1..Len(h) : Faithful(h[i], g[i])
    PROVE  Matched(wire) /\ Answered(wire, except)
<1> DEFINE b == Blocks(wire)
<1>1. /\ Len(h) \in Nat
      /\ \A i \in 1..Len(h) : /\ h[i].role \in {"user", "assistant", "tool"} /\ h[i].id \in Nat
                              /\ Len(h[i].calls) \in Nat /\ (h[i].calls # <<>> <=> Len(h[i].calls) # 0)
                              /\ Len(g[i]) \in Nat
  <2>1. \A i \in 1..Len(h) : h[i] \in Message /\ g[i] \in Seq(BlockSet)
    OBVIOUS
  <2>2. \A m \in Message : /\ m.role \in {"user", "assistant", "tool"} /\ m.id \in Nat
                           /\ m.calls \in Seq(Tool)
    BY DEF Message
  <2>3. \A q \in Seq(Tool) : Len(q) \in Nat /\ (q # <<>> <=> Len(q) # 0)
    OBVIOUS
  <2>4. \A q \in Seq(BlockSet) : Len(q) \in Nat
    OBVIOUS
  <2> QED BY <2>1, <2>2, <2>3, <2>4
<1>2. PICK off : PlacedBy(off, g, b)
  BY FlattenPlaces
<1>3. b \in Seq(BlockSet) /\ DOMAIN b = 1..Len(b) /\ Len(b) \in Nat
  BY FlattenIsSeq
<1> HIDE DEF b
<1>4. \A x, y : /\ Block("call", x) # Block("result", y) /\ Block("text", x) # Block("result", y)
                /\ Block("call", x) # Block("text", y)
                /\ (Block("result", x) = Block("result", y) => x = y)
                /\ (Block("call", x) = Block("call", y) => x = y)
                /\ Block("result", x).type = "result" /\ Block("result", x).id = x
                /\ Block("call", x).type = "call" /\ Block("call", x).id = x
                /\ Block("text", x).type = "text"
  BY DEF Block
\* A call's block, in its message's place.
<1>5. ASSUME NEW i \in 1..Len(h), NEW c \in 1..Len(h[i].calls)
      PROVE  h[i].role = "assistant" /\ i \in Callers(h) /\ \E j \in 1..Len(b) :
                /\ b[j] = Block("call", <<h[i].id, c>>) /\ j <= off[i] + Len(g[i])
  <2>1. i \in Callers(h) /\ h[i].role = "assistant"
    BY <1>1 DEF Callers, CallersInOrder
  <2>2. PICK k \in 1..Len(g[i]) : g[i][k] = Block("call", <<h[i].id, c>>)
    BY <2>1 DEF Faithful
  <2>3. off[i] \in Nat /\ off[i] + Len(g[i]) <= Len(b) /\ b[off[i] + k] = g[i][k]
    BY <1>2 DEF PlacedBy
  <2>4. off[i] + k \in 1..Len(b) /\ off[i] + k <= off[i] + Len(g[i])
    BY SMTT(20), <1>1, <1>3, <2>3
  <2> QED BY <2>1, <2>2, <2>3, <2>4
\* A result's block, in its message's place.
<1>6. ASSUME NEW i \in 1..Len(h), h[i].role = "tool"
      PROVE  /\ off[i] \in Nat /\ off[i] + 1 \in 1..Len(b)
             /\ b[off[i] + 1] = Block("result", h[i].call)
  <2>1. g[i] = <<Block("result", h[i].call)>>
    BY <1>6 DEF Faithful
  <2>2. Len(g[i]) = 1 /\ g[i][1] = Block("result", h[i].call)
    BY <2>1
  <2>3. /\ off[i] \in Nat /\ off[i] + Len(g[i]) <= Len(b)
        /\ \A k \in 1..Len(g[i]) : b[off[i] + k] = g[i][k]
    BY <1>2 DEF PlacedBy
  <2> QED BY <1>3, <2>2, <2>3
\* Every block is of a message.
<1>7. ASSUME NEW j \in 1..Len(b), b[j].type # "text"
      PROVE  \E i \in 1..Len(h) :
                \/ h[i].role = "tool" /\ j = off[i] + 1 /\ b[j] = Block("result", h[i].call)
                \/ \E c \in 1..Len(h[i].calls) : b[j] = Block("call", <<h[i].id, c>>)
  <2>1. PICK i \in 1..Len(g) : \E k \in 1..Len(g[i]) : j = off[i] + k
    BY <1>2 DEF PlacedBy
  <2>2. PICK k \in 1..Len(g[i]) : j = off[i] + k
    BY <2>1
  <2>3. b[j] = g[i][k] /\ i \in 1..Len(h)
    BY <1>2, <2>2 DEF PlacedBy
  <2>4. CASE h[i].role = "tool"
    <3>1. g[i] = <<Block("result", h[i].call)>>
      BY <2>3, <2>4 DEF Faithful
    <3>2. Len(g[i]) = 1 /\ g[i][1] = Block("result", h[i].call)
      BY <3>1
    <3> QED BY <2>2, <2>3, <2>4, <3>2
  <2>5. CASE h[i].role # "tool"
    <3>1. \/ g[i][k] = Block("text", NoId)
          \/ \E c \in 1..Len(h[i].calls) : g[i][k] = Block("call", <<h[i].id, c>>)
      BY <2>3, <2>5 DEF Faithful
    <3>2. g[i][k] # Block("text", NoId)
      BY <1>4, <1>7, <2>3
    <3> QED BY <2>3, <3>1, <3>2
  <2> QED BY <2>4, <2>5
<1>8. ASSUME NEW j \in 1..Len(b), b[j].type = "result"
      PROVE  \E i \in 1..Len(h) : h[i].role = "tool" /\ j = off[i] + 1 /\ b[j] = Block("result", h[i].call)
  BY <1>4, <1>7, <1>8
<1>9. ASSUME NEW j \in 1..Len(b), b[j].type = "result"
      PROVE  /\ \E i \in 1..(j - 1) : b[i] = Block("call", b[j].id)
             /\ b[j].id # NoId
             /\ \A i \in 1..Len(b) : b[i] = b[j] => i = j
  <2>1. PICK m \in 1..Len(h) : h[m].role = "tool" /\ j = off[m] + 1 /\ b[j] = Block("result", h[m].call)
    BY <1>8, <1>9
  <2>2. b[j].id = h[m].call
    BY <1>4, <2>1
  <2>3. PICK a \in 1..(m - 1) : m - a <= Len(h[a].calls) /\ h[m].call = <<h[a].id, m - a>>
    BY <2>1 DEF ResultsHaveCalls, HasCall
  <2>4. a \in 1..Len(h) /\ m - a \in 1..Len(h[a].calls) /\ a < m
    BY SMTT(20), <1>1, <2>3
  <2>5. PICK i \in 1..Len(b) : b[i] = Block("call", <<h[a].id, m - a>>) /\ i <= off[a] + Len(g[a])
    BY <1>5, <2>4
  <2>6. off[a] + Len(g[a]) <= off[m] /\ off[m] \in Nat
    BY <1>2, <2>4 DEF PlacedBy
  <2>7. i \in 1..(j - 1)
    <3>1. off[a] \in Nat /\ Len(g[a]) \in Nat
      BY <1>1, <1>2, <2>4 DEF PlacedBy
    <3>2. j = off[m] + 1 /\ i <= off[a] + Len(g[a]) /\ i \in 1..Len(b)
      BY <2>1, <2>5
    <3>3. i \in Nat /\ i >= 1
      BY <1>3
    <3> HIDE DEF b
    <3>4. i <= off[m]
      BY ONLY SMTT(20), <2>6, <3>1, <3>2, <3>3
    <3>5. i <= j - 1 /\ j - 1 \in Nat
      BY ONLY <2>6, <3>2, <3>4
    <3> QED BY ONLY <3>3, <3>5
  <2>8. h[m].call # NoId
    BY <2>3 DEF NoId
  <2>9. ASSUME NEW k \in 1..Len(b), b[k] = b[j] PROVE k = j
    <3>1. PICK q \in 1..Len(h) : h[q].role = "tool" /\ k = off[q] + 1 /\ b[k] = Block("result", h[q].call)
      BY <1>8, <1>9, <2>9
    <3>2. h[q].call = h[m].call
      <4>1. Block("result", h[q].call) = Block("result", h[m].call)
        BY <2>1, <2>9, <3>1
      <4> QED BY <1>4, <4>1
    <3>3. PICK d \in 1..(q - 1) : q - d <= Len(h[d].calls) /\ h[q].call = <<h[d].id, q - d>>
      BY <3>1 DEF ResultsHaveCalls, HasCall
    <3>4. h[d].id = h[a].id /\ q - d = m - a
      BY <2>3, <3>2, <3>3
    <3>5. d \in 1..Len(h) /\ q - d \in 1..Len(h[d].calls)
      BY <1>1, <3>3
    <3>6. d \in Callers(h) /\ a \in Callers(h)
      BY <1>5, <2>4, <3>5
    <3>7. d = a
      <4>1. d < a => h[d].id < h[a].id
        BY <3>6 DEF CallersInOrder
      <4>2. a < d => h[a].id < h[d].id
        BY <3>6 DEF CallersInOrder
      <4> QED BY <1>1, <2>4, <3>4, <3>5, <4>1, <4>2
    <3> QED BY <2>1, <2>4, <3>1, <3>4, <3>5, <3>7
  <2> QED BY <2>2, <2>3, <2>5, <2>7, <2>8, <2>9
<1>10. Matched(wire)
  <2>1. \A j \in DOMAIN b : b[j].type = "result" =>
           /\ \E i \in 1..(j - 1) : b[i] = Block("call", b[j].id)
           /\ b[j].id # NoId
           /\ \A i \in DOMAIN b \ {j} : b[i] # b[j]
    BY <1>3, <1>9
  <2> QED BY <2>1 DEF Matched, b
<1>11. ASSUME NEW i \in 1..Len(b), b[i].type = "call", b[i].id[1] \notin except
       PROVE  \E j \in 1..Len(b) : b[j] = Block("result", b[i].id)
  <2>1. PICK m \in 1..Len(h) : \E c \in 1..Len(h[m].calls) : b[i] = Block("call", <<h[m].id, c>>)
    BY <1>4, <1>7, <1>11
  <2>2. PICK c \in 1..Len(h[m].calls) : b[i] = Block("call", <<h[m].id, c>>)
    BY <2>1
  <2>3. b[i].id = <<h[m].id, c>> /\ b[i].id[1] = h[m].id
    BY <1>4, <2>2
  <2>4. m + c <= Len(h) /\ h[m + c].role = "tool" /\ h[m + c].call = <<h[m].id, c>>
    BY <1>11, <2>3 DEF CallsHaveResults
  <2>5. m + c \in 1..Len(h)
    BY <1>1, <2>4
  <2> QED BY <1>6, <2>3, <2>4, <2>5
<1>12. Answered(wire, except)
  <2>1. \A i \in DOMAIN b : b[i].type = "call" /\ b[i].id # NoId /\ b[i].id[1] \notin except =>
           \E j \in DOMAIN b : b[j] = Block("result", b[i].id)
    BY <1>3, <1>11
  <2> QED BY <2>1 DEF Answered, b
<1> QED BY <1>10, <1>12

\* Every result has its call and every call its result, but of the round that runs;
\* a compaction cuts the history where a round ends.
PairedInv ==
    /\ CallersInOrder(hist, born) /\ ResultsHaveCalls(hist)
    /\ CallsHaveResults(hist, cut, IF at = "tools" THEN Len(hist) - 1 ELSE Len(hist))
    /\ at = "tools" => hist # <<>> /\ Len(results) = Len(Last(hist).calls)
    /\ at \in {"summarizing", "intent"} /\ Len(plan) + 2 <= Len(hist) =>
          hist[Len(plan) + 2].role # "tool"

LEMMA CallsAreSeq ==
    ASSUME NEW s \in Seq(Message)
    PROVE  /\ Len(s) \in Nat
           /\ \A i \in 1..Len(s) : /\ s[i].id \in Nat /\ Len(s[i].calls) \in Nat
                                   /\ (s[i].calls # <<>> <=> Len(s[i].calls) # 0)
<1>1. \A m \in Message : m.id \in Nat /\ m.calls \in Seq(Tool)
  BY DEF Message
<1>2. \A q \in Seq(Tool) : Len(q) \in Nat /\ (q # <<>> <=> Len(q) # 0)
  OBVIOUS
<1>3. \A i \in 1..Len(s) : s[i] \in Message
  OBVIOUS
<1> QED BY <1>1, <1>2, <1>3

\* What stands in a history stays paired when messages are appended.
LEMMA OldStayPaired ==
    ASSUME NEW s \in Seq(Message), NEW more \in Seq(Message), NEW c, NEW n \in Int, n <= Len(s),
           ResultsHaveCalls(s), CallsHaveResults(s, c, n)
    PROVE  LET t == s \o more IN
           /\ t \in Seq(Message) /\ Len(t) = Len(s) + Len(more)
           /\ \A i \in 1..Len(s) : t[i] = s[i]
           /\ \A k \in 1..Len(more) : t[Len(s) + k] = more[k]
           /\ \A i \in 1..Len(t) : i \in 1..Len(s) \/ i - Len(s) \in 1..Len(more)
           /\ \A j \in 1..Len(s) : t[j].role = "tool" => HasCall(t, j)
           /\ CallsHaveResults(t, c, n)
<1> DEFINE t == s \o more
<1>1. /\ t \in Seq(Message) /\ Len(t) = Len(s) + Len(more)
      /\ \A i \in 1..Len(s) : t[i] = s[i]
      /\ \A k \in 1..Len(more) : t[Len(s) + k] = more[k]
      /\ Len(s) \in Nat /\ Len(more) \in Nat
  BY ConcatProperties
<1> HIDE DEF t
<1>2. \A i \in 1..Len(t) : i \in 1..Len(s) \/ i - Len(s) \in 1..Len(more)
  BY <1>1
<1>3. ASSUME NEW j \in 1..Len(s), t[j].role = "tool"
      PROVE  HasCall(t, j)
  <2>1. PICK i \in 1..(j - 1) :
           /\ j - i <= Len(s[i].calls) /\ s[j].call = <<s[i].id, j - i>>
           /\ \A k \in (i + 1)..j : s[k].role = "tool"
    BY <1>1, <1>3 DEF ResultsHaveCalls, HasCall
  <2>2. i \in 1..Len(s) /\ \A k \in (i + 1)..j : k \in 1..Len(s)
    BY <1>1
  <2> QED BY <1>1, <2>1, <2>2 DEF HasCall
<1>4. ASSUME NEW i \in 1..n, t[i].id \notin c, NEW k \in 1..Len(t[i].calls)
      PROVE  i + k <= Len(t) /\ t[i + k].role = "tool" /\ t[i + k].call = <<t[i].id, k>>
  <2>1. i \in 1..Len(s) /\ t[i] = s[i]
    BY <1>1
  <2>2. i + k <= Len(s) /\ s[i + k].role = "tool" /\ s[i + k].call = <<s[i].id, k>>
    BY <1>4, <2>1 DEF CallsHaveResults
  <2>3. Len(s[i].calls) \in Nat
    BY <2>1, CallsAreSeq
  <2>4. i + k \in 1..Len(s)
    BY <2>1, <2>2, <2>3
  <2> QED BY <1>1, <2>1, <2>2, <2>4
<1>5. CallsHaveResults(t, c, n)
  BY <1>4 DEF CallsHaveResults
<1> QED BY <1>1, <1>2, <1>3, <1>5 DEF t

\* Messages that neither call nor answer a call leave a history paired.
LEMMA PlainStaysPaired ==
    ASSUME NEW s \in Seq(Message), NEW more \in Seq(Message), NEW c, NEW a \in Nat, NEW b \in Nat, a <= b,
           CallersInOrder(s, a), ResultsHaveCalls(s), CallsHaveResults(s, c, Len(s)),
           \A k \in 1..Len(more) : more[k].role # "tool" /\ more[k].calls = <<>>
    PROVE  LET t == s \o more IN
           CallersInOrder(t, b) /\ ResultsHaveCalls(t) /\ CallsHaveResults(t, c, Len(t))
<1> DEFINE t == s \o more
<1>1. /\ t \in Seq(Message) /\ Len(t) = Len(s) + Len(more)
      /\ \A i \in 1..Len(s) : t[i] = s[i]
      /\ \A k \in 1..Len(more) : t[Len(s) + k] = more[k]
      /\ \A i \in 1..Len(t) : i \in 1..Len(s) \/ i - Len(s) \in 1..Len(more)
      /\ \A j \in 1..Len(s) : t[j].role = "tool" => HasCall(t, j)
      /\ CallsHaveResults(t, c, Len(s))
  <2>1. Len(s) \in Int /\ Len(s) <= Len(s)
    OBVIOUS
  <2> QED BY <2>1, OldStayPaired
<1> HIDE DEF t
<1>2. Len(s) \in Nat /\ Len(more) \in Nat /\ Len(t) \in Nat
  BY <1>1
<1>3. \A i \in 1..Len(t) : i \in 1..Len(s) \/ (t[i].role # "tool" /\ t[i].calls = <<>>)
  <2> TAKE i \in 1..Len(t)
  <2>1. CASE i - Len(s) \in 1..Len(more)
    <3>1. Len(s) + (i - Len(s)) = i
      BY <1>2
    <3> QED BY <1>1, <2>1, <3>1
  <2> QED BY <1>1, <2>1
<1>4. \A i \in Callers(t) : i \in Callers(s) /\ t[i] = s[i]
  BY <1>1, <1>3 DEF Callers
<1>5. CallersInOrder(t, b)
  <2>1. \A i \in Callers(s) : s[i].id \in Nat
    BY CallsAreSeq DEF Callers
  <2> QED BY <1>4, <2>1 DEF CallersInOrder
<1>6. ResultsHaveCalls(t)
  BY <1>1, <1>3 DEF ResultsHaveCalls
<1>7. CallsHaveResults(t, c, Len(t))
  <2> SUFFICES ASSUME NEW i \in 1..Len(t), t[i].id \notin c, NEW k \in 1..Len(t[i].calls)
               PROVE  i + k <= Len(t) /\ t[i + k].role = "tool" /\ t[i + k].call = <<t[i].id, k>>
    BY DEF CallsHaveResults
  <2>1. t[i].calls # <<>>
    BY <1>1, CallsAreSeq
  <2>2. i \in 1..Len(s)
    BY <1>3, <2>1
  <2> QED BY <1>1, <2>2 DEF CallsHaveResults
<1> QED BY <1>5, <1>6, <1>7 DEF t

\* A new round, under an identifier of its own, leaves the older ones paired.
LEMMA RoundStartsPaired ==
    ASSUME NEW s \in Seq(Message), NEW m \in Message, NEW c, NEW a \in Nat,
           CallersInOrder(s, a), ResultsHaveCalls(s), CallsHaveResults(s, c, Len(s)),
           m.role = "assistant", m.id = a + 1
    PROVE  LET t == Append(s, m) IN
           /\ CallersInOrder(t, a + 1) /\ ResultsHaveCalls(t) /\ CallsHaveResults(t, c, Len(t) - 1)
           /\ t # <<>> /\ Last(t) = m
           /\ m.calls = <<>> => CallsHaveResults(t, c, Len(t))
<1> DEFINE more == <<m>>
           t == s \o more
<1>0. more \in Seq(Message) /\ Len(more) = 1 /\ more[1] = m /\ Append(s, m) = t
  OBVIOUS
<1> HIDE DEF more
<1>1. /\ t \in Seq(Message) /\ Len(t) = Len(s) + 1
      /\ \A i \in 1..Len(s) : t[i] = s[i]
      /\ t[Len(s) + 1] = m
      /\ \A j \in 1..Len(s) : t[j].role = "tool" => HasCall(t, j)
      /\ CallsHaveResults(t, c, Len(s))
  <2>1. Len(s) \in Int /\ Len(s) <= Len(s) /\ 1 \in 1..Len(more)
    BY <1>0
  <2> HIDE DEF t
  <2>2. /\ t \in Seq(Message) /\ Len(t) = Len(s) + Len(more)
        /\ \A i \in 1..Len(s) : t[i] = s[i]
        /\ \A k \in 1..Len(more) : t[Len(s) + k] = more[k]
        /\ \A j \in 1..Len(s) : t[j].role = "tool" => HasCall(t, j)
        /\ CallsHaveResults(t, c, Len(s))
    BY <1>0, <2>1, OldStayPaired DEF t
  <2> QED BY <1>0, <2>1, <2>2
<1> HIDE DEF t
<1>2. Len(s) \in Nat /\ \A i \in 1..Len(t) : i \in 1..Len(s) \/ i = Len(s) + 1
  BY <1>1
<1>3. \A i \in Callers(t) : (i \in Callers(s) /\ t[i] = s[i]) \/ (i = Len(s) + 1 /\ t[i] = m)
  BY <1>1, <1>2 DEF Callers
<1>4. \A i \in Callers(s) : s[i].id \in Nat /\ s[i].id <= a /\ i <= Len(s) /\ s[i].role = "assistant"
  BY CallsAreSeq DEF Callers, CallersInOrder
<1>5. CallersInOrder(t, a + 1)
  <2>1. \A i \in Callers(t) : t[i].role = "assistant" /\ t[i].id <= a + 1
    BY <1>3, <1>4
  <2>2. ASSUME NEW i \in Callers(t), NEW j \in Callers(t), i < j PROVE t[i].id < t[j].id
    <3>1. i \in Callers(s) /\ t[i] = s[i]
      <4>1. j <= Len(s) + 1 /\ j \in Int /\ i \in Int
        BY <1>2, <1>3 DEF Callers
      <4>2. i # Len(s) + 1
        BY <1>2, <2>2, <4>1
      <4> QED BY <1>3, <4>2
    <3>2. CASE j \in Callers(s) /\ t[j] = s[j]
      BY <2>2, <3>1, <3>2 DEF CallersInOrder
    <3>3. CASE t[j] = m
      BY <1>4, <3>1, <3>3
    <3> QED BY <1>3, <3>2, <3>3
  <2> QED BY <2>1, <2>2 DEF CallersInOrder
<1>6. ResultsHaveCalls(t)
  BY <1>1, <1>2 DEF ResultsHaveCalls
<1>7. t # <<>> /\ Last(t) = m /\ Len(t) - 1 = Len(s)
  BY <1>1, <1>2 DEF Last
<1>8. ASSUME m.calls = <<>> PROVE CallsHaveResults(t, c, Len(t))
  <2> SUFFICES ASSUME NEW i \in 1..Len(t), t[i].id \notin c, NEW k \in 1..Len(t[i].calls)
               PROVE  i + k <= Len(t) /\ t[i + k].role = "tool" /\ t[i + k].call = <<t[i].id, k>>
    BY DEF CallsHaveResults
  <2>1. t[i].calls # <<>>
    BY <1>1, CallsAreSeq
  <2>2. i \in 1..Len(s)
    BY <1>1, <1>2, <1>8, <2>1
  <2> QED BY <1>1, <2>2 DEF CallsHaveResults
<1> QED BY <1>0, <1>1, <1>5, <1>6, <1>7, <1>8 DEF t

\* The results of the last message's calls, in their order, complete its round.
LEMMA ResultsArePaired ==
    ASSUME NEW s \in Seq(Message), s # <<>>, NEW more \in Seq(Message), NEW c,
           NEW a \in Nat, NEW b \in Nat, a <= b,
           CallersInOrder(s, a), ResultsHaveCalls(s), CallsHaveResults(s, c, Len(s) - 1),
           Len(more) = Len(Last(s).calls),
           \A k \in 1..Len(more) : /\ more[k].role = "tool" /\ more[k].calls = <<>>
                                   /\ more[k].call = <<Last(s).id, k>>
    PROVE  LET t == s \o more IN
           CallersInOrder(t, b) /\ ResultsHaveCalls(t) /\ CallsHaveResults(t, c, Len(t))
<1> DEFINE t == s \o more
           l == Len(s)
<1>0. l \in Nat /\ l >= 1 /\ l = Len(s) /\ Last(s) = s[l] /\ Len(more) \in Nat
  BY DEF Last
<1>1. /\ t \in Seq(Message) /\ Len(t) = l + Len(more)
      /\ \A i \in 1..l : t[i] = s[i]
      /\ \A k \in 1..Len(more) : t[l + k] = more[k]
      /\ \A i \in 1..Len(t) : i \in 1..l \/ i - l \in 1..Len(more)
      /\ \A j \in 1..l : t[j].role = "tool" => HasCall(t, j)
      /\ CallsHaveResults(t, c, l - 1)
  <2>1. Len(s) - 1 \in Int /\ Len(s) - 1 <= Len(s)
    BY <1>0
  <2> HIDE DEF t
  <2>2. /\ t \in Seq(Message) /\ Len(t) = Len(s) + Len(more)
        /\ \A i \in 1..Len(s) : t[i] = s[i]
        /\ \A k \in 1..Len(more) : t[Len(s) + k] = more[k]
        /\ \A i \in 1..Len(t) : i \in 1..Len(s) \/ i - Len(s) \in 1..Len(more)
        /\ \A j \in 1..Len(s) : t[j].role = "tool" => HasCall(t, j)
        /\ CallsHaveResults(t, c, Len(s) - 1)
    <3> DEFINE n == Len(s) - 1
    <3>1. n \in Int /\ n <= Len(s) /\ CallsHaveResults(s, c, n)
      BY <2>1
    <3> HIDE DEF n
    <3>2. /\ t \in Seq(Message) /\ Len(t) = Len(s) + Len(more)
          /\ \A i \in 1..Len(s) : t[i] = s[i]
          /\ \A k \in 1..Len(more) : t[Len(s) + k] = more[k]
          /\ \A i \in 1..Len(t) : i \in 1..Len(s) \/ i - Len(s) \in 1..Len(more)
          /\ \A j \in 1..Len(s) : t[j].role = "tool" => HasCall(t, j)
          /\ CallsHaveResults(t, c, n)
      BY <3>1, OldStayPaired DEF t
    <3> QED BY <3>2 DEF n
  <2> QED BY <2>2
<1> HIDE DEF t, l
<1>2. \A k \in 1..Len(more) : /\ t[l + k].role = "tool" /\ t[l + k].calls = <<>>
                              /\ t[l + k].call = <<t[l].id, k>>
  <2>1. t[l] = Last(s)
    BY <1>0, <1>1
  <2> QED BY <1>1, <2>1
<1>3. Len(t[l].calls) = Len(more)
  BY <1>0, <1>1
<1>4. \A i \in 1..Len(t) : i \in 1..l \/ \E k \in 1..Len(more) : i = l + k
  <2> TAKE i \in 1..Len(t)
  <2>1. CASE i - l \in 1..Len(more)
    <3>1. l + (i - l) = i
      BY <1>0
    <3> QED BY <2>1, <3>1
  <2> QED BY <1>1, <2>1
<1>5. CallersInOrder(t, b)
  <2>1. \A i \in Callers(t) : i \in Callers(s) /\ t[i] = s[i]
    BY <1>1, <1>2, <1>4 DEF Callers, l
  <2>2. \A i \in Callers(s) : s[i].id \in Nat
    BY CallsAreSeq DEF Callers
  <2> QED BY <2>1, <2>2 DEF CallersInOrder
<1>6. ResultsHaveCalls(t)
  <2> SUFFICES ASSUME NEW j \in 1..Len(t), t[j].role = "tool"
               PROVE  HasCall(t, j)
    BY DEF ResultsHaveCalls
  <2>1. CASE j \in 1..l
    BY <1>1, <2>1
  <2>2. ASSUME NEW k \in 1..Len(more), j = l + k
        PROVE  HasCall(t, j)
    <3>1. l \in 1..(j - 1) /\ j - l = k
      BY <1>0, <2>2
    <3>2. j - l <= Len(t[l].calls) /\ t[j].call = <<t[l].id, j - l>>
      BY <1>0, <1>2, <1>3, <2>2, <3>1
    <3>3. ASSUME NEW d \in (l + 1)..j PROVE t[d].role = "tool"
      <4>1. d - l \in 1..Len(more) /\ l + (d - l) = d
        BY <1>0, <2>2
      <4> QED BY <1>2, <4>1
    <3> QED BY <3>1, <3>2, <3>3 DEF HasCall
  <2> QED BY <1>4, <2>1, <2>2
<1>7. CallsHaveResults(t, c, Len(t))
  <2> SUFFICES ASSUME NEW i \in 1..Len(t), t[i].id \notin c, NEW k \in 1..Len(t[i].calls)
               PROVE  i + k <= Len(t) /\ t[i + k].role = "tool" /\ t[i + k].call = <<t[i].id, k>>
    BY DEF CallsHaveResults
  <2>1. t[i].calls # <<>>
    BY <1>1, CallsAreSeq
  <2>2. i \in 1..l
    BY <1>2, <1>4, <2>1
  <2>3. CASE i = l
    <3>1. k \in 1..Len(more)
      BY <1>3, <2>3
    <3> QED BY <1>0, <1>1, <1>2, <2>3, <3>1
  <2>4. CASE i # l
    <3>1. i \in 1..(l - 1)
      BY <1>0, <2>2, <2>4
    <3> QED BY <1>1, <3>1 DEF CallsHaveResults
  <2> QED BY <2>3, <2>4
<1> QED BY <1>5, <1>6, <1>7 DEF t

\* What a compaction leaves is paired, when it ends where a round does.
LEMMA CompactedStaysPaired ==
    ASSUME NEW s \in Seq(Message), NEW t \in Seq(Message), NEW p \in Nat, NEW c, NEW a \in Nat,
           1 <= p, p < Len(s),
           Len(t) = Len(s) - p + 1,
           \A i \in 1..2 : t[i].role # "tool" /\ t[i].calls = <<>>,
           \A j \in (p + 2)..Len(s) : j - p + 1 \in 3..Len(t) /\ t[j - p + 1] = s[j],
           \A i \in 3..Len(t) : i + p - 1 \in (p + 2)..Len(s) /\ t[i] = s[i + p - 1],
           CallersInOrder(s, a), ResultsHaveCalls(s), CallsHaveResults(s, c, Len(s)),
           p + 2 <= Len(s) => s[p + 2].role # "tool"
    PROVE  CallersInOrder(t, a) /\ ResultsHaveCalls(t) /\ CallsHaveResults(t, c, Len(t))
<1>1. Len(s) \in Nat /\ Len(t) \in Nat /\ Len(t) >= 2
  OBVIOUS
<1>2. \A i \in 1..Len(t) : i \in 1..2 \/ i \in 3..Len(t)
  BY <1>1
<1>3. \A i \in 3..Len(t) : i + p - 1 \in 1..Len(s)
  BY <1>1
<1>4. \A i \in Callers(t) : i \in 3..Len(t) /\ i + p - 1 \in Callers(s) /\ t[i] = s[i + p - 1]
  BY <1>2, <1>3 DEF Callers
<1>5. CallersInOrder(t, a)
  <2>1. \A i \in Callers(t) : t[i].role = "assistant" /\ t[i].id <= a
    BY <1>4 DEF CallersInOrder
  <2>2. ASSUME NEW i \in Callers(t), NEW j \in Callers(t), i < j PROVE t[i].id < t[j].id
    <3>1. i + p - 1 < j + p - 1
      BY <1>4, <2>2
    <3> QED BY <1>4, <3>1 DEF CallersInOrder
  <2> QED BY <2>1, <2>2 DEF CallersInOrder
<1>6. ASSUME NEW j \in 1..Len(t), t[j].role = "tool"
      PROVE  HasCall(t, j)
  <2> DEFINE u == j + p - 1
  <2>1. j \in 3..Len(t) /\ u \in (p + 2)..Len(s) /\ t[j] = s[u]
    BY <1>2, <1>6
  <2>2. PICK v \in 1..(u - 1) :
           /\ u - v <= Len(s[v].calls) /\ s[u].call = <<s[v].id, u - v>>
           /\ \A k \in (v + 1)..u : s[k].role = "tool"
    <3>1. u \in 1..Len(s) /\ s[u].role = "tool"
      BY <1>1, <1>6, <2>1
    <3> HIDE DEF u
    <3> QED BY <3>1 DEF ResultsHaveCalls, HasCall
  <2>3. v \in (p + 2)..Len(s)
    <3>1. ~(v < p + 2)
      <4> SUFFICES ASSUME v < p + 2 PROVE FALSE
        OBVIOUS
      <4>1. p + 2 \in (v + 1)..u /\ p + 2 <= Len(s)
        BY <1>1, <2>1
      <4> QED BY <2>2, <4>1
    <3> QED BY <1>1, <2>1, <3>1
  <2> DEFINE i == v - p + 1
  <2>4. i \in 3..Len(t) /\ t[i] = s[v]
    BY <2>3
  <2>5. i \in 1..(j - 1) /\ j - i = u - v
    BY <1>1, <2>1, <2>3, <2>4
  <2>6. ASSUME NEW k \in (i + 1)..j PROVE t[k].role = "tool"
    <3>1. k \in 3..Len(t) /\ k + p - 1 \in (v + 1)..u
      BY <1>1, <2>1, <2>3, <2>4
    <3> QED BY <2>2, <3>1
  <2> HIDE DEF i, u
  <2> QED BY <2>1, <2>2, <2>4, <2>5, <2>6 DEF HasCall
<1>7. ASSUME NEW i \in 1..Len(t), t[i].id \notin c, NEW k \in 1..Len(t[i].calls)
      PROVE  i + k <= Len(t) /\ t[i + k].role = "tool" /\ t[i + k].call = <<t[i].id, k>>
  <2> DEFINE u == i + p - 1
  <2>1. t[i].calls # <<>>
    BY CallsAreSeq
  <2>2. i \in 3..Len(t) /\ u \in (p + 2)..Len(s) /\ u \in 1..Len(s) /\ t[i] = s[u]
    BY <1>2, <1>3, <2>1
  <2>3. u + k <= Len(s) /\ s[u + k].role = "tool" /\ s[u + k].call = <<s[u].id, k>>
    <3> HIDE DEF u
    <3> QED BY <1>7, <2>2 DEF CallsHaveResults
  <2>4. Len(s[u].calls) \in Nat
    BY <2>2, CallsAreSeq
  <2>5. i + k \in 3..Len(t) /\ (i + k) + p - 1 = u + k
    BY <1>1, <2>2, <2>3, <2>4
  <2> HIDE DEF u
  <2>6. t[i + k] = s[(i + k) + p - 1]
    BY <2>5
  <2>7. t[i + k] = s[u + k] /\ i + k <= Len(t)
    BY <1>1, <2>5, <2>6
  <2> QED BY <2>2, <2>3, <2>7
<1> QED BY <1>5, <1>6, <1>7 DEF ResultsHaveCalls, CallsHaveResults

LEMMA CompactStaysPaired ==
    ASSUME HistoryInv, PairedInv, at \in {"summarizing", "intent"}, NEW learnt \in SUBSET Nat,
           NEW intent \in {"none", "text", "blank"}, Compact(learnt, intent),
           born' = born, cut' = cut
    PROVE  PairedInv'
<1>0. PICK kept, note \in Message : CompactsTo(kept, note, learnt, intent)
  BY CompactReplaces
<1>1. /\ kept.role = "user" /\ kept.calls = hist[1].calls
      /\ note.role = "assistant" /\ note.calls = <<>>
      /\ hist' \in Seq(Message) /\ Len(hist') = Len(hist) - Len(plan) + 1
      /\ hist'[1] = kept /\ hist'[2] = note
      /\ \A j \in (Len(plan) + 2)..Len(hist) :
            j - Len(plan) + 1 \in 3..Len(hist') /\ hist'[j - Len(plan) + 1] = hist[j]
      /\ \A i \in 3..Len(hist') :
            i + Len(plan) - 1 \in (Len(plan) + 2)..Len(hist) /\ hist'[i] = hist[i + Len(plan) - 1]
      /\ at' = "calling"
  BY <1>0 DEF CompactsTo
<1>2. /\ hist \in Seq(Message) /\ born \in Nat /\ Len(plan) \in Nat
      /\ 1 <= Len(plan) /\ Len(plan) < Len(hist)
  BY DEF HistoryInv, HistoryTypes, PlanStands
<1>3. /\ CallersInOrder(hist, born) /\ ResultsHaveCalls(hist) /\ CallsHaveResults(hist, cut, Len(hist))
      /\ Len(plan) + 2 <= Len(hist) => hist[Len(plan) + 2].role # "tool"
  BY DEF PairedInv
<1>4. hist[1].calls = <<>>
  <2>1. hist[1].role = "user" /\ 1 \in 1..Len(hist)
    BY <1>2 DEF HistoryInv, SummaryIsSecond
  <2> QED BY <1>3, <2>1 DEF CallersInOrder, Callers
<1>5. \A i \in 1..2 : hist'[i].role # "tool" /\ hist'[i].calls = <<>>
  <2>1. \A i \in 1..2 : i = 1 \/ i = 2
    OBVIOUS
  <2> QED BY <1>1, <1>4, <2>1
<1>6. /\ CallersInOrder(hist', born) /\ ResultsHaveCalls(hist')
      /\ CallsHaveResults(hist', cut, Len(hist'))
  <2> DEFINE new == hist'
             p == Len(plan)
  <2>1. /\ new \in Seq(Message) /\ p \in Nat /\ 1 <= p /\ p < Len(hist)
        /\ Len(new) = Len(hist) - p + 1
        /\ \A i \in 1..2 : new[i].role # "tool" /\ new[i].calls = <<>>
        /\ \A j \in (p + 2)..Len(hist) : j - p + 1 \in 3..Len(new) /\ new[j - p + 1] = hist[j]
        /\ \A i \in 3..Len(new) : i + p - 1 \in (p + 2)..Len(hist) /\ new[i] = hist[i + p - 1]
        /\ p + 2 <= Len(hist) => hist[p + 2].role # "tool"
    BY <1>1, <1>2, <1>3, <1>5
  <2> HIDE DEF new, p
  <2>2. CallersInOrder(new, born) /\ ResultsHaveCalls(new) /\ CallsHaveResults(new, cut, Len(new))
    BY <1>2, <1>3, <2>1, CompactedStaysPaired
  <2> QED BY <2>2 DEF new
<1> QED BY <1>1, <1>6 DEF PairedInv

LEMMA StillPaired ==
    ASSUME PairedInv, hist' = hist, born' = born,
           \/ at' = at /\ cut' = cut /\ plan' = plan /\ Len(results') = Len(results)
           \/ /\ at # "tools" /\ cut' = cut
              /\ \/ at' \notin {"tools", "summarizing", "intent"}
                 \/ at = "summarizing" /\ at' = "intent" /\ plan' = plan
           \/ at = "tools" /\ at' = "idle" /\ cut' = cut \cup {Last(hist).id}
    PROVE  PairedInv'
<1>1. CASE at' = at /\ cut' = cut /\ plan' = plan /\ Len(results') = Len(results)
  BY <1>1 DEF PairedInv
<1>2. CASE /\ at # "tools" /\ cut' = cut
           /\ \/ at' \notin {"tools", "summarizing", "intent"}
              \/ at = "summarizing" /\ at' = "intent" /\ plan' = plan
  BY <1>2 DEF PairedInv
<1>3. CASE at = "tools" /\ at' = "idle" /\ cut' = cut \cup {Last(hist).id}
  <2>1. CallsHaveResults(hist, cut, Len(hist) - 1)
    BY <1>3 DEF PairedInv
  <2>2. CallsHaveResults(hist, cut', Len(hist))
    <3> SUFFICES ASSUME NEW i \in 1..Len(hist), hist[i].id \notin cut', NEW k \in 1..Len(hist[i].calls)
                 PROVE  /\ i + k <= Len(hist) /\ hist[i + k].role = "tool"
                        /\ hist[i + k].call = <<hist[i].id, k>>
      BY DEF CallsHaveResults
    <3>1. i # Len(hist)
      BY <1>3 DEF Last
    <3>2. i \in 1..(Len(hist) - 1)
      BY <3>1
    <3> QED BY <1>3, <2>1, <3>2 DEF CallsHaveResults
  <2> QED BY <1>3, <2>2 DEF PairedInv
<1> QED BY <1>1, <1>2, <1>3

LEMMA PlainKeepsPaired ==
    ASSUME HistoryInv, PairedInv, at # "tools", NEW more \in Seq(Message),
           hist' = hist \o more, born' = born + Len(more), cut' = cut,
           \A k \in 1..Len(more) : more[k].role = "user" /\ more[k].calls = <<>>,
           hist' # <<>>, hist'[1].role = "user",
           \/ at' \notin {"tools", "summarizing", "intent"}
           \/ at' = "summarizing" /\ plan' = Compactable(hist') /\ plan' # <<>>
    PROVE  PairedInv'
<1>1. /\ hist \in Seq(Message) /\ born \in Nat /\ Len(more) \in Nat
      /\ CallersInOrder(hist, born) /\ ResultsHaveCalls(hist) /\ CallsHaveResults(hist, cut, Len(hist))
      /\ \A k \in 1..Len(more) : more[k].role # "tool" /\ more[k].calls = <<>>
      /\ born + Len(more) \in Nat /\ born <= born + Len(more)
  BY SMTT(20) DEF HistoryInv, HistoryTypes, PairedInv
<1>2. /\ CallersInOrder(hist', born') /\ ResultsHaveCalls(hist')
      /\ CallsHaveResults(hist', cut', Len(hist'))
  <2> DEFINE t == hist \o more
             b == born + Len(more)
  <2>1. b \in Nat /\ born <= b
    BY <1>1
  <2> HIDE DEF b
  <2>2. CallersInOrder(t, b) /\ ResultsHaveCalls(t) /\ CallsHaveResults(t, cut, Len(t))
    BY <1>1, <2>1, PlainStaysPaired
  <2> QED BY <2>2 DEF b
<1>3. at' = "summarizing" /\ Len(plan') + 2 <= Len(hist') => hist'[Len(plan') + 2].role # "tool"
  <2>1. hist' \in Seq(Message)
    BY <1>1
  <2> QED BY <2>1, CompactableEndsARound
<1> QED BY <1>2, <1>3 DEF PairedInv

LEMMA PairedStarts == Init => PairedInv
  BY DEF Init, PairedInv, CallersInOrder, Callers, ResultsHaveCalls, CallsHaveResults

LEMMA PairedKeeps == HistoryInv /\ PairedInv /\ [Next]_vars => PairedInv'
<1> SUFFICES ASSUME HistoryInv, PairedInv, [Next]_vars PROVE PairedInv'
  OBVIOUS
<1>t. hist \in Seq(Message) /\ plan \in Seq(Message) /\ at \in Stage /\ born \in Nat /\ results \in Seq(Nat)
  BY DEF HistoryInv, HistoryTypes
<1>s. hist # <<>> => hist[1].role = "user"
  BY DEF HistoryInv, SummaryIsSecond
<1>p. ASSUME NEW id \in Nat
      PROVE  LET m == Plain("user", id, 1) IN m \in Message /\ m.role = "user" /\ m.calls = <<>>
  BY PlainIsMessage DEF Plain
<1>1. CASE UserMessage
  <2> DEFINE m == Plain("user", born + 1, 1)
  <2>1. m \in Message /\ m.role = "user" /\ m.calls = <<>>
    <3>1. born + 1 \in Nat
      BY <1>t
    <3> QED BY <1>p, <3>1
  <2> HIDE DEF m
  <2>2. <<m>> \in Seq(Message) /\ <<m>>[1] = m /\ Len(<<m>>) = 1
    BY <2>1
  <2>3. /\ hist' = hist \o <<m>> /\ born' = born + Len(<<m>>) /\ cut' = cut
        /\ at = "idle" /\ at' = "hooks"
    BY <1>1, <1>t, <2>1 DEF UserMessage, m
  <2>4. hist' # <<>> /\ hist'[1].role = "user"
    BY <1>s, <1>t, <2>1, <2>2, <2>3
  <2>5. \A k \in 1..Len(<<m>>) : <<m>>[k].role = "user" /\ <<m>>[k].calls = <<>>
    BY <2>1, <2>2
  <2> QED BY <2>2, <2>3, <2>4, <2>5, PlainKeepsPaired
<1>2. CASE Nudge \/ Stop \/ Delta
  BY <1>2, StillPaired DEF Nudge, Stop, Delta, seen
<1>3. CASE SummaryFails \/ Retry
  BY <1>3, StillPaired DEF SummaryFails, Retry, seen
<1>4. ASSUME NEW b, CallFails(b) PROVE PairedInv'
  BY <1>4, StillPaired DEF CallFails, EndTurn, seen
<1>5. CASE Abandon
  BY <1>5, StillPaired DEF Abandon, EndTurn
<1>6. CASE BeforeModel
  <2> DEFINE extra == IF StopSeen THEN IF nudged THEN 1 ELSE 0
                      ELSE (IF nudged THEN 1 ELSE 0) + (IF Exhausted THEN 1 ELSE 0)
                           + (IF Looping THEN 1 ELSE 0)
             more == [k \in 1..extra |-> Plain("user", born + k, 1)]
  <2>1. extra \in Nat
    OBVIOUS
  <2>2. /\ hist' = hist \o more /\ born' = born + extra /\ cut' = cut /\ at = "hooks"
        /\ \/ at' = "idle" /\ plan' = <<>>
           \/ at' = "calling" /\ plan' = <<>>
           \/ at' = "summarizing" /\ plan' = Compactable(hist') /\ plan' # <<>>
    <3> HIDE DEF StopSeen, Exhausted, Looping
    <3> QED BY <1>6 DEF BeforeModel, EndTurn
  <2> HIDE DEF extra
  <2>3. \A k \in 1..extra : more[k] \in Message /\ more[k].role = "user" /\ more[k].calls = <<>>
    <3>1. \A k \in 1..extra : more[k] = Plain("user", born + k, 1) /\ born + k \in Nat
      BY <1>t, <2>1
    <3> HIDE DEF more
    <3> QED BY <1>p, <3>1
  <2>4. more \in Seq(Message) /\ Len(more) = extra
    BY <2>1, <2>3
  <2> HIDE DEF more
  <2>5. hist # <<>>
    BY <2>2 DEF HistoryInv, SummaryIsSecond
  <2>6. hist' # <<>> /\ hist'[1].role = "user"
    BY <1>s, <1>t, <2>2, <2>4, <2>5
  <2> QED BY <2>2, <2>3, <2>4, <2>6, PlainKeepsPaired
<1>7. ASSUME NEW b \in BOOLEAN, SummaryDone(b) PROVE PairedInv'
  <2> DEFINE learnt == IF b THEN {} ELSE SummarizerInput(plan)
  <2>1. learnt \in SUBSET Nat
    <3>1. \A i \in 1..Len(plan) : plan[i].summary => i = 1
      BY <1>7 DEF SummaryDone, HistoryInv, PlanStands, SummaryIsSecond
    <3> QED BY <1>t, <3>1, AllIsRead
  <2>2. at = "summarizing" /\ born' = born /\ cut' = cut
    BY <1>7 DEF SummaryDone
  <2> HIDE DEF learnt
  <2>3. CASE Compact(learnt, "none")
    BY <2>1, <2>2, <2>3, CompactStaysPaired
  <2>4. CASE at' = "intent" /\ UNCHANGED <<hist, plan, voided>>
    BY <2>2, <2>4, StillPaired
  <2> QED BY <1>7, <2>3, <2>4 DEF SummaryDone, learnt
<1>8. ASSUME NEW intent \in {"none", "text", "blank"}, IntentDone(intent) PROVE PairedInv'
  BY <1>8, CompactStaysPaired DEF IntentDone, HistoryInv
<1>9. ASSUME NEW r \in Reply, Answer(r.calls, r.text) PROVE PairedInv'
  <2> DEFINE note == Plain("user", born + 1, 1)
             m == Plain("assistant", born + 1, 1)
             said == Said(m, r.calls, r.text)
  <2>1. r.calls \in Seq(Tool) /\ r.text \in BOOLEAN /\ born + 1 \in Nat /\ 1 \in Nat
    BY <1>t, ContextAssumption
  <2>2. note \in Message /\ note.role = "user" /\ note.calls = <<>>
    BY <1>p, <2>1
  <2>3. said \in Message /\ said.role = "assistant" /\ said.id = born + 1 /\ said.calls = r.calls
    <3>1. m \in Message /\ m.role = "assistant" /\ m.id = born + 1
      BY <2>1, PlainIsMessage DEF Plain
    <3> HIDE DEF m
    <3>2. said.id = m.id /\ said.calls = r.calls
      BY <3>1 DEF Said, Message
    <3> QED BY <2>1, <3>1, <3>2, SaidIsMessage
  <2>4. hist # <<>> /\ at = "calling" /\ born' = born + 1 /\ cut' = cut
    BY <1>9 DEF Answer, HistoryInv, SummaryIsSecond
  <2>5. \/ hist' = Append(hist, note) /\ at' = "idle"
        \/ hist' = Append(hist, said) /\ at' = "idle" /\ r.calls = <<>>
        \/ hist' = Append(hist, said) /\ at' = "tools" /\ results' = [k \in DOMAIN r.calls |-> 0]
    <3> HIDE DEF StopSeen
    <3> QED BY <1>9 DEF Answer, EndTurn, Said
  <2> HIDE DEF note, said
  <2>6. CASE hist' = Append(hist, note) /\ at' = "idle"
    <3>1. <<note>> \in Seq(Message) /\ <<note>>[1] = note /\ Len(<<note>>) = 1
      BY <2>2
    <3>2. hist' = hist \o <<note>> /\ born' = born + Len(<<note>>)
      BY <1>t, <2>4, <2>6, <3>1
    <3>3. hist' # <<>> /\ hist'[1].role = "user"
      BY <1>s, <1>t, <2>2, <2>4, <2>6
    <3>4. \A k \in 1..Len(<<note>>) : <<note>>[k].role = "user" /\ <<note>>[k].calls = <<>>
      BY <2>2, <3>1
    <3> QED BY <2>4, <2>6, <3>1, <3>2, <3>3, <3>4, PlainKeepsPaired
  <2>7. CASE /\ hist' = Append(hist, said)
             /\ (at' = "idle" /\ r.calls = <<>>) \/ (at' = "tools" /\ results' = [k \in DOMAIN r.calls |-> 0])
    <3>1. /\ CallersInOrder(hist, born) /\ ResultsHaveCalls(hist) /\ CallsHaveResults(hist, cut, Len(hist))
      BY <2>4 DEF PairedInv
    <3>2. /\ CallersInOrder(hist', born + 1) /\ ResultsHaveCalls(hist')
          /\ CallsHaveResults(hist', cut, Len(hist') - 1) /\ hist' # <<>> /\ Last(hist') = said
          /\ said.calls = <<>> => CallsHaveResults(hist', cut, Len(hist'))
      <4> DEFINE t == Append(hist, said)
      <4>1. /\ CallersInOrder(t, born + 1) /\ ResultsHaveCalls(t)
            /\ CallsHaveResults(t, cut, Len(t) - 1) /\ t # <<>> /\ Last(t) = said
            /\ said.calls = <<>> => CallsHaveResults(t, cut, Len(t))
        BY <1>t, <2>3, <3>1, RoundStartsPaired
      <4> HIDE DEF t
      <4>2. hist' = t
        BY <2>7 DEF t
      <4> QED BY <4>1, <4>2
    <3>3. at' = "tools" => Len(results') = Len(Last(hist').calls)
      <4>1. Len([k \in DOMAIN r.calls |-> 0]) = Len(r.calls)
        BY <2>1
      <4> QED BY <2>3, <2>7, <3>2, <4>1
    <3> QED BY <2>3, <2>4, <2>7, <3>2, <3>3 DEF PairedInv
  <2> QED BY <2>5, <2>6, <2>7
<1>10. ASSUME NEW k, NEW size \in Sizes, ToolDone(k, size) PROVE PairedInv'
  <2> DEFINE a == Last(hist)
             done == [results EXCEPT ![k] = Capped(size)]
             more == [j \in DOMAIN done |-> ResultOf(Plain("tool", born + j, done[j]), <<a.id, j>>)]
  <2>1. at = "tools" /\ k \in DOMAIN results /\ cut' = cut /\ plan' = plan
        /\ \/ results' = done /\ UNCHANGED <<hist, at, born>>
           \/ /\ hist' = hist \o more /\ born' = born + Len(done) /\ at' = "hooks"
    BY <1>10 DEF ToolDone, ResultOf
  <2>2. Capped(size) \in Nat
    BY ContextAssumption DEF Capped
  <2>3. done \in Seq(Nat) /\ Len(done) = Len(results)
    BY <1>t, <2>1, <2>2
  <2>4. hist # <<>> /\ a.id \in Nat /\ Len(results) = Len(a.calls)
    <3>1. hist # <<>> /\ Len(results) = Len(a.calls)
      BY <2>1 DEF PairedInv
    <3>2. a \in Message
      BY <1>t, <3>1 DEF Last
    <3>3. \A m \in Message : m.id \in Nat
      BY DEF Message
    <3> QED BY <3>1, <3>2, <3>3
  <2> HIDE DEF done, a
  <2>5. CASE results' = done /\ UNCHANGED <<hist, at, born>>
    BY <2>1, <2>3, <2>5, StillPaired
  <2>6. CASE hist' = hist \o more /\ born' = born + Len(done) /\ at' = "hooks"
    <3>1. ASSUME NEW j \in 1..Len(done)
          PROVE  /\ more[j] \in Message /\ more[j].role = "tool" /\ more[j].calls = <<>>
                 /\ more[j].call = <<a.id, j>>
      <4> DEFINE m == Plain("tool", born + j, done[j])
                 of == <<a.id, j>>
      <4>1. m \in Message /\ m.role = "tool" /\ m.calls = <<>>
        <5>1. born + j \in Nat /\ done[j] \in Nat
          BY <1>t, <2>3
        <5> QED BY <5>1, PlainIsMessage DEF Plain
      <4>2. of \in Seq(Nat)
        BY <2>4
      <4>3. more[j] = ResultOf(m, of)
        BY <2>3
      <4> HIDE DEF m, more, of
      <4>4. ResultOf(m, of).calls = m.calls /\ ResultOf(m, of).call = of
        BY <4>1 DEF ResultOf, Message
      <4>5. LET n == ResultOf(m, of) IN n \in Message /\ n.role = m.role
        BY <4>1, <4>2, ResultIsMessage
      <4> QED BY <4>1, <4>3, <4>4, <4>5 DEF of
    <3>2. more \in Seq(Message) /\ Len(more) = Len(done)
      <4>1. DOMAIN more = 1..Len(done) /\ Len(done) \in Nat
        BY <2>3
      <4>2. more = [j \in 1..Len(done) |-> more[j]]
        BY <4>1
      <4> HIDE DEF more
      <4> QED BY <3>1, <4>1, <4>2
    <3> HIDE DEF more
    <3>3. /\ CallersInOrder(hist, born) /\ ResultsHaveCalls(hist)
          /\ CallsHaveResults(hist, cut, Len(hist) - 1)
      BY <2>1 DEF PairedInv
    <3> DEFINE t == hist \o more
               b == born + Len(done)
    <3>4. b \in Nat /\ born <= b
      BY <1>t, <2>3
    <3>5. /\ Len(more) = Len(Last(hist).calls)
          /\ \A j \in 1..Len(more) : /\ more[j].role = "tool" /\ more[j].calls = <<>>
                                     /\ more[j].call = <<Last(hist).id, j>>
      BY <2>3, <2>4, <3>1, <3>2 DEF a
    <3> HIDE DEF b
    <3>6. CallersInOrder(t, b) /\ ResultsHaveCalls(t) /\ CallsHaveResults(t, cut, Len(t))
      BY <1>t, <2>4, <3>2, <3>3, <3>4, <3>5, ResultsArePaired
    <3> QED BY <2>1, <2>6, <3>6 DEF PairedInv, b
  <2> QED BY <2>1, <2>5, <2>6
<1>11. CASE UNCHANGED vars
  BY <1>11, StillPaired DEF vars, seen
<1> QED
  BY <1>1, <1>2, <1>3, <1>4, <1>5, <1>6, <1>7, <1>8, <1>9, <1>10, <1>11 DEF Next

\* Every provider is sent a request in which results and calls match by identifier,
\* whatever was compacted, stopped or retried.
THEOREM WireMatches == AllSpec => []WireIsMatched
<1>1. AllInit => HistoryInv /\ PairedInv
  BY HistoryStarts, PairedStarts DEF AllInit
<1>2. HistoryInv /\ PairedInv /\ [AllNext]_allVars => HistoryInv' /\ PairedInv'
  BY HistoryKeeps, PairedKeeps, HistorySteps
<1>3. HistoryInv /\ PairedInv => WireIsMatched
  <2> SUFFICES ASSUME HistoryInv, PairedInv, at = "calling",
                      NEW p \in {"anthropic", "openai", "openai_compat"}
               PROVE  Matched(Converted(p, hist)) /\ Answered(Converted(p, hist), cut)
    BY DEF WireIsMatched
  <2>1. /\ hist \in Seq(Message) /\ CallersInOrder(hist, born) /\ ResultsHaveCalls(hist)
        /\ CallsHaveResults(hist, cut, Len(hist))
    BY DEF HistoryInv, HistoryTypes, PairedInv
  <2>2. PICK g \in Seq(Seq(BlockSet)) :
           /\ Len(g) = Len(hist) /\ Blocks(Converted(p, hist)) = FlattenSeq(g)
           /\ \A i \in 1..Len(hist) : Faithful(hist[i], g[i])
    BY <2>1, SentIsFaithful
  <2> QED BY <2>1, <2>2, FaithfulIsMatched
<1> QED BY <1>1, <1>2, <1>3, PTL DEF AllSpec

\* The run of results that ends before j starts where HasCall says.
LEMMA FollowsItsCall ==
    ASSUME NEW s \in Seq(Message), NEW j \in 1..Len(s), NEW i \in 1..(j - 1),
           s[i].role # "tool", \A k \in (i + 1)..j : s[k].role = "tool"
    PROVE  Follows(s, j) = i
<1> DEFINE Fits(m) == /\ m = 0 \/ s[m].role # "tool"
                      /\ \A k \in (m + 1)..(j - 1) : s[k].role = "tool"
<1>1. i \in 0..(j - 1) /\ Fits(i)
  OBVIOUS
<1>2. ASSUME NEW m \in 0..(j - 1), Fits(m) PROVE m = i
  <2>1. ~(m < i)
    <3> SUFFICES ASSUME m < i PROVE FALSE
      OBVIOUS
    <3>1. i \in (m + 1)..(j - 1)
      OBVIOUS
    <3> QED BY <1>2, <3>1
  <2>2. ~(i < m)
    <3> SUFFICES ASSUME i < m PROVE FALSE
      OBVIOUS
    <3>1. m \in (i + 1)..j /\ m # 0
      OBVIOUS
    <3> QED BY <1>2, <3>1
  <2> QED BY <2>1, <2>2
<1>3. Follows(s, j) = CHOOSE m \in 0..(j - 1) : Fits(m)
  BY DEF Follows
<1> HIDE DEF Fits
<1> QED BY <1>1, <1>2, <1>3

\* Whatever is sent starts with the user, and pairs each result with its call by
\* place and identifier, before any provider's conversion.
THEOREM SentIsPaired == AllSpec => []SentIsWellFormed
<1>1. AllInit => HistoryInv /\ PairedInv
  BY HistoryStarts, PairedStarts DEF AllInit
<1>2. HistoryInv /\ PairedInv /\ [AllNext]_allVars => HistoryInv' /\ PairedInv'
  BY HistoryKeeps, PairedKeeps, HistorySteps
<1>3. HistoryInv /\ PairedInv => SentIsWellFormed
  <2> SUFFICES ASSUME HistoryInv, PairedInv, at = "calling" PROVE CallsAreAnswered(hist)
    BY DEF SentIsWellFormed
  <2>1. /\ hist \in Seq(Message) /\ CallersInOrder(hist, born) /\ ResultsHaveCalls(hist)
        /\ CallsHaveResults(hist, cut, Len(hist)) /\ (hist # <<>> => hist[1].role = "user")
    BY DEF HistoryInv, HistoryTypes, PairedInv, SummaryIsSecond
  <2>2. ASSUME NEW j \in DOMAIN hist, hist[j].role = "tool"
        PROVE  /\ Follows(hist, j) > 0 /\ hist[Follows(hist, j)].id = hist[j].call[1]
               /\ j - Follows(hist, j) = hist[j].call[2]
    <3>1. PICK i \in 1..(j - 1) :
             /\ j - i <= Len(hist[i].calls) /\ hist[j].call = <<hist[i].id, j - i>>
             /\ \A k \in (i + 1)..j : hist[k].role = "tool"
      <4>1. j \in 1..Len(hist) /\ HasCall(hist, j)
        BY <2>1, <2>2 DEF ResultsHaveCalls
      <4> QED BY <4>1 DEF HasCall
    <3>2. i \in 1..Len(hist) /\ j \in 1..Len(hist)
      BY <2>1
    <3>3. hist[i].calls # <<>>
      BY <2>1, <3>1, <3>2, CallsAreSeq
    <3>4. hist[i].role # "tool"
      BY <2>1, <3>2, <3>3 DEF CallersInOrder, Callers
    <3>5. Follows(hist, j) = i
      BY <2>1, <3>1, <3>2, <3>4, FollowsItsCall
    <3> QED BY <3>1, <3>5
  <2>3. ASSUME NEW i \in DOMAIN hist, hist[i].id \notin cut, NEW k \in DOMAIN hist[i].calls
        PROVE  i + k \in DOMAIN hist /\ hist[i + k].call = <<hist[i].id, k>>
    <3>1. i \in 1..Len(hist) /\ Len(hist) \in Nat
      BY <2>1
    <3>2. k \in 1..Len(hist[i].calls)
      <4>1. hist[i] \in Message
        BY <2>1, <3>1
      <4>2. hist[i].calls \in Seq(Tool)
        BY <4>1 DEF Message
      <4> QED BY <2>3, <4>2
    <3> QED BY <2>1, <2>3, <3>1, <3>2 DEF CallsHaveResults
  <2> QED BY <2>1, <2>2, <2>3 DEF CallsAreAnswered
<1> QED BY <1>1, <1>2, <1>3, PTL DEF AllSpec
=============================================================================
