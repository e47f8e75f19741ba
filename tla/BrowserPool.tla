------------------------------ MODULE BrowserPool ------------------------------
(***************************************************************************)
(* The browser contexts of the agents (src/tools/browser/core/browser.py): *)
(* one Chrome, started when a tool first needs it, and in it one context   *)
(* per conversation and one per sub-agent, which are closed when the       *)
(* conversation leaves the cache of histories and when the sub-agent ends. *)
(* What a context holds is left out.                                       *)
(***************************************************************************)
EXTENDS Naturals, Sequences, FiniteSets

CONSTANTS
    Conv,         \* conversations, whose root agents keep a context
    Sub,          \* sub-agents
    Call,         \* tool calls
    MaxContexts,  \* bound: contexts at once
    MaxChromes,   \* bound: processes at once
    None

VARIABLES
    chromes,      \* Chrome processes that run: numbers
    root,         \* _browser: its process, 0 for None
    pool,         \* _agent_browsers: each key's context, 0 for none
    ctx,          \* each context: "free", "open", "closing", its key, its process
    lock,         \* _agent_browser_lock: the call that holds it
    queue,        \* the calls and the releases that wait for it, in order
    active,       \* the keys whose turn or span goes on
    release,      \* each key: "none", "waiting" for the lock, "closing"
    call,         \* each call: where it is, its key, its process and its context
    shut,         \* close_browser: "no", "waiting", "closing", "closed"
    hooked,       \* whether the spans' exit hook is registered
    left          \* observed: sub-agents that ended with a call under way

pools == <<pool, ctx>>
vars  == <<chromes, root, pool, ctx, lock, queue, active, release, call, shut, hooked, left>>

Key     == Conv \cup Sub
Context == 1..MaxContexts
Free    == [at |-> "free", key |-> None, in |-> 0]
Idle    == [at |-> "idle", key |-> None, in |-> 0, holds |-> 0, orphan |-> FALSE]
Running(k) == {c \in Call : call[c].at # "idle" /\ call[c].key = k}

Init ==
    /\ chromes = {} /\ root = 0
    /\ pool = [k \in Key |-> 0] /\ ctx = [i \in Context |-> Free]
    /\ lock = None /\ queue = <<>> /\ active = {} /\ release = [k \in Key |-> "none"]
    /\ call = [c \in Call |-> Idle] /\ shut = "no" /\ hooked = FALSE /\ left = {}

-----------------------------------------------------------------------------
(* Turns and spans                                                         *)

(* A turn of a conversation, or the span of a sub-agent, which is new.     *)
Enter(k) ==
    /\ k \notin active /\ shut = "no"
    /\ k \in Sub => release[k] = "none" /\ Running(k) = {} /\ pool[k] = 0
    /\ active' = active \cup {k} /\ left' = left \ {k}
    /\ UNCHANGED <<chromes, root, pools, lock, queue, release, call, shut, hooked>>

(* It ends when its calls have, or when a stop that one of them raises     *)
(* makes asyncio.gather return without the others. A span runs its hooks.  *)
Exit(k) ==
    /\ k \in active /\ active' = active \ {k}
    /\ call' = [c \in Call |-> IF c \in Running(k) THEN [call[c] EXCEPT !.orphan = TRUE] ELSE call[c]]
    /\ left' = IF Running(k) # {} THEN left \cup {k} ELSE left
    /\ IF k \in Sub /\ hooked /\ release[k] = "none"
       THEN release' = [release EXCEPT ![k] = "waiting"] /\ queue' = Append(queue, k)
       ELSE UNCHANGED <<release, queue>>
    /\ UNCHANGED <<chromes, root, pools, lock, shut, hooked>>

\* Slip: conversations in the middle of a turn are evicted too.
EvictAny(k) ==
    /\ k \in Conv /\ release[k] = "none"
    /\ release' = [release EXCEPT ![k] = "waiting"] /\ queue' = Append(queue, k)
    /\ UNCHANGED <<chromes, root, pools, lock, active, call, shut, hooked, left>>
(* _evict_lru_conversation, one release of a conversation at a time.       *)
Evict(k) ==
    /\ k \in Conv \ active /\ shut = "no" /\ release[k] = "none"
    /\ release' = [release EXCEPT ![k] = "waiting"] /\ queue' = Append(queue, k)
    /\ UNCHANGED <<chromes, root, pools, lock, active, call, shut, hooked, left>>

-----------------------------------------------------------------------------
(* get_browser                                                             *)

(* _get_root_browser looks whether there is a browser, under no lock;      *)
(* if not, it registers the hook and starts one.                           *)
Ask(c) ==
    /\ call[c].at = "idle" /\ shut # "closed"
    /\ \E k \in active :
          IF root # 0
          THEN /\ call' = [call EXCEPT ![c] = [Idle EXCEPT !.at = "waiting", !.key = k, !.in = root]]
               /\ queue' = Append(queue, c) /\ UNCHANGED hooked
          ELSE /\ call' = [call EXCEPT ![c] = [Idle EXCEPT !.at = "launching", !.key = k]]
               /\ hooked' = TRUE /\ UNCHANGED queue
    /\ UNCHANGED <<chromes, root, pools, lock, active, release, shut, left>>

(* Browser.start, awaited; what it returns is the browser from now on.     *)
NewChrome == CHOOSE n \in 1..MaxChromes : n \notin chromes
Launched(c) ==
    /\ call[c].at = "launching" /\ Cardinality(chromes) < MaxChromes
    /\ chromes' = chromes \cup {NewChrome} /\ root' = NewChrome
    /\ call' = [call EXCEPT ![c].at = "waiting", ![c].in = NewChrome]
    /\ queue' = Append(queue, c)
    /\ UNCHANGED <<pools, lock, active, release, shut, hooked, left>>
LaunchFails(c) ==
    /\ call[c].at = "launching" /\ call' = [call EXCEPT ![c] = Idle]
    /\ UNCHANGED <<chromes, root, pools, lock, queue, active, release, shut, hooked, left>>

Granted(x) == lock = None /\ queue # <<>> /\ Head(queue) = x
Uses(c, i) == call' = [call EXCEPT ![c].at = "using", ![c].holds = i]

\* Slip: the lock is not kept while the context is created.
GetInPassing(c) ==
    /\ Granted(c) /\ queue' = Tail(queue)
    /\ IF pool[call[c].key] # 0 THEN Uses(c, pool[call[c].key])
       ELSE call' = [call EXCEPT ![c].at = "creating"]
    /\ UNCHANGED <<chromes, root, pools, lock, active, release, shut, hooked, left>>
(* Under the lock: the key's context, or one to be created.                *)
Get(c) ==
    /\ Granted(c) /\ queue' = Tail(queue)
    /\ IF pool[call[c].key] # 0 THEN Uses(c, pool[call[c].key]) /\ UNCHANGED lock
       ELSE lock' = c /\ call' = [call EXCEPT ![c].at = "creating"]
    /\ UNCHANGED <<chromes, root, pools, active, release, shut, hooked, left>>

(* start_ephemeral: a context of the process the call found before.        *)
NewContext == CHOOSE i \in Context : ctx[i] = Free
Created(c) ==
    /\ call[c].at = "creating" /\ call[c].in \in chromes
    /\ \E i \in Context : ctx[i] = Free
    /\ ctx' = [ctx EXCEPT ![NewContext] = [at |-> "open", key |-> call[c].key, in |-> call[c].in]]
    /\ pool' = [pool EXCEPT ![call[c].key] = NewContext]
    /\ Uses(c, NewContext) /\ lock' = None
    /\ UNCHANGED <<chromes, root, queue, active, release, shut, hooked, left>>
\* Slip: the lock is not given back when no context could be created.
KeptLock(c) ==
    /\ call[c].at = "creating" /\ call' = [call EXCEPT ![c] = Idle]
    /\ UNCHANGED <<chromes, root, pools, lock, queue, active, release, shut, hooked, left>>
CreateFails(c) ==
    /\ call[c].at = "creating" /\ call' = [call EXCEPT ![c] = Idle]
    /\ lock' = None
    /\ UNCHANGED <<chromes, root, pools, queue, active, release, shut, hooked, left>>

(* The tool returns.                                                       *)
Gone(c, i) == ctx[i].at = "closed" /\ \A d \in Call \ {c} : call[d].holds # i
Return(c) ==
    /\ call[c].at = "using" /\ call' = [call EXCEPT ![c] = Idle]
    /\ ctx' = [i \in Context |-> IF Gone(c, i) THEN Free ELSE ctx[i]]
    /\ UNCHANGED <<chromes, root, pool, lock, queue, active, release, shut, hooked, left>>

-----------------------------------------------------------------------------
(* release_agent_browser: the context leaves the pool under the lock and   *)
(* is closed outside it.                                                   *)

Popped(k) ==
    /\ Granted(k) /\ queue' = Tail(queue)
    /\ pool' = [pool EXCEPT ![k] = 0]
    /\ IF pool[k] = 0 THEN release' = [release EXCEPT ![k] = "none"] /\ UNCHANGED ctx
       ELSE /\ release' = [release EXCEPT ![k] = "closing"]
            /\ ctx' = [ctx EXCEPT ![pool[k]].at = "closing"]
    /\ UNCHANGED <<chromes, root, lock, active, call, shut, hooked, left>>

Closed(i) == IF \E c \in Call : call[c].holds = i THEN [ctx[i] EXCEPT !.at = "closed"] ELSE Free
(* close_context, each step within its limit.                              *)
CloseContext(k) ==
    /\ release[k] = "closing" /\ release' = [release EXCEPT ![k] = "none"]
    /\ ctx' = [i \in Context |-> IF ctx[i].at = "closing" /\ ctx[i].key = k THEN Closed(i) ELSE ctx[i]]
    /\ UNCHANGED <<chromes, root, pool, lock, queue, active, call, shut, hooked, left>>

(* close_browser, when the server stops: the pool first, then the process  *)
(* that is the browser by now.                                             *)
Shutdown ==
    /\ shut = "no" /\ shut' = "waiting" /\ queue' = Append(queue, "shutdown")
    /\ UNCHANGED <<chromes, root, pools, lock, active, release, call, hooked, left>>
ClearPool ==
    /\ Granted("shutdown") /\ queue' = Tail(queue) /\ shut' = "closing"
    /\ pool' = [k \in Key |-> 0]
    /\ ctx' = [i \in Context |-> IF \E k \in Key : pool[k] = i THEN Closed(i) ELSE ctx[i]]
    /\ UNCHANGED <<chromes, root, lock, active, release, call, hooked, left>>
CloseRoot ==
    /\ shut = "closing" /\ shut' = "closed"
    /\ chromes' = chromes \ {root} /\ root' = 0
    /\ UNCHANGED <<pools, lock, queue, active, release, call, hooked, left>>

Next ==
    \/ Shutdown \/ ClearPool \/ CloseRoot
    \/ \E k \in Key : Enter(k) \/ Exit(k) \/ Evict(k) \/ Popped(k) \/ CloseContext(k)
    \/ \E c \in Call : \/ Ask(c) \/ Launched(c) \/ LaunchFails(c) \/ Get(c) \/ Created(c)
                       \/ CreateFails(c) \/ Return(c)

(* Launches, creations and closings end, tools return, and whoever is      *)
(* first in the lock's queue gets it; that turns begin or end is not.      *)
Fairness ==
    /\ \A c \in Call : /\ WF_vars(Launched(c) \/ LaunchFails(c)) /\ WF_vars(Get(c))
                       /\ WF_vars(Created(c) \/ CreateFails(c)) /\ WF_vars(Return(c))
    /\ \A k \in Key : WF_vars(Popped(k)) /\ WF_vars(CloseContext(k))
    /\ WF_vars(ClearPool)
Spec == Init /\ [][Next]_vars /\ Fairness

-----------------------------------------------------------------------------
(* Until the server stops, no context is closed under a call whose turn or *)
(* span goes on: not by the eviction of its conversation, which may have   *)
(* waited for the lock since before the turn, and not by a release.        *)
NotClosedUnderUse ==
    \A c \in Call : call[c].at = "using" /\ ~call[c].orphan /\ shut \in {"no", "waiting"}
        => ctx[call[c].holds].at = "open"

(* A context that is open is the one its key gets next, so an agent never  *)
(* works in two and none is lost; a sub-agent that ended, and left no call *)
(* behind, has none.                                                       *)
NoContextStrays ==
    /\ \A i \in Context : ctx[i].at = "open" => pool[ctx[i].key] = i
    /\ \A k \in Sub \ (active \cup left) : release[k] = "none" => pool[k] = 0

(* Every call gets a context or an error, and every release ends.          *)
GetsEnd == \A c \in Call : []<>(call[c].at \in {"idle", "using"})

(* "Every agent gets its own ephemeral context on the shared Chrome."      *)
SharesOneChrome == chromes \subseteq {root}
(* "Released when the sub-agent completes."                                *)
EndedAgentsHoldNoContext == \A k \in Sub \ active : release[k] = "none" => pool[k] = 0
=============================================================================
