---------------------------- MODULE AgentDisplays ----------------------------
(***************************************************************************)
(* The displays of the desktop agents (src/tools/desktop/_lifecycle.py):   *)
(* numbers are taken and given back under a lock, the processes on them    *)
(* are started and ended outside it. Ports and resolutions are left out.   *)
(***************************************************************************)
EXTENDS Integers, Sequences

CONSTANTS
    Agent,        \* agents with a display of their own
    Base,         \* agent_display_base
    None

ASSUME BaseAssumption == Base \in Nat /\ None \notin Nat

VARIABLES
    owner,        \* _active_displays: the display of each agent
    free,         \* _free_displays, a stack
    next,         \* _next_display_num
    agent,        \* what each agent is doing, on which display
    running       \* observed: which agent's Xvfb runs on which display

vars == <<owner, free, next, agent, running>>

Init ==
    /\ owner = [a \in Agent |-> None] /\ free = <<>> /\ next = Base
    /\ agent = [a \in Agent |-> [at |-> "idle", on |-> None]]
    /\ running = {}

Take(a, d) ==
    /\ owner' = [owner EXCEPT ![a] = d]
    /\ agent' = [agent EXCEPT ![a] = [at |-> "starting", on |-> d]]

\* Slip: the recycled number stays on the stack.
AllocateKept(a) ==
    /\ agent[a].at = "idle"
    /\ IF free # <<>> THEN Take(a, free[Len(free)]) /\ UNCHANGED next
       ELSE Take(a, next) /\ next' = next + 1
    /\ UNCHANGED <<free, running>>
(* allocate_display, under the lock: a number given back, or the next one. *)
Allocate(a) ==
    /\ agent[a].at = "idle"
    /\ IF free # <<>>
       THEN Take(a, free[Len(free)]) /\ free' = SubSeq(free, 1, Len(free) - 1) /\ UNCHANGED next
       ELSE Take(a, next) /\ next' = next + 1 /\ UNCHANGED free
    /\ UNCHANGED running

(* start_agent_desktop: an Xvfb on the display, unless one runs there; a   *)
(* start that fails releases the display just as an agent that ends does.  *)
StartAgent(a) ==
    /\ agent[a].at = "starting"
    /\ running' = IF \E b \in Agent : <<agent[a].on, b>> \in running THEN running
                  ELSE running \cup {<<agent[a].on, a>>}
    /\ agent' = [agent EXCEPT ![a].at = "working"]
    /\ UNCHANGED <<owner, free, next>>

(* release_display: the number is free before its processes are ended, and *)
(* the pkill ends whatever runs on that display by then.                   *)
Release(a) ==
    /\ agent[a].at = "working"
    /\ owner' = [owner EXCEPT ![a] = None] /\ free' = Append(free, owner[a])
    /\ agent' = [agent EXCEPT ![a].at = "clearing"]
    /\ UNCHANGED <<next, running>>
Clear(a) ==
    /\ agent[a].at = "clearing"
    /\ running' = {r \in running : r[1] # agent[a].on}
    /\ agent' = [agent EXCEPT ![a] = [at |-> "idle", on |-> None]]
    /\ UNCHANGED <<owner, free, next>>

Next == \E a \in Agent : Allocate(a) \/ StartAgent(a) \/ Release(a) \/ Clear(a)
Spec == Init /\ [][Next]_vars

-----------------------------------------------------------------------------
TypeOK ==
    /\ owner \in [Agent -> Nat \cup {None}] /\ free \in Seq(Nat) /\ next \in Nat
    /\ agent \in [Agent -> [at : {"idle", "starting", "working", "clearing"},
                            on : Nat \cup {None}]]
    /\ running \subseteq Nat \X Agent

(* A display number is one agent's or free, never both, whatever order     *)
(* agents take and give them back in (_active_displays, _free_displays).   *)
DisplaysAreExclusive ==
    /\ \A a, b \in Agent : owner[a] = owner[b] /\ owner[a] # None => a = b
    /\ \A i \in 1..Len(free) : \A a \in Agent : owner[a] # free[i]
    /\ \A i, j \in 1..Len(free) : free[i] = free[j] => i = j

(* An agent's Xvfb runs until it gives its display back.                   *)
AgentKeepsItsDesktop ==
    \A a \in Agent : agent[a].at = "working" => <<agent[a].on, a>> \in running
=============================================================================
