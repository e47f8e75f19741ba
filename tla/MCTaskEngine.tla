---------------------------- MODULE MCTaskEngine ----------------------------
(***************************************************************************)
(* Instances of TaskEngine for TLC.                                        *)
(***************************************************************************)
EXTENDS TaskEngine

Draft(n, d) == [size |-> n, deps |-> [t \in Task |-> IF t \in DOMAIN d THEN d[t] ELSE {}]]

Single      == Draft(1, <<>>)
Chain       == Draft(2, <<{}, {1}>>)
Independent == Draft(2, <<{}, {}>>)
Backwards   == Draft(2, <<{2}, {}>>)
Selfish     == Draft(2, <<{}, {2}>>)

\* What agents send: forward references are refused, a task that depends on
\* itself is accepted and never becomes ready.
AllDrafts   == {Chain, Independent, Selfish, Backwards}
ShortDrafts == {Single, Chain}
SingleTask  == {Single}

RunRequests == {"trigger", "delete_run"}
AllRequests == {"pause_goal", "pause_runner", "trigger", "delete_goal", "delete_run"}
Pauses      == {"pause_runner"}
Deletions   == {"delete_run"}
NoRequests  == {}

(***************************************************************************)
(* The cascade as the loop in update_run_status computes it: rounds over   *)
(* the pending results, each failing those with a failed dependency, until *)
(* a round changes nothing.  TLC compares it with Cascade on all inputs.   *)
(***************************************************************************)
RECURSIVE CascadeLoop(_, _)
CascadeLoop(res, deps) ==
    LET hit == {t \in In(res, {"pending"}) : deps[t] \cap In(res, {"failed"}) # {}}
    IN  IF hit = {} THEN res
        ELSE CascadeLoop([t \in Task |-> IF t \in hit
                              THEN [res[t] EXCEPT !.status = "failed"] ELSE res[t]],
                         deps)

\* The least set that Cascade fails is what the loop ends with, self and cyclic
\* dependencies included.
ASSUME LoopComputesCascade ==
    \A s \in [Task -> {"pending", "failed", "completed"}], deps \in [Task -> SUBSET Task] :
        LET res == [t \in Task |-> [NoResult EXCEPT !.status = s[t]]]
        IN  CascadeLoop(res, deps) = Cascade(res, deps)
=============================================================================
