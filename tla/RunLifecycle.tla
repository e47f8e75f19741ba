---------------------------- MODULE RunLifecycle ----------------------------
(***************************************************************************)
(* What the task engine promises about a run, whatever files, coroutines,  *)
(* ticks and restarts bring it about: tasks start only after what they     *)
(* depend on, a failure is passed on only along dependencies, a verdict is *)
(* reached only by results that justify it, and a verdict is final.        *)
(***************************************************************************)
CONSTANTS Run, Task

VARIABLES
    status,     \* status[r]: the run's published status
    result,     \* result[r][t]: the state of task t in run r
    deps        \* deps[r][t]: the tasks t waits for

lifecycle == <<status, result, deps>>

In(r, s) == {t \in Task : result[r][t] \in s}
Open(r)  == status[r] \in {"pending", "running"}

Init ==
    /\ status = [r \in Run |-> "absent"]
    /\ result = [r \in Run |-> [t \in Task |-> "absent"]]
    /\ deps = [r \in Run |-> [t \in Task |-> {}]]

Queue(r) ==
    /\ status[r] = "absent"
    /\ status' = [status EXCEPT ![r] = "pending"]
    /\ \E T \in SUBSET Task, d \in [Task -> SUBSET Task] :
        /\ result' = [result EXCEPT ![r] =
                        [t \in Task |-> IF t \in T THEN "pending" ELSE "absent"]]
        /\ deps' = [deps EXCEPT ![r] = d]

Move(r, t, from, to) ==
    /\ Open(r) /\ result[r][t] = from
    /\ result' = [result EXCEPT ![r][t] = to]
    /\ UNCHANGED <<status, deps>>

Start(r, t) == deps[r][t] \subseteq In(r, {"completed"}) /\ Move(r, t, "pending", "running")
Complete(r, t) == Move(r, t, "running", "completed")
Fail(r, t)     == Move(r, t, "running", "failed")
Retry(r, t)    == Move(r, t, "running", "pending")

\* The verdict the results justify.
Verdict(res, v) ==
    LET has(s) == \E t \in Task : res[t] = s IN
    /\ v = "completed" <=> ~has("pending") /\ ~has("running") /\ ~has("failed")
    /\ v = "failed" <=> ~has("pending") /\ ~has("running") /\ has("failed")
    /\ v = "running" <=> has("running")
    /\ v \in {"completed", "failed", "running", "pending"}

\* Publish a status: interrupted tasks I (none, or all that were running) wait
\* again, tasks behind a failure fail, and the run says what its results say.
Publish(r) ==
    /\ Open(r)
    /\ \E I \in {{}, In(r, {"running"})} :
        LET waiting == In(r, {"pending"}) \cup I IN
        \E F \in SUBSET waiting :
            /\ \A t \in waiting :
                  t \in F <=> deps[r][t] \cap (In(r, {"failed"}) \cup F) # {}
            /\ result' = [result EXCEPT ![r] =
                            [t \in Task |-> IF t \in F THEN "failed"
                                            ELSE IF t \in I THEN "pending"
                                            ELSE result[r][t]]]
            /\ \E v \in {"completed", "failed", "running", "pending"} :
                  Verdict(result'[r], v) /\ status' = [status EXCEPT ![r] = v]
    /\ UNCHANGED deps

Forget(r) ==
    /\ status[r] # "absent"
    /\ status' = [status EXCEPT ![r] = "absent"]
    /\ result' = [result EXCEPT ![r] = [t \in Task |-> "absent"]]
    /\ deps' = [deps EXCEPT ![r] = [t \in Task |-> {}]]

Next ==
    \E r \in Run :
        \/ Queue(r) \/ Publish(r) \/ Forget(r)
        \/ \E t \in Task : Start(r, t) \/ Complete(r, t) \/ Fail(r, t) \/ Retry(r, t)

Spec == Init /\ [][Next]_lifecycle
=============================================================================
