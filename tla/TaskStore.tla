------------------------------ MODULE TaskStore ------------------------------
(***************************************************************************)
(* The files of the task engine (src/tasks/_file_store.py) and the pure    *)
(* rules the store applies to them: which pending results a failure        *)
(* blocks, what a run's status is, which results are ready, which          *)
(* recurring goals are due, what a restart changes.                        *)
(*                                                                         *)
(* A goal is one JSON file with its task definitions; a run is one JSON    *)
(* file with one TaskResult per task.  Both are written whole, atomically. *)
(***************************************************************************)
EXTENDS Integers, FiniteSets

CONSTANTS
    MaxGoals,       \* bound: goals ever created
    MaxRuns,        \* bound: runs ever created
    MaxTasks,       \* bound: tasks of a goal
    MaxSlot,        \* bound: times the cron expression fires
    MaxRetries      \* Task.max_retries

ASSUME StoreAssumption ==
    /\ MaxGoals \in Nat \ {0}
    /\ MaxRuns \in Nat \ {0}
    /\ MaxTasks \in Nat \ {0}
    /\ MaxSlot \in Nat
    /\ MaxRetries \in Nat

Goal == 1..MaxGoals         \* goal ids, in order of created_at
Run  == 1..MaxRuns          \* run ids; an id is never used twice
Task == 1..MaxTasks         \* a task is its position in its goal's list
Job  == Run \X Task         \* one TaskResult per run and task

\* A timestamp is the number of cron slots that have begun.
Never == 0 - 1
Time  == 0..MaxSlot
Stamp == Time \cup {Never}

Live     == {"pending", "running"}
Terminal == {"completed", "failed"}
Status   == Live \cup Terminal \cup {"absent"}

Result == [status : Status, retries : 0..MaxRetries, conv : BOOLEAN]

RunFile ==
    [status : Status, goal : Goal, number : Nat, done : Stamp,
     results : [Task -> Result]]

GoalFile ==
    [status : {"absent", "active", "paused"}, cron : BOOLEAN,
     size : 0..MaxTasks, deps : [Task -> SUBSET Task],
     created : Time, spawned : Stamp]

NoDeps   == [t \in Task |-> {}]
NoGoal   == [status |-> "absent", cron |-> FALSE, size |-> 0, deps |-> NoDeps,
             created |-> 0, spawned |-> Never]
NoResult == [status |-> "absent", retries |-> 0, conv |-> FALSE]
NoRun    == [status |-> "absent", goal |-> 1, number |-> 0, done |-> Never,
             results |-> [t \in Task |-> NoResult]]

-----------------------------------------------------------------------------
(* Rules on the results of one run.                                         *)

In(res, s) == {t \in Task : res[t].status \in s}

\* A set of pending tasks that a round of the cascade loop cannot extend.
BlocksAll(res, deps, S) ==
    \A t \in In(res, {"pending"}) :
        deps[t] \cap (In(res, {"failed"}) \cup S) # {} => t \in S

\* What the cascade loop fails: the least such set.
Blocked(res, deps) ==
    {t \in In(res, {"pending"}) :
        \A S \in SUBSET In(res, {"pending"}) : BlocksAll(res, deps, S) => t \in S}

Cascade(res, deps) ==
    [t \in Task |-> IF t \in Blocked(res, deps)
                    THEN [res[t] EXCEPT !.status = "failed"] ELSE res[t]]

\* Slip: a run fails as soon as one of its tasks has.
RunStatusEager(res) ==
    IF In(res, {"failed"}) # {} THEN "failed"
    ELSE IF In(res, {"running"}) # {} THEN "running"
    ELSE IF In(res, {"pending"}) # {} THEN "pending" ELSE "completed"

RunStatus(res) ==
    LET has(s) == In(res, s) # {}
    IN  CASE ~has({"pending", "running", "failed"})  -> "completed"
          [] has({"failed"}) /\ ~has(Live)           -> "failed"
          [] has({"running"})                         -> "running"
          [] OTHER                                   -> "pending"

\* Slip: a task waits only for failures, not for completion.
DepsNotFailed(res, deps, t) == deps[t] \cap In(res, {"failed"}) = {}

DepsCompleted(res, deps, t) == deps[t] \subseteq In(res, {"completed"})

\* Slip: recompute without the cascade.
RolledWithoutCascade(run, deps, now) ==
    LET s == RunStatus(run.results)
    IN  [run EXCEPT !.status = s, !.done = IF s \in Terminal THEN now ELSE @]

\* update_run_status: cascade, then recompute, in one write.
Rolled(run, deps, now) ==
    LET res == Cascade(run.results, deps)
        s   == RunStatus(res)
    IN  [run EXCEPT !.results = res, !.status = s,
                    !.done = IF s \in Terminal THEN now ELSE @]

\* The part of reset_stale_running that touches one run.
Requeued(run) ==
    [t \in Task |-> IF run.results[t].status = "running"
                    THEN [run.results[t] EXCEPT !.status = "pending"]
                    ELSE run.results[t]]

NeedsReset(run, deps) ==
    /\ run.status \in Live
    /\ \/ In(run.results, {"running"}) # {}
       \/ Blocked(Requeued(run), deps) # {}

Reset(run, deps, now) ==
    LET res == Cascade(Requeued(run), deps)
        s   == RunStatus(res)
    IN  [run EXCEPT !.results = res, !.status = s,
                    !.done = IF s = "failed" /\ @ = Never THEN now ELSE @]

-----------------------------------------------------------------------------
(* Rules over all files.                                                    *)

RunsOf(runs, g) == {r \in Run : runs[r].status # "absent" /\ runs[r].goal = g}

\* Slip: a run that waits for its first task does not count.
HasRunning(runs, g) == \E r \in RunsOf(runs, g) : runs[r].status = "running"

InProgress(runs, g) == \E r \in RunsOf(runs, g) : runs[r].status \in Live

\* Slip: one more than the number of runs.
CountedNumber(runs, g, n) == n = Cardinality(RunsOf(runs, g)) + 1

\* queue_run numbers a run one above the highest number in use, from 1.
NextNumber(runs, g, n) ==
    LET used == {runs[r].number : r \in RunsOf(runs, g)} \cup {0}
    IN  n - 1 \in used /\ \A m \in used : m < n

FreshRun(goal, g, n) ==
    [status |-> "pending", goal |-> g, number |-> n, done |-> Never,
     results |-> [t \in Task |->
                    IF t <= goal.size THEN [NoResult EXCEPT !.status = "pending"]
                                      ELSE NoResult]]

\* Slip: a goal that never ran has no anchor to count from.
FiredSinceLastRun(goals, runs, g, now) ==
    LET ended == {r \in RunsOf(runs, g) : runs[r].done # Never}
    IN  ended # {} /\ \A r \in ended : runs[r].done < now

\* Slip: the slot of the anchor itself counts.
FiredAtOrSince(goals, runs, g, now) ==
    \A r \in RunsOf(runs, g) : runs[r].done <= now

\* cron_has_fired_since(anchor): the latest completed_at of the goal's runs,
\* else last_run_spawned_at, else created_at, lies in an earlier slot.
FiredSince(goals, runs, g, now) ==
    LET ended == {r \in RunsOf(runs, g) : runs[r].done # Never}
    IN  IF ended # {} THEN \A r \in ended : runs[r].done < now
        ELSE IF goals[g].spawned # Never THEN goals[g].spawned < now
        ELSE goals[g].created < now

DueGoals(goals, runs, now) ==
    {g \in Goal :
        /\ goals[g].status = "active"
        /\ goals[g].cron
        /\ ~InProgress(runs, g)
        /\ FiredSince(goals, runs, g, now)}

ReadyJobs(goals, runs) ==
    {j \in Job :
        LET run == runs[j[1]] IN
        /\ run.status \in Live
        /\ goals[run.goal].status = "active"
        /\ run.results[j[2]].status = "pending"
        /\ DepsCompleted(run.results, goals[run.goal].deps, j[2])}

\* The order of the ready list: newest goal first, then run number, then task.
Precedes(runs, i, j) ==
    LET a == runs[i[1]]  b == runs[j[1]] IN
    \/ a.goal > b.goal
    \/ a.goal = b.goal /\ a.number < b.number
    \/ i[1] = j[1] /\ i[2] < j[2]

\* commit_goal's rule for one draft, as coded: a task's own key is already in
\* seen_keys when its depends_on is checked.
Accepts(draft) == \A t \in 1..draft.size : draft.deps[t] \subseteq 1..t
=============================================================================
