--------------------------- MODULE TaskEngineProofs ---------------------------
(***************************************************************************)
(* Theorems about TaskEngine, for any number of goals, runs, tasks, slots, *)
(* retries and crashes, any drafts and any operator requests.              *)
(***************************************************************************)
EXTENDS TaskEngine, FiniteSetTheorems, TLAPS

-----------------------------------------------------------------------------
(* What the store's rules guarantee for every run and every dependency     *)
(* graph, cycles included.                                                 *)

Results == [Task -> Result]
Graph   == [Task -> SUBSET Task]

\* The blocked set is closed under the loop's rule.
LEMMA BlockedIsClosed ==
    ASSUME NEW res \in Results, NEW deps \in Graph
    PROVE  BlocksAll(res, deps, Blocked(res, deps))
<1> SUFFICES ASSUME NEW t \in In(res, {"pending"}),
                    deps[t] \cap (In(res, {"failed"}) \cup Blocked(res, deps)) # {},
                    NEW S \in SUBSET In(res, {"pending"}),
                    BlocksAll(res, deps, S)
             PROVE  t \in S
    BY DEF BlocksAll, Blocked
<1>1. Blocked(res, deps) \subseteq S
    BY DEF Blocked
<1> QED
    BY <1>1 DEF BlocksAll

\* Each task the cascade fails has a dependency that failed or is blocked.
LEMMA BlockedHasCause ==
    ASSUME NEW res \in Results, NEW deps \in Graph, NEW t \in Blocked(res, deps)
    PROVE  \E d \in deps[t] : d \in In(res, {"failed"}) \cup Blocked(res, deps)
<1> DEFINE B == Blocked(res, deps)
<1>1. B \subseteq In(res, {"pending"}) /\ t \in B
    BY DEF Blocked
<1>2. BlocksAll(res, deps, B)
    BY BlockedIsClosed
<1>3. SUFFICES ASSUME deps[t] \cap (In(res, {"failed"}) \cup B) = {}
               PROVE  FALSE
    BY <1>1 DEF Results, Graph, In
<1>4. BlocksAll(res, deps, B \ {t})
  <2> SUFFICES ASSUME NEW u \in In(res, {"pending"}),
                      deps[u] \cap (In(res, {"failed"}) \cup (B \ {t})) # {}
               PROVE  u \in B \ {t}
    BY DEF BlocksAll
  <2>1. u \in B
    BY <1>2 DEF BlocksAll
  <2>2. u # t
    BY <1>3
  <2> QED
    BY <2>1, <2>2
<1>5. t \in B \ {t}
    BY <1>1, <1>4 DEF Blocked
<1> QED
    BY <1>5

\* A task whose dependencies have all completed is never blocked.
LEMMA ReadyIsNotBlocked ==
    ASSUME NEW res \in Results, NEW deps \in Graph, NEW t \in Task,
           deps[t] \subseteq In(res, {"completed"})
    PROVE  t \notin Blocked(res, deps)
<1> DEFINE S == {u \in In(res, {"pending"}) : ~(deps[u] \subseteq In(res, {"completed"}))}
<1>1. BlocksAll(res, deps, S)
  <2> SUFFICES ASSUME NEW u \in In(res, {"pending"}),
                      deps[u] \cap (In(res, {"failed"}) \cup S) # {},
                      deps[u] \subseteq In(res, {"completed"})
               PROVE  FALSE
    BY DEF BlocksAll
  <2> QED
    BY DEF In
<1>2. S \in SUBSET In(res, {"pending"}) /\ t \notin S
    OBVIOUS
<1> QED
    BY <1>1, <1>2 DEF Blocked

\* The cascade (update_run_status, reset_stale_running) changes only pending
\* results, only to failed, only behind a failed dependency, and never one that
\* is ready to run.
THEOREM CascadeChanges ==
    ASSUME NEW res \in Results, NEW deps \in Graph
    PROVE  /\ Cascade(res, deps) \in Results
           /\ \A t \in Task :
                 \/ Cascade(res, deps)[t] = res[t]
                 \/ /\ res[t].status = "pending"
                    /\ Cascade(res, deps)[t].status = "failed"
                    /\ Cascade(res, deps)[t].retries = res[t].retries
                    /\ \E d \in deps[t] : Cascade(res, deps)[d].status = "failed"
           /\ \A t \in Task : deps[t] \subseteq In(res, {"completed"})
                                 => Cascade(res, deps)[t] = res[t]
<1> DEFINE B == Blocked(res, deps)
           new == Cascade(res, deps)
<1>1. B \subseteq In(res, {"pending"})
    BY DEF Blocked
<1>2. ASSUME NEW t \in Task
      PROVE  /\ t \in B => new[t] = [res[t] EXCEPT !.status = "failed"]
             /\ t \notin B => new[t] = res[t]
    BY DEF Cascade
<1>3. new \in Results
  <2>1. ASSUME NEW t \in Task
        PROVE  [res[t] EXCEPT !.status = "failed"] \in Result
    BY DEF Results, Result, Status, Terminal
  <2> QED
    BY <2>1 DEF Cascade, Results
<1>4. ASSUME NEW t \in Task, new[t] # res[t]
      PROVE  /\ res[t].status = "pending"
             /\ new[t].status = "failed"
             /\ new[t].retries = res[t].retries
             /\ \E d \in deps[t] : new[d].status = "failed"
  <2>1. t \in B
    BY <1>2, <1>4
  <2>2. res[t].status = "pending"
    BY <1>1, <2>1 DEF In
  <2>3. PICK d \in deps[t] : d \in In(res, {"failed"}) \cup B
    BY <2>1, BlockedHasCause
  <2>4. ASSUME NEW u \in B
        PROVE  u \in Task /\ new[u].status = "failed" /\ new[u].retries = res[u].retries
    <3>1. u \in Task
      BY <1>1 DEF In
    <3>2. res[u] \in Result
      BY <3>1 DEF Results
    <3> QED
      BY <3>1, <3>2, <1>2 DEF Result
  <2>5. new[d].status = "failed"
    BY <2>3, <2>4, <1>2 DEF In
  <2> QED
    BY <2>1, <2>2, <2>4, <2>5
<1>5. ASSUME NEW t \in Task, deps[t] \subseteq In(res, {"completed"})
      PROVE  new[t] = res[t]
    BY <1>2, <1>5, ReadyIsNotBlocked
<1> QED
    BY <1>3, <1>4, <1>5

\* One cascade reaches every task behind a failure: nothing is left blocked.
THEOREM CascadeIsComplete ==
    ASSUME NEW res \in Results, NEW deps \in Graph
    PROVE  Blocked(Cascade(res, deps), deps) = {}
<1> DEFINE B == Blocked(res, deps)
           new == Cascade(res, deps)
<1>1. B \subseteq In(res, {"pending"}) /\ BlocksAll(res, deps, B)
    BY BlockedIsClosed DEF Blocked
<1>2. ASSUME NEW t \in Task
      PROVE  new[t].status = IF t \in B THEN "failed" ELSE res[t].status
    BY DEF Cascade, Results, Result
<1>3. In(new, {"failed"}) = In(res, {"failed"}) \cup B
    BY <1>1, <1>2 DEF In
<1>4. In(new, {"pending"}) = In(res, {"pending"}) \ B
    BY <1>1, <1>2 DEF In
<1>5. BlocksAll(new, deps, {})
    BY <1>1, <1>3, <1>4 DEF BlocksAll
<1> QED
    BY <1>5 DEF Blocked

\* A run's status says of its results what they are (update_run_status).
LEMMA RunStatusTells ==
    ASSUME NEW res \in Results
    PROVE  /\ RunStatus(res) \in Live \cup Terminal
           /\ RunStatus(res) = "completed"
                 => In(res, Status \ {"completed", "absent"}) = {}
           /\ RunStatus(res) = "failed"
                 => In(res, Live) = {} /\ In(res, {"failed"}) # {}
<1>1. In(res, Status \ {"completed", "absent"}) = In(res, {"pending", "running", "failed"})
    BY DEF In, Status, Live, Terminal
<1> QED
    BY <1>1 DEF RunStatus, Live, Terminal


USE StoreAssumption, EngineAssumption

-----------------------------------------------------------------------------
(* Type correctness.                                                        *)

\* A result of an existing job is a Result, and a change to one keeps the file typed.
LEMMA MutatedType ==
    ASSUME TypeOK, NEW j \in Job, NEW res \in Result
    PROVE  Mutated(j, res) \in [Run -> RunFile]
<1>1. PICK r \in Run, t \in Task : j = <<r, t>>
    BY DEF Job
<1>2. runs[r] \in RunFile /\ runs \in [Run -> RunFile]
    BY DEF TypeOK
<1>3. [runs[r] EXCEPT !.results[t] = res] \in RunFile
    BY <1>2 DEF RunFile
<1>4. [runs EXCEPT ![j[1]].results[j[2]] = res]
        = [runs EXCEPT ![r] = [runs[r] EXCEPT !.results[t] = res]]
    BY <1>1, <1>2 DEF RunFile
<1> QED
    BY <1>1, <1>2, <1>3, <1>4 DEF Mutated

\* A job names a run and a task, and its result is typed.
LEMMA ResultType ==
    ASSUME TypeOK, NEW j \in Job
    PROVE  /\ j[1] \in Run /\ j[2] \in Task
           /\ ResultOf(j) \in Result
    BY DEF Job, ResultOf, TypeOK, RunFile

\* update_run_status and reset_stale_running keep a run file typed.
LEMMA RolledType ==
    ASSUME TypeOK, NEW r \in Run
    PROVE  /\ Rolled(runs[r], DepsOf(r), now) \in RunFile
           /\ Reset(runs[r], DepsOf(r), now) \in RunFile
           /\ runs[r].results \in Results /\ Requeued(runs[r]) \in Results
           /\ DepsOf(r) \in Graph
<1> DEFINE res == runs[r].results
           deps == DepsOf(r)
<1>1. /\ runs[r] \in RunFile
      /\ res \in Results
      /\ deps \in Graph
      /\ now \in Stamp
    BY DEF TypeOK, RunFile, Results, Graph, DepsOf, GoalFile, Stamp
<1>2. Requeued(runs[r]) \in Results
  <2>1. ASSUME NEW t \in Task
        PROVE  [res[t] EXCEPT !.status = "pending"] \in Result /\ res[t] \in Result
    BY <1>1 DEF Results, Result, Status, Live
  <2> QED
    BY <2>1 DEF Requeued, Results
<1>3. ASSUME NEW x \in Results
      PROVE  /\ Cascade(x, deps) \in Results
             /\ RunStatus(Cascade(x, deps)) \in Status
  <2>1. Cascade(x, deps) \in Results
    BY <1>1, CascadeChanges
  <2> QED
    BY <2>1, RunStatusTells DEF Status
<1>4. Rolled(runs[r], deps, now) \in RunFile
    BY <1>1, <1>3 DEF Rolled, RunFile, Results
<1>5. Reset(runs[r], deps, now) \in RunFile
    BY <1>1, <1>2, <1>3 DEF Reset, RunFile, Results
<1> QED
    BY <1>1, <1>2, <1>4, <1>5

\* The initial file contents are typed.
LEMMA ConstantTypes ==
    /\ NoResult \in Result /\ [NoResult EXCEPT !.status = "pending"] \in Result
    /\ NoRun \in RunFile
    /\ NoGoal \in GoalFile
    /\ Nowhere \in [goal : Goal, job : Job]
<1>1. /\ "absent" \in Status /\ "pending" \in Status
      /\ 0 \in 0..MaxRetries /\ FALSE \in BOOLEAN
    BY DEF Status, Live
<1>2. NoResult \in Result
    BY <1>1, Zenon DEF NoResult, Result
<1>3. [NoResult EXCEPT !.status = "pending"] \in Result
    BY <1>1, <1>2 DEF Result
<1>4. 1 \in Goal /\ 1 \in Run /\ 1 \in Task /\ 0 \in Time /\ 0 \in 0..MaxTasks /\ Never \in Stamp
    BY DEF Goal, Run, Task, Time, Stamp
<1>5. NoRun \in RunFile
  <2>1. [t \in Task |-> NoResult] \in [Task -> Result]
    BY <1>2
  <2> QED
    BY <1>1, <1>4, <2>1, Zenon DEF NoRun, RunFile
<1>6. NoGoal \in GoalFile
    BY <1>1, <1>4 DEF NoGoal, GoalFile, NoDeps
<1>7. Nowhere \in [goal : Goal, job : Job]
    BY <1>4 DEF Nowhere, Job
<1> QED
    BY <1>2, <1>3, <1>5, <1>6, <1>7

\* queue_run keeps the run files and the ids typed.
LEMMA QueueRunType ==
    ASSUME TypeOK, NEW g \in Goal, QueueRun(g)
    PROVE  /\ runs' \in [Run -> RunFile]
           /\ minted' \in [goals : 0..MaxGoals, runs : 0..MaxRuns]
<1>1. PICK r \in Run, n \in 1..MaxRuns :
          /\ r = minted.runs + 1
          /\ runs' = [runs EXCEPT ![r] = FreshRun(goals[g], g, n)]
          /\ minted' = [minted EXCEPT !.runs = r]
    BY DEF QueueRun
<1>2. FreshRun(goals[g], g, n) \in RunFile
  <2>1. [t \in Task |-> IF t <= goals[g].size THEN [NoResult EXCEPT !.status = "pending"]
                         ELSE NoResult] \in [Task -> Result]
    BY ConstantTypes
  <2>2. "pending" \in Status /\ Never \in Stamp /\ n \in Nat
    BY DEF Status, Live, Stamp
  <2> QED
    BY <2>1, <2>2, Zenon DEF FreshRun, RunFile
<1> QED
    BY SMTT(30), <1>1, <1>2 DEF TypeOK, Run

\* The engine starts typed.
LEMMA InitTypeOK == Init => TypeOK
<1> SUFFICES ASSUME Init PROVE TypeOK
    OBVIOUS
<1>1. coro \in [Job -> Stage]
    BY DEF Init, NoCoro, Stage
<1>2. /\ 0 \in Time /\ 0 \in 0..MaxCrashes
      /\ minted \in [goals : 0..MaxGoals, runs : 0..MaxRuns]
    BY DEF Init, Time
<1>3. life \in Life /\ pc \in PC /\ paused \in BOOLEAN
    BY DEF Init, Life, PC
<1> QED
    BY <1>1, <1>2, <1>3, ConstantTypes DEF Init, TypeOK

\* The variables outside disk that an action changes stay typed; what it does to
\* the files is left to the lemmas above.
LEMMA NextTypeOK == TypeOK /\ [Next]_vars => TypeOK'
<1> SUFFICES ASSUME TypeOK, [Next]_vars PROVE TypeOK'
    OBVIOUS
<1> USE DEF Hold, Release
<1> DEFINE PCs == {"idle", "spawn", "stamp", "dispatch", "started", "requeue", "settle",
                   "define", "enqueue", "unlink", "cleanup", "recover"}
<1>0. PC = PCs /\ Nowhere \in [goal : Goal, job : Job] /\ NoCoro \in [Job -> Stage]
    BY ConstantTypes DEF PC, NoCoro, Stage
<1>tick. ASSUME TickBegin \/ Tick PROVE TypeOK'
  <2>1. CASE TickBegin
    BY <2>1, <1>0 DEF TickBegin, DueGoals, TypeOK, disk, memory, world
  <2>2. CASE SpawnRun
    <3>1. PICK g \in due : QueueRun(g) /\ at' = [at EXCEPT !.goal = g] /\ due' = due \ {g}
      BY <2>2 DEF SpawnRun
    <3>2. g \in Goal
      BY <3>1 DEF TypeOK
    <3>3. runs' \in [Run -> RunFile] /\ minted' \in [goals : 0..MaxGoals, runs : 0..MaxRuns]
      BY <3>1, <3>2, QueueRunType
    <3> QED
      BY <2>2, <3>1, <3>2, <3>3, <1>0 DEF SpawnRun, TypeOK, memory
  <2>3. CASE StampRun
    <3>0. goals[at.goal] \in GoalFile /\ now \in Stamp
      BY DEF TypeOK, Stamp
    <3>1. [goals[at.goal] EXCEPT !.spawned = now] \in GoalFile
      BY <3>0 DEF GoalFile
    <3> QED
      BY <2>3, <3>1, <1>0 DEF StampRun, TypeOK, memory, world
  <2>4. CASE ListReady
    BY <2>4, <1>0 DEF ListReady, ReadyJobs, TypeOK, disk, memory, world
  <2>5. CASE SkipHeld
    BY <2>5 DEF SkipHeld, TypeOK, disk, memory, world
  <2>6. CASE MarkRunning
    <3>1. PICK j \in todo :
              /\ runs' = Mutated(j, [ResultOf(j) EXCEPT !.status = "running"])
              /\ at' = [at EXCEPT !.job = j]
              /\ todo' = todo \ {j}
      BY <2>6 DEF MarkRunning
    <3>2. j \in Job /\ [ResultOf(j) EXCEPT !.status = "running"] \in Result
      BY ResultType DEF TypeOK, Result, Status, Live
    <3>3. runs' \in [Run -> RunFile]
      BY <3>1, <3>2, MutatedType
    <3> QED
      BY <2>6, <3>1, <3>2, <3>3, <1>0 DEF MarkRunning, TypeOK, memory, world
  <2>7. CASE StartCoroutine
    <3>1. at.job[1] \in Run /\ Rolled(runs[at.job[1]], DepsOf(at.job[1]), now) \in RunFile
      BY RolledType DEF TypeOK, Job
    <3>2. runs' \in [Run -> RunFile] /\ coro' \in [Job -> Stage]
      BY <2>7, <3>1 DEF StartCoroutine, TypeOK, Stage
    <3> QED
      BY <2>7, <3>2, <1>0 DEF StartCoroutine, TypeOK, world
  <2>8. CASE Reap
    <3>1. coro' \in [Job -> Stage]
      BY <2>8 DEF Reap, TypeOK, Stage
    <3> QED
      BY <2>8, <3>1, <1>0 DEF Reap, TypeOK, disk, world
  <2> QED
    BY <1>tick, <2>1, <2>2, <2>3, <2>4, <2>5, <2>6, <2>7, <2>8 DEF Tick
<1>exec. ASSUME Executing \/ RequeueResult \/ SettleRun PROVE TypeOK'
  <2>1. ASSUME NEW j \in Job, Advance(j) PROVE TypeOK'
    <3>0. ResultOf(j) \in Result
      BY ResultType
    <3>1. CASE BeginTurn(j)
      <4>1. [ResultOf(j) EXCEPT !.conv = TRUE] \in Result
        BY <3>0 DEF Result
      <4> QED
        BY <3>1, <4>1, MutatedType DEF BeginTurn, TypeOK, Stage, loop, world
    <3>2. CASE SaveConversation(j)
      BY <3>2 DEF SaveConversation, TypeOK, Stage, loop, world
    <3>3. CASE Complete(j)
      <4>1. [ResultOf(j) EXCEPT !.status = "completed"] \in Result
        BY <3>0 DEF Result, Status, Terminal
      <4> QED
        BY <3>3, <4>1, <1>0, MutatedType DEF Complete, TypeOK, memory, world
    <3>4. CASE FailForRetry(j)
      <4>1. [ResultOf(j) EXCEPT !.retries = @ + 1] \in Result
        BY <3>0, <3>4 DEF FailForRetry, RetriesLeft, Result
      <4> QED
        BY <3>4, <4>1, <1>0, MutatedType DEF FailForRetry, TypeOK, memory, world
    <3>5. CASE FailForGood(j)
      <4>1. [ResultOf(j) EXCEPT !.status = "failed"] \in Result
        BY <3>0 DEF Result, Status, Terminal
      <4> QED
        BY <3>5, <4>1, <1>0, MutatedType DEF FailForGood, TypeOK, memory, world
    <3>6. CASE Notified(j)
      BY <3>6 DEF Notified, TypeOK, Stage, disk, loop, world
    <3> QED
      BY <2>1, <3>1, <3>2, <3>3, <3>4, <3>5, <3>6 DEF Advance
  <2>2. CASE RequeueResult
    <3>1. at.job \in Job /\ [ResultOf(at.job) EXCEPT !.status = "pending"] \in Result
      BY ResultType DEF TypeOK, Result, Status, Live
    <3> QED
      BY <2>2, <3>1, <1>0, MutatedType DEF RequeueResult, TypeOK, memory, world
  <2>3. CASE SettleRun
    <3>1. at.job \in Job /\ at.job[1] \in Run
          /\ Rolled(runs[at.job[1]], DepsOf(at.job[1]), now) \in RunFile
      BY RolledType DEF TypeOK, Job
    <3>2. runs' \in [Run -> RunFile]
      BY <2>3, <3>1 DEF SettleRun, TypeOK
    <3>3. coro' \in [Job -> Stage]
      BY <2>3, <3>1 DEF SettleRun, TypeOK, Stage
    <3> QED
      BY <2>3, <3>2, <3>3, <1>0 DEF SettleRun, TypeOK, world
  <2> QED
    BY <1>exec, <2>1, <2>2, <2>3 DEF Executing
<1>create. ASSUME CreateGoal \/ CreateTasks \/ EnqueueFirstRun PROVE TypeOK'
  <2>1. CASE CreateGoal
    <3>1. minted.goals + 1 \in Goal /\ minted' \in [goals : 0..MaxGoals, runs : 0..MaxRuns]
      BY <2>1 DEF CreateGoal, TypeOK, Goal
    <3>2. ASSUME NEW cron \in BOOLEAN
          PROVE  [NoGoal EXCEPT !.status = "active", !.cron = cron, !.created = now] \in GoalFile
      BY ConstantTypes DEF TypeOK, GoalFile
    <3>3. PICK cron \in BOOLEAN :
              goals' = [goals EXCEPT ![minted.goals + 1] =
                          [NoGoal EXCEPT !.status = "active", !.cron = cron, !.created = now]]
      BY <2>1 DEF CreateGoal
    <3>4. goals' \in [Goal -> GoalFile]
      BY <3>1, <3>2, <3>3 DEF TypeOK
    <3>5. at' \in [goal : Goal, job : Job]
      BY <2>1, <3>1 DEF CreateGoal, TypeOK
    <3> QED
      BY <2>1, <3>1, <3>4, <3>5, <1>0 DEF CreateGoal, TypeOK, memory
  <2>2. CASE CreateTasks
    <3>1. PICK d \in Drafts :
              goals' = [goals EXCEPT ![at.goal].size = d.size, ![at.goal].deps = d.deps]
      BY <2>2 DEF CreateTasks
    <3>2. goals[at.goal] \in GoalFile /\ d.size \in 0..MaxTasks /\ d.deps \in [Task -> SUBSET Task]
      BY DEF TypeOK
    <3>3. [goals[at.goal] EXCEPT !.size = d.size, !.deps = d.deps] \in GoalFile
      BY <3>2 DEF GoalFile
    <3>4. goals' = [goals EXCEPT ![at.goal] = [goals[at.goal] EXCEPT !.size = d.size, !.deps = d.deps]]
      BY <3>1 DEF TypeOK
    <3>5. goals' \in [Goal -> GoalFile]
      BY <3>3, <3>4 DEF TypeOK
    <3>6. pc' \in PC /\ at' \in [goal : Goal, job : Job]
      BY <2>2, <1>0 DEF CreateTasks, TypeOK
    <3> QED
      BY <2>2, <3>5, <3>6 DEF CreateTasks, TypeOK, memory, world
  <2>3. CASE EnqueueFirstRun
    <3>1. runs' \in [Run -> RunFile] /\ minted' \in [goals : 0..MaxGoals, runs : 0..MaxRuns]
      BY <2>3, QueueRunType DEF EnqueueFirstRun, TypeOK
    <3> QED
      BY <2>3, <3>1, <1>0 DEF EnqueueFirstRun, TypeOK, memory
  <2> QED
    BY <1>create, <2>1, <2>2, <2>3
<1>ask. ASSUME (\E g \in Goal : TriggerGoal(g) \/ DeleteGoal(g))
               \/ (\E g \in Goal, s \in {"active", "paused"} : SetGoalStatus(g, s))
               \/ (\E p \in BOOLEAN : SetPaused(p)) \/ (\E r \in Run : DeleteRun(r))
        PROVE  TypeOK'
  <2>1. ASSUME NEW g \in Goal, TriggerGoal(g) PROVE TypeOK'
    BY <2>1, QueueRunType DEF TriggerGoal, TypeOK, memory, loop
  <2>2. ASSUME NEW g \in Goal, DeleteGoal(g) PROVE TypeOK'
    <3>1. todo' \subseteq Job
      BY <2>2 DEF DeleteGoal, ConvsOf, RunsOf, Job
    <3> QED
      BY <2>2, <3>1, <1>0 DEF DeleteGoal, TypeOK, disk, memory, world
  <2>3. ASSUME NEW g \in Goal, NEW s \in {"active", "paused"}, SetGoalStatus(g, s) PROVE TypeOK'
    <3>0. goals[g] \in GoalFile
      BY DEF TypeOK
    <3>1. [goals[g] EXCEPT !.status = s] \in GoalFile
      BY <3>0 DEF GoalFile
    <3> QED
      BY <2>3, <3>1 DEF SetGoalStatus, TypeOK, memory, loop, world
  <2>4. ASSUME NEW p \in BOOLEAN, SetPaused(p) PROVE TypeOK'
    BY <2>4 DEF SetPaused, TypeOK, disk, loop, world
  <2>5. ASSUME NEW r \in Run, DeleteRun(r) PROVE TypeOK'
    <3>1. todo' \subseteq Job
      BY <2>5 DEF DeleteRun, ConvsOf, Job
    <3> QED
      BY <2>5, <3>1, <1>0, ConstantTypes DEF DeleteRun, TypeOK, memory, world
  <2> QED
    BY <1>ask, <2>1, <2>2, <2>3, <2>4, <2>5
<1>clean. ASSUME UnlinkRun \/ UnlinkGoal \/ CleanupConversation \/ CleanupDone PROVE TypeOK'
  <2>1. CASE UnlinkRun
    <3>1. runs' \in [Run -> RunFile]
      BY <2>1, ConstantTypes DEF UnlinkRun, RunsOf, TypeOK
    <3> QED
      BY <2>1, <3>1 DEF UnlinkRun, TypeOK, memory, loop, world
  <2>2. CASE UnlinkGoal
    BY <2>2, <1>0, ConstantTypes DEF UnlinkGoal, TypeOK, memory, world
  <2>3. CASE CleanupConversation
    BY <2>3 DEF CleanupConversation, TypeOK, memory, world
  <2>4. CASE CleanupDone
    BY <2>4, <1>0 DEF CleanupDone, TypeOK, disk, memory, world
  <2> QED
    BY <1>clean, <2>1, <2>2, <2>3, <2>4
<1>process. ASSUME RunnerStart \/ ResetRun \/ PollLoopStart \/ RunnerStop \/ Crash \/ Boot \/ ClockTick
            PROVE  TypeOK'
  <2> USE DEF Life
  <2>1. CASE RunnerStart
    BY <2>1, <1>0 DEF RunnerStart, TypeOK, disk, memory, world
  <2>2. CASE ResetRun
    <3>1. runs' \in [Run -> RunFile]
      BY <2>2, RolledType DEF ResetRun, TypeOK
    <3> QED
      BY <2>2, <3>1 DEF ResetRun, TypeOK, memory, loop, world
  <2>3. CASE PollLoopStart
    BY <2>3, <1>0 DEF PollLoopStart, TypeOK, disk, world
  <2>4. CASE RunnerStop
    BY <2>4 DEF RunnerStop, TypeOK, disk, loop, world
  <2>5. CASE Crash
    <3>1. crashes' \in 0..MaxCrashes
      BY <2>5 DEF Crash, TypeOK
    <3> QED
      BY <2>5, <3>1, <1>0 DEF Crash, TypeOK, disk
  <2>6. CASE Boot
    BY <2>6 DEF Boot, TypeOK, disk, loop, world
  <2>7. CASE ClockTick
    BY <2>7 DEF ClockTick, TypeOK, Time, disk, memory, loop
  <2> QED
    BY <1>process, <2>1, <2>2, <2>3, <2>4, <2>5, <2>6, <2>7
<1>idle. CASE UNCHANGED vars
    BY <1>idle DEF TypeOK, vars, disk, memory, loop, world
<1> QED
    BY <1>tick, <1>exec, <1>create, <1>ask, <1>clean, <1>process, <1>idle
    DEF Next, LoopStep, Request

\* Every variable keeps its type, whatever happens to the process.
THEOREM TypeCorrect == Spec => []TypeOK
<1>1. Init => TypeOK
    BY InitTypeOK
<1>2. TypeOK /\ [Next]_vars => TypeOK'
    BY NextTypeOK
<1> QED
    BY <1>1, <1>2, PTL DEF Spec

-----------------------------------------------------------------------------
(* What a step may do to the run files.                                     *)

\* A move of one result that is not a change of plan.
LegalMove(j, res) ==
    LET old == ResultOf(j).status IN
    \/ old = "running" /\ res.status \in {"running", "completed", "pending"}
    \/ old = "running" /\ res.status = "failed" /\ res.retries = MaxRetries
    \/ /\ old = "pending" /\ res.status = "running"
       /\ DepsOf(j[1])[j[2]] \subseteq In(runs[j[1]].results, {"completed"})

Queued == \E g \in Goal : g <= minted.goals /\ QueueRun(g)

Moved ==
    \E j \in Job, res \in Result :
        /\ runs' = Mutated(j, res)
        /\ Exists(j[1]) => runs[j[1]].status \in Live /\ LegalMove(j, res)

Settled ==
    \E r \in Run :
        /\ runs[r].status \in Live
        /\ \/ runs' = [runs EXCEPT ![r] = Rolled(@, DepsOf(r), now)]
           \/ /\ NeedsReset(runs[r], DepsOf(r))
              /\ runs' = [runs EXCEPT ![r] = Reset(@, DepsOf(r), now)]

Dropped == \E r \in Run : runs' = [runs EXCEPT ![r] = NoRun]

RunsChange == runs' = runs \/ Queued \/ Moved \/ Settled \/ Dropped

\* A result being worked on belongs to a run that has no verdict yet.
LEMMA WorkedOnIsLive ==
    ASSUME TypeOK, IdsInUse, VerdictIsTruthful, NEW j \in Job, ResultOf(j).status \in Live
    PROVE  Exists(j[1]) /\ runs[j[1]].status \in Live
<1>1. j[1] \in Run /\ j[2] \in Task
    BY DEF Job
<1>2. Exists(j[1])
    BY <1>1 DEF IdsInUse, ResultOf, Live
<1>3. runs[j[1]].status \in Status
    BY <1>1 DEF TypeOK, RunFile
<1>4. runs[j[1]].status # "completed"
    BY <1>1 DEF VerdictIsTruthful, In, ResultOf, Live, Status
<1>5. runs[j[1]].status # "failed"
    BY <1>1 DEF VerdictIsTruthful, In, ResultOf, Live
<1> QED
    BY <1>2, <1>3, <1>4, <1>5 DEF Exists, Status, Terminal

\* Every step of the engine changes the run files in one of five ways.
LEMMA StepsChangeRuns ==
    ASSUME EngineInv, [Next]_vars
    PROVE  RunsChange
<1> USE DEF EngineInv
<1>tick. ASSUME TickBegin \/ Tick PROVE RunsChange
  <2>1. CASE TickBegin \/ StampRun \/ ListReady \/ SkipHeld \/ Reap
    BY <2>1 DEF TickBegin, StampRun, ListReady, SkipHeld, Reap, disk, RunsChange
  <2>2. CASE SpawnRun
    <3>1. PICK g \in Goal : QueueRun(g) /\ g <= minted.goals
      BY <2>2 DEF SpawnRun, TypeOK, IdsInUse
    <3> QED
      BY <3>1 DEF Queued, RunsChange
  <2>3. CASE MarkRunning
    <3>1. PICK j \in todo : runs' = Mutated(j, [ResultOf(j) EXCEPT !.status = "running"])
      BY <2>3 DEF MarkRunning
    <3>2. j \in Job /\ ResultOf(j).status = "pending"
          /\ DepsOf(j[1])[j[2]] \subseteq In(runs[j[1]].results, {"completed"})
      BY <2>3, <3>1 DEF MarkRunning, Ownership, TypeOK
    <3>3. runs[j[1]].status \in Live
      BY <3>2, WorkedOnIsLive DEF Live
    <3>4. [ResultOf(j) EXCEPT !.status = "running"] \in Result
      BY <3>2, ResultType DEF Result, Status, Live
    <3>5. LegalMove(j, [ResultOf(j) EXCEPT !.status = "running"])
      BY <3>2, ResultType DEF LegalMove, Result
    <3> QED
      BY <3>1, <3>2, <3>3, <3>4, <3>5 DEF Moved, RunsChange
  <2>4. CASE StartCoroutine
    <3>1. at.job \in Job /\ at.job[1] \in Run
      BY ResultType DEF TypeOK
    <3>2. runs[at.job[1]].status \in Live
      BY <2>4, <3>1, WorkedOnIsLive DEF StartCoroutine, Ownership, Live
    <3> QED
      BY <2>4, <3>1, <3>2 DEF StartCoroutine, Settled, RunsChange
  <2> QED
    BY <1>tick, <2>1, <2>2, <2>3, <2>4 DEF Tick
<1>exec. ASSUME Executing \/ RequeueResult \/ SettleRun PROVE RunsChange
  <2>1. ASSUME NEW j \in Job, NEW res \in Result, runs' = Mutated(j, res),
               j \in Alive, pc # "settle",
               res.status = "failed" => res.retries = MaxRetries, res.status # "absent"
        PROVE  RunsChange
    <3>1. SUFFICES ASSUME Exists(j[1]) PROVE runs[j[1]].status \in Live /\ LegalMove(j, res)
      BY <2>1 DEF Moved, RunsChange
    <3>2. ResultOf(j).status = "running"
      BY <2>1, <3>1 DEF Ownership
    <3>3. res.status \in Status
      BY <2>1 DEF Result
    <3> QED
      BY <2>1, <3>2, <3>3, WorkedOnIsLive DEF LegalMove, Live, Status, Terminal
  <2>2. ASSUME NEW j \in Job, NEW res \in Result, runs' = Mutated(j, res), ~Exists(j[1])
        PROVE  RunsChange
    BY <2>2 DEF Mutated, RunsChange
  <2>3. ASSUME NEW j \in Job, Advance(j) PROVE RunsChange
    <3>0. ResultOf(j) \in Result /\ pc = "idle"
      BY <2>3, ResultType DEF Advance, BeginTurn, SaveConversation, Complete, FailForRetry,
                              FailForGood, Notified, Free
    <3>f. MayFail(j) => j \in Alive \/ ~Exists(j[1])
      BY DEF MayFail, Alive
    <3>r. ASSUME j \in Alive, Exists(j[1]) PROVE ResultOf(j).status = "running"
      BY <3>0, <3>r DEF Ownership
    <3>1. CASE BeginTurn(j)
      <4> DEFINE res == [ResultOf(j) EXCEPT !.conv = TRUE]
      <4>1. res \in Result /\ res.status = ResultOf(j).status
        BY <3>0 DEF Result
      <4>2. j \in Alive /\ Exists(j[1]) /\ runs' = Mutated(j, res)
        BY <3>1 DEF BeginTurn, Alive
      <4> QED
        BY <3>0, <3>r, <4>1, <4>2, <2>1
    <3>2. CASE SaveConversation(j) \/ Notified(j)
      BY <3>2 DEF SaveConversation, Notified, disk, RunsChange
    <3>3. CASE Complete(j)
      <4> DEFINE res == [ResultOf(j) EXCEPT !.status = "completed"]
      <4>1. res \in Result /\ res.status = "completed"
        BY <3>0 DEF Result, Status, Terminal
      <4> QED
        BY <3>0, <3>3, <4>1, <2>1 DEF Complete, Alive
    <3>4. CASE FailForRetry(j)
      <4> DEFINE res == [ResultOf(j) EXCEPT !.retries = @ + 1]
      <4>1. res \in Result /\ res.status = ResultOf(j).status
        BY <3>0, <3>4 DEF FailForRetry, RetriesLeft, Result
      <4>2. runs' = Mutated(j, res) /\ MayFail(j)
        BY <3>4 DEF FailForRetry
      <4> QED
        BY <3>0, <3>f, <3>r, <4>1, <4>2, <2>1, <2>2
    <3>5. CASE FailForGood(j)
      <4> DEFINE res == [ResultOf(j) EXCEPT !.status = "failed"]
      <4>1. res \in Result /\ res.status = "failed" /\ res.retries = MaxRetries
        BY <3>0, <3>5 DEF FailForGood, RetriesLeft, Result, Status, Terminal
      <4>2. runs' = Mutated(j, res) /\ MayFail(j)
        BY <3>5 DEF FailForGood
      <4> QED
        BY <3>0, <3>f, <4>1, <4>2, <2>1, <2>2
    <3> QED
      BY <2>3, <3>1, <3>2, <3>3, <3>4, <3>5 DEF Advance
  <2>4. CASE RequeueResult
    <3> DEFINE j == at.job
               res == [ResultOf(j) EXCEPT !.status = "pending"]
    <3>1. j \in Job /\ res \in Result /\ res.status = "pending"
      BY ResultType DEF TypeOK, Result, Status, Live
    <3>2. j \in Alive /\ pc # "settle" /\ runs' = Mutated(j, res)
      BY <2>4 DEF RequeueResult, LoopHolders
    <3> QED
      BY <3>1, <3>2, <2>1
  <2>5. CASE SettleRun
    <3>1. at.job[1] \in Run
      BY ResultType DEF TypeOK
    <3>2. CASE Exists(at.job[1])
      BY <2>5, <3>1, <3>2 DEF SettleRun, Ownership, Settled, RunsChange
    <3>3. CASE ~Exists(at.job[1])
      BY <2>5, <3>3 DEF SettleRun, RunsChange
    <3> QED
      BY <3>2, <3>3
  <2> QED
    BY <1>exec, <2>3, <2>4, <2>5 DEF Executing
<1>create. ASSUME CreateGoal \/ CreateTasks \/ EnqueueFirstRun PROVE RunsChange
  BY <1>create
  DEF CreateGoal, CreateTasks, EnqueueFirstRun, TypeOK, IdsInUse, Queued, RunsChange
<1>ask. ASSUME Request PROVE RunsChange
  <2>1. ASSUME NEW g \in Goal, TriggerGoal(g) PROVE RunsChange
    BY <2>1 DEF TriggerGoal, IdsInUse, Queued, RunsChange
  <2>2. ASSUME NEW r \in Run, DeleteRun(r) PROVE RunsChange
    BY <2>2 DEF DeleteRun, Dropped, RunsChange
  <2> QED
    BY <1>ask, <1>create, <2>1, <2>2
    DEF Request, DeleteGoal, SetGoalStatus, SetPaused, disk, RunsChange
<1>clean. ASSUME UnlinkRun \/ UnlinkGoal \/ CleanupConversation \/ CleanupDone PROVE RunsChange
  BY <1>clean DEF UnlinkRun, UnlinkGoal, CleanupConversation, CleanupDone, RunsOf, disk,
                  Dropped, RunsChange
<1>process. ASSUME RunnerStart \/ ResetRun \/ PollLoopStart \/ RunnerStop \/ Crash \/ Boot \/ ClockTick
            PROVE  RunsChange
  <2>1. CASE ResetRun
    BY <2>1 DEF ResetRun, NeedsReset, Settled, RunsChange
  <2> QED
    BY <1>process, <2>1
    DEF RunnerStart, PollLoopStart, RunnerStop, Crash, Boot, ClockTick, disk, RunsChange
<1>idle. CASE UNCHANGED vars
    BY <1>idle DEF vars, disk, RunsChange
<1> QED
    BY <1>tick, <1>exec, <1>create, <1>ask, <1>clean, <1>process, <1>idle
    DEF Next, LoopStep

-----------------------------------------------------------------------------
(* The invariants of the run files.                                         *)

\* What a recomputation of a run's status leaves of its results.
SettlesTo(old, new, deps) ==
    /\ new.goal = old.goal /\ new.number = old.number
    /\ new.status \in Live \cup Terminal
    /\ new.status = "completed" => In(new.results, Status \ {"completed", "absent"}) = {}
    /\ new.status = "failed" => In(new.results, Live) = {} /\ In(new.results, {"failed"}) # {}
    /\ \A t \in Task :
          LET was == old.results[t]  is == new.results[t] IN
          /\ is.status \in {"running", "completed"} => was.status = is.status
          /\ was.status \in {"completed", "failed", "absent"} => is = was
          /\ is.status = "failed" /\ is # was =>
                \E d \in deps[t] : new.results[d].status = "failed"
          /\ was.status = "pending" /\ deps[t] \subseteq In(old.results, {"completed"}) => is = was

\* update_run_status settles a run, and leaves what runs running.
LEMMA RolledSettles ==
    ASSUME TypeOK, NEW r \in Run
    PROVE  /\ SettlesTo(runs[r], Rolled(runs[r], DepsOf(r), now), DepsOf(r))
           /\ \A t \in Task : runs[r].results[t].status = "running" =>
                 Rolled(runs[r], DepsOf(r), now).results[t] = runs[r].results[t]
<1> DEFINE old == runs[r]
           deps == DepsOf(r)
           res == Cascade(old.results, deps)
           new == Rolled(old, deps, now)
<1>1. old \in RunFile /\ old.results \in Results /\ deps \in Graph
    BY RolledType DEF TypeOK
<1>2. res \in Results
    BY <1>1, CascadeChanges
<1>3. new.results = res /\ new.status = RunStatus(res) /\ new.goal = old.goal /\ new.number = old.number
    BY <1>1 DEF Rolled, RunFile
<1>4. ASSUME NEW t \in Task
      PROVE  /\ res[t] = old.results[t]
                \/ /\ old.results[t].status = "pending" /\ res[t].status = "failed"
                   /\ \E d \in deps[t] : res[d].status = "failed"
             /\ deps[t] \subseteq In(old.results, {"completed"}) => res[t] = old.results[t]
    BY <1>1, CascadeChanges
<1> HIDE DEF res, new, old, deps
<1>5. SettlesTo(old, new, deps)
    BY ZenonT(30), <1>2, <1>3, <1>4, RunStatusTells DEF SettlesTo
<1>6. \A t \in Task : old.results[t].status = "running" => new.results[t] = old.results[t]
    BY <1>3, <1>4
<1> QED
    BY <1>5, <1>6 DEF old, new, deps

\* reset_stale_running settles a run, with what ran waiting again.
LEMMA ResetSettles ==
    ASSUME TypeOK, NEW r \in Run
    PROVE  SettlesTo(runs[r], Reset(runs[r], DepsOf(r), now), DepsOf(r))
<1> DEFINE old == runs[r]
           deps == DepsOf(r)
           back == Requeued(old)
           res == Cascade(back, deps)
           new == Reset(old, deps, now)
<1>1. old \in RunFile /\ old.results \in Results /\ back \in Results /\ deps \in Graph
    BY RolledType DEF TypeOK
<1>2. res \in Results
    BY <1>1, CascadeChanges
<1>3. new.results = res /\ new.status = RunStatus(res) /\ new.goal = old.goal /\ new.number = old.number
    BY <1>1 DEF Reset, RunFile
<1>4. ASSUME NEW t \in Task
      PROVE  /\ res[t] = back[t]
                \/ /\ back[t].status = "pending" /\ res[t].status = "failed"
                   /\ \E d \in deps[t] : res[d].status = "failed"
             /\ deps[t] \subseteq In(back, {"completed"}) => res[t] = back[t]
    BY <1>1, CascadeChanges
<1>5. ASSUME NEW t \in Task
      PROVE  /\ old.results[t].status # "running" => back[t] = old.results[t]
             /\ old.results[t].status = "running" => back[t].status = "pending"
  <2>1. old.results[t] \in Result
    BY <1>1 DEF Results
  <2> QED
    BY <2>1 DEF Requeued, Result
<1>6. In(old.results, {"completed"}) = In(back, {"completed"})
    BY <1>5 DEF In
<1> HIDE DEF res, new, old, deps, back
<1>7. SettlesTo(old, new, deps)
    BY ZenonT(60), <1>2, <1>3, <1>4, <1>5, <1>6, RunStatusTells DEF SettlesTo
<1> QED
    BY <1>7 DEF old, new, deps

\* One run's file over one step.
Fresh(r) ==
    /\ ~Exists(r)
    /\ r = minted.runs + 1 /\ minted' = [minted EXCEPT !.runs = r]
    /\ \E g \in Goal, n \in Nat :
          /\ g <= minted.goals /\ NextNumber(runs, g, n)
          /\ runs'[r] = FreshRun(goals[g], g, n)
          /\ \A q \in Run \ {r} : runs'[q] = runs[q]

MovedIn(r) ==
    \E t \in Task, res \in Result :
        /\ Exists(r) /\ runs[r].status \in Live
        /\ LegalMove(<<r, t>>, res)
        /\ runs'[r] = [runs[r] EXCEPT !.results[t] = res]

SettledIn(r) ==
    /\ runs[r].status \in Live
    /\ SettlesTo(runs[r], runs'[r], DepsOf(r))

\* What RunsChange means for one run.
LEMMA RunChanges ==
    ASSUME TypeOK, IdsInUse, RunsChange, NEW r \in Run
    PROVE  runs'[r] = runs[r] \/ Fresh(r) \/ MovedIn(r) \/ SettledIn(r) \/ runs'[r] = NoRun
<1>0. runs \in [Run -> RunFile]
    BY DEF TypeOK
<1>1. CASE Queued
  <2>1. PICK g \in Goal : g <= minted.goals /\ QueueRun(g)
    BY <1>1 DEF Queued
  <2>2. PICK q \in Run, n \in 1..MaxRuns :
            /\ q = minted.runs + 1
            /\ NextNumber(runs, g, n)
            /\ runs' = [runs EXCEPT ![q] = FreshRun(goals[g], g, n)]
            /\ minted' = [minted EXCEPT !.runs = q]
    BY <2>1 DEF QueueRun
  <2>3. ~Exists(q) /\ n \in Nat
    BY <2>2 DEF IdsInUse, TypeOK, Run
  <2>4. CASE q = r
    BY <1>0, <2>1, <2>2, <2>3, <2>4 DEF Fresh
  <2>5. CASE q # r
    BY <1>0, <2>2, <2>5
  <2> QED
    BY <2>4, <2>5
<1>2. CASE Moved
  <2>1. PICK j \in Job, res \in Result :
            /\ runs' = Mutated(j, res)
            /\ Exists(j[1]) => runs[j[1]].status \in Live /\ LegalMove(j, res)
    BY <1>2 DEF Moved
  <2>2. PICK q \in Run, t \in Task : j = <<q, t>>
    BY DEF Job
  <2>3. CASE Exists(q) /\ q = r
    <3>1. runs'[r] = [runs[r] EXCEPT !.results[t] = res]
      BY <1>0, <2>1, <2>2, <2>3 DEF Mutated, RunFile
    <3> QED
      BY <2>1, <2>2, <2>3, <3>1 DEF MovedIn
  <2>4. CASE ~(Exists(q) /\ q = r)
    BY <1>0, <2>1, <2>2, <2>4 DEF Mutated
  <2> QED
    BY <2>3, <2>4
<1>3. CASE Settled
    BY <1>0, <1>3, RolledSettles, ResetSettles DEF Settled, SettledIn
<1>4. CASE Dropped
    BY <1>0, <1>4 DEF Dropped
<1> QED
    BY <1>1, <1>2, <1>3, <1>4 DEF RunsChange

\* No step changes the dependencies of a run that exists: commit_goal defines
\* tasks before the first run, and nothing edits them later.
LEMMA DepsAreFixed ==
    ASSUME TypeOK, IdsInUse, [Next]_vars, NEW r \in Run, Exists(r)
    PROVE  goals'[runs[r].goal].deps = DepsOf(r)
<1> USE DEF DepsOf
<1>0. goals \in [Goal -> GoalFile] /\ runs[r].goal \in Goal /\ at.goal \in Goal
    BY DEF TypeOK, RunFile
<1>1. CASE StampRun
    BY <1>0, <1>1 DEF StampRun, GoalFile
<1>2. CASE CreateGoal
  <2>1. runs[r].goal # minted.goals + 1
    BY <1>2 DEF CreateGoal, IdsInUse, TypeOK, Goal
  <2> QED
    BY <1>0, <1>2, <2>1 DEF CreateGoal
<1>3. CASE CreateTasks
    BY <1>0, <1>3 DEF CreateTasks, IdsInUse
<1>4. ASSUME NEW g \in Goal, NEW s \in {"active", "paused"}, SetGoalStatus(g, s)
      PROVE  goals'[runs[r].goal].deps = DepsOf(r)
    BY <1>0, <1>4 DEF SetGoalStatus, GoalFile
<1>5. CASE UnlinkGoal
  <2>1. runs[r].goal # at.goal
    BY <1>0, <1>5 DEF UnlinkGoal, RunsOf, Exists
  <2> QED
    BY <1>0, <1>5, <2>1 DEF UnlinkGoal
<1>6. CASE UNCHANGED goals
    BY <1>6
<1> QED
    BY <1>1, <1>2, <1>3, <1>4, <1>5, <1>6
    DEF Next, LoopStep, Tick, Executing, Advance, Request, vars, disk,
        TickBegin, SpawnRun, ListReady, SkipHeld, MarkRunning, StartCoroutine, Reap,
        BeginTurn, SaveConversation, Complete, FailForRetry, FailForGood, RequeueResult,
        SettleRun, Notified, EnqueueFirstRun, TriggerGoal, SetPaused, DeleteRun, DeleteGoal,
        UnlinkRun, CleanupConversation, CleanupDone, RunnerStart, ResetRun, PollLoopStart,
        RunnerStop, Crash, Boot, ClockTick

\* The five ways again, with the dependencies of the run after the step.
LEMMA RunSteps ==
    ASSUME EngineInv, [Next]_vars, NEW r \in Run
    PROVE  \/ runs'[r] = runs[r] /\ ~Exists(r)
           \/ runs'[r] = runs[r] /\ Exists(r) /\ DepsOf(r)' = DepsOf(r)
           \/ Fresh(r)
           \/ MovedIn(r) /\ DepsOf(r)' = DepsOf(r)
           \/ SettledIn(r) /\ DepsOf(r)' = DepsOf(r)
           \/ runs'[r] = NoRun
<1> USE DEF EngineInv
<1>1. runs'[r] = runs[r] \/ Fresh(r) \/ MovedIn(r) \/ SettledIn(r) \/ runs'[r] = NoRun
    BY StepsChangeRuns, RunChanges
<1>2. CASE runs'[r] = runs[r] /\ Exists(r)
    BY <1>2, DepsAreFixed DEF DepsOf
<1>3. CASE MovedIn(r)
  <2>1. Exists(r) /\ runs'[r].goal = runs[r].goal
    BY <1>3 DEF MovedIn, TypeOK, RunFile
  <2> QED
    BY <1>3, <2>1, DepsAreFixed DEF DepsOf
<1>4. CASE SettledIn(r)
  <2>1. Exists(r) /\ runs'[r].goal = runs[r].goal
    BY <1>4 DEF SettledIn, SettlesTo, Exists, Live
  <2> QED
    BY <1>4, <2>1, DepsAreFixed DEF DepsOf
<1> QED
    BY <1>1, <1>2, <1>3, <1>4

\* A fresh or deleted run has nothing started, failed or finished in it.
LEMMA FreshIsUntouched ==
    ASSUME NEW r \in Run, Fresh(r) \/ runs'[r] = NoRun, NEW t \in Task
    PROVE  /\ runs'[r].results[t].status \in {"pending", "absent"}
           /\ runs'[r].status \in {"pending", "absent"}
<1>1. CASE Fresh(r)
    BY <1>1 DEF Fresh, FreshRun, NoResult
<1>2. CASE runs'[r] = NoRun
    BY <1>2 DEF NoRun, NoResult
<1> QED
    BY <1>1, <1>2

\* Changing one result of a run leaves the rest of its file alone.
LEMMA MovedResults ==
    ASSUME TypeOK, NEW r \in Run, NEW t \in Task, NEW res \in Result,
           runs'[r] = [runs[r] EXCEPT !.results[t] = res]
    PROVE  /\ runs'[r].results[t] = res
           /\ \A u \in Task \ {t} : runs'[r].results[u] = runs[r].results[u]
           /\ runs'[r].status = runs[r].status
           /\ runs'[r].goal = runs[r].goal /\ runs'[r].number = runs[r].number
           /\ ResultOf(<<r, t>>) = runs[r].results[t]
    BY DEF TypeOK, RunFile, ResultOf

\* Every step preserves the order of dependencies.
LEMMA NextDependencyOrder == EngineInv /\ [Next]_vars => DependencyOrder'
<1> SUFFICES ASSUME EngineInv, [Next]_vars,
                    NEW r \in Run, NEW t \in Task,
                    runs'[r].results[t].status \in {"running", "completed"},
                    NEW d \in DepsOf(r)'[t]
             PROVE  runs'[r].results[d].status = "completed"
    BY DEF DependencyOrder
<1> USE DEF EngineInv
<1>0. DepsOf(r) \in Graph
    BY RolledType
<1>1. CASE runs'[r] = runs[r] /\ ~Exists(r)
    BY <1>1 DEF IdsInUse
<1>2. CASE runs'[r] = runs[r] /\ Exists(r) /\ DepsOf(r)' = DepsOf(r)
    BY <1>2 DEF DependencyOrder
<1>3. CASE Fresh(r) \/ runs'[r] = NoRun
  <2>1. CASE runs'[r] = NoRun
    BY <2>1 DEF NoRun, NoResult
  <2>2. CASE Fresh(r)
    BY <2>2, FreshIsUntouched
  <2> QED
    BY <1>3, <2>1, <2>2
<1>4. CASE MovedIn(r) /\ DepsOf(r)' = DepsOf(r)
  <2>1. PICK u \in Task, res \in Result :
            LegalMove(<<r, u>>, res) /\ runs'[r] = [runs[r] EXCEPT !.results[u] = res]
    BY <1>4 DEF MovedIn
  <2>2. d \in Task
    BY <1>0, <1>4 DEF Graph
  <2>3. runs[r].results[d].status = "completed"
    <3>1. CASE t # u
      BY <1>4, <2>1, <3>1, MovedResults DEF DependencyOrder
    <3>2. CASE t = u
      BY <1>4, <2>1, <3>2, MovedResults DEF LegalMove, DependencyOrder, In
    <3> QED
      BY <3>1, <3>2
  <2>4. d # u
    BY <2>1, <2>3, MovedResults DEF LegalMove
  <2> QED
    BY <2>1, <2>2, <2>3, <2>4, MovedResults
<1>5. CASE SettledIn(r) /\ DepsOf(r)' = DepsOf(r)
  <2>1. d \in Task
    BY <1>0, <1>5 DEF Graph
  <2>2. runs[r].results[t].status \in {"running", "completed"}
    BY <1>5 DEF SettledIn, SettlesTo
  <2>3. runs[r].results[d].status = "completed"
    BY <1>5, <2>2 DEF DependencyOrder
  <2> QED
    BY <1>5, <2>1, <2>3 DEF SettledIn, SettlesTo
<1> QED
    BY RunSteps, <1>1, <1>2, <1>3, <1>4, <1>5

\* Every step preserves the reasons of failures.
LEMMA NextFailureIsJustified == EngineInv /\ [Next]_vars => FailureIsJustified'
<1> SUFFICES ASSUME EngineInv, [Next]_vars,
                    NEW r \in Run, NEW t \in Task,
                    runs'[r].results[t].status = "failed",
                    runs'[r].results[t].retries # MaxRetries
             PROVE  \E d \in DepsOf(r)'[t] : runs'[r].results[d].status = "failed"
    BY DEF FailureIsJustified
<1> USE DEF EngineInv
<1>0. DepsOf(r) \in Graph
    BY RolledType
<1>1. CASE runs'[r] = runs[r] /\ ~Exists(r)
    BY <1>1 DEF IdsInUse
<1>2. CASE runs'[r] = runs[r] /\ Exists(r) /\ DepsOf(r)' = DepsOf(r)
    BY <1>2 DEF FailureIsJustified
<1>3. CASE Fresh(r) \/ runs'[r] = NoRun
  <2>1. runs'[r].results[t].status \in {"pending", "absent"}
    BY <1>3, FreshIsUntouched
  <2> QED
    BY <2>1
<1>4. CASE MovedIn(r) /\ DepsOf(r)' = DepsOf(r)
  <2>1. PICK u \in Task, res \in Result :
            LegalMove(<<r, u>>, res) /\ runs'[r] = [runs[r] EXCEPT !.results[u] = res]
    BY <1>4 DEF MovedIn
  <2>2. t # u
    BY <2>1, MovedResults DEF LegalMove
  <2>3. runs'[r].results[t] = runs[r].results[t]
    BY <2>1, <2>2, MovedResults
  <2>4. PICK d \in DepsOf(r)[t] : runs[r].results[d].status = "failed"
    BY <2>3 DEF FailureIsJustified
  <2>5. d \in Task /\ d # u
    BY <1>0, <2>1, <2>4, MovedResults DEF LegalMove, Graph
  <2> QED
    BY <1>4, <2>1, <2>4, <2>5, MovedResults
<1>5. CASE SettledIn(r) /\ DepsOf(r)' = DepsOf(r)
  <2>1. CASE runs'[r].results[t] # runs[r].results[t]
    BY <1>5, <2>1 DEF SettledIn, SettlesTo
  <2>2. CASE runs'[r].results[t] = runs[r].results[t]
    <3>1. PICK d \in DepsOf(r)[t] : runs[r].results[d].status = "failed"
      BY <2>2 DEF FailureIsJustified
    <3>2. d \in Task
      BY <1>0, <3>1 DEF Graph
    <3> QED
      BY <1>5, <3>1, <3>2 DEF SettledIn, SettlesTo
  <2> QED
    BY <2>1, <2>2
<1> QED
    BY RunSteps, <1>1, <1>2, <1>3, <1>4, <1>5

\* Every step preserves the truth of verdicts.
LEMMA NextVerdictIsTruthful == EngineInv /\ [Next]_vars => VerdictIsTruthful'
<1> SUFFICES ASSUME EngineInv, [Next]_vars, NEW r \in Run
             PROVE  /\ runs'[r].status = "completed" =>
                          In(runs'[r].results, Status \ {"completed", "absent"}) = {}
                    /\ runs'[r].status = "failed" =>
                          /\ In(runs'[r].results, Live) = {}
                          /\ In(runs'[r].results, {"failed"}) # {}
    BY DEF VerdictIsTruthful
<1> USE DEF EngineInv
<1>1. CASE runs'[r] = runs[r]
    BY <1>1 DEF VerdictIsTruthful
<1>2. CASE Fresh(r) \/ runs'[r] = NoRun
  <2>1. 1 \in Task
    BY DEF Task
  <2> QED
    BY <1>2, <2>1, FreshIsUntouched
<1>3. CASE MovedIn(r)
  <2>1. runs'[r].status \in Live
    BY <1>3, MovedResults DEF MovedIn
  <2> QED
    BY <2>1 DEF Live
<1>4. CASE SettledIn(r)
    BY <1>4 DEF SettledIn, SettlesTo
<1> QED
    BY RunSteps, <1>1, <1>2, <1>3, <1>4

\* Every step preserves the uniqueness of run numbers.
LEMMA NextNumbersAreUnique == EngineInv /\ [Next]_vars => NumbersAreUnique'
<1> SUFFICES ASSUME EngineInv, [Next]_vars,
                    NEW r \in Run, NEW s \in Run, Exists(r)', Exists(s)',
                    runs'[r].goal = runs'[s].goal, runs'[r].number = runs'[s].number, r # s
             PROVE  FALSE
    BY DEF NumbersAreUnique
<1> USE DEF EngineInv
<1>1. ASSUME NEW q \in Run, Exists(q)', ~Fresh(q)
      PROVE  Exists(q) /\ runs'[q].goal = runs[q].goal /\ runs'[q].number = runs[q].number
  <2>1. CASE runs'[q] = runs[q]
    BY <1>1, <2>1 DEF Exists
  <2>2. CASE MovedIn(q)
    BY <2>2, MovedResults DEF MovedIn
  <2>3. CASE SettledIn(q)
    BY <2>3 DEF SettledIn, SettlesTo, Exists, Live
  <2>4. runs'[q] # NoRun
    BY <1>1 DEF Exists, NoRun
  <2> QED
    BY <1>1, <2>1, <2>2, <2>3, <2>4, RunSteps
<1>2. ASSUME NEW p \in Run, NEW q \in Run, p # q, Fresh(p), Exists(q)'
      PROVE  runs'[p].goal # runs'[q].goal \/ runs'[p].number # runs'[q].number
  <2>1. PICK g \in Goal, n \in Nat :
            NextNumber(runs, g, n) /\ runs'[p] = FreshRun(goals[g], g, n) /\ runs'[q] = runs[q]
    BY <1>2 DEF Fresh
  <2>2. runs'[p].goal = g /\ runs'[p].number = n
    BY <2>1 DEF FreshRun
  <2>3. CASE runs[q].goal = g
    <3>1. q \in RunsOf(runs, g)
      BY <1>2, <2>1, <2>3 DEF RunsOf, Exists
    <3>2. runs[q].number < n
      BY <2>1, <3>1 DEF NextNumber
    <3> QED
      BY <2>1, <2>2, <3>2 DEF TypeOK, RunFile
  <2> QED
    BY <2>1, <2>2, <2>3
<1>3. CASE Fresh(r) \/ Fresh(s)
    BY <1>2, <1>3
<1>4. CASE ~Fresh(r) /\ ~Fresh(s)
    BY <1>1, <1>4 DEF NumbersAreUnique
<1> QED
    BY <1>3, <1>4

-----------------------------------------------------------------------------
(* The invariants of the event loop.                                        *)

Deciding(j) == Complete(j) \/ FailForRetry(j) \/ FailForGood(j)

\* Which steps touch which variables outside the run files.
LEMMA Frame ==
    ASSUME [Next]_vars
    PROVE  /\ \/ UNCHANGED goals
              \/ StampRun \/ CreateGoal \/ CreateTasks \/ UnlinkGoal
              \/ \E g \in Goal, s \in {"active", "paused"} : SetGoalStatus(g, s)
           /\ \/ UNCHANGED minted
              \/ SpawnRun \/ CreateGoal \/ EnqueueFirstRun
              \/ \E g \in Goal : TriggerGoal(g)
           /\ \/ UNCHANGED coro
              \/ StartCoroutine \/ Reap \/ SettleRun \/ Crash
              \/ \E j \in Job : BeginTurn(j) \/ SaveConversation(j) \/ Notified(j)
           /\ UNCHANGED due \/ TickBegin \/ SpawnRun \/ ListReady \/ Crash
           /\ UNCHANGED life \/ PollLoopStart \/ RunnerStop \/ Crash \/ Boot
           /\ \/ UNCHANGED <<pc, at>>
              \/ TickBegin \/ Tick \/ RequeueResult \/ SettleRun
              \/ CreateGoal \/ CreateTasks \/ EnqueueFirstRun
              \/ (\E j \in Job : Deciding(j))
              \/ (\E g \in Goal : DeleteGoal(g)) \/ (\E r \in Run : DeleteRun(r))
              \/ UnlinkGoal \/ CleanupDone \/ RunnerStart \/ PollLoopStart \/ Crash
    BY ZenonT(30) DEF Next, LoopStep, Tick, Executing, Advance, Request, Deciding,
           vars, disk, memory, loop, world,
           TickBegin, SpawnRun, StampRun, ListReady, SkipHeld, MarkRunning, StartCoroutine, Reap,
           BeginTurn, SaveConversation, Complete, FailForRetry, FailForGood, RequeueResult,
           SettleRun, Notified, CreateGoal, CreateTasks, EnqueueFirstRun, TriggerGoal,
           SetGoalStatus, SetPaused, DeleteRun, DeleteGoal, UnlinkRun, UnlinkGoal,
           CleanupConversation, CleanupDone, RunnerStart, ResetRun, PollLoopStart,
           RunnerStop, Crash, Boot, ClockTick

\* Ids are only ever handed out, and a queued run takes the next one.
LEMMA MintedGrows ==
    ASSUME TypeOK, [Next]_vars
    PROVE  /\ minted.goals \in Nat /\ minted.runs \in Nat
           /\ minted'.goals \in Nat /\ minted'.runs \in Nat
           /\ minted.goals <= minted'.goals
           /\ minted.runs <= minted'.runs
           /\ minted'.goals # minted.goals => CreateGoal
<1>1. minted \in [goals : 0..MaxGoals, runs : 0..MaxRuns]
    BY DEF TypeOK
<1>2. ASSUME NEW g, QueueRun(g)
      PROVE  minted' = [minted EXCEPT !.runs = minted.runs + 1]
    BY <1>2 DEF QueueRun
<1>3. CASE CreateGoal
  <2>1. minted' = [minted EXCEPT !.goals = minted.goals + 1]
    BY <1>3 DEF CreateGoal
  <2> QED
    BY <1>1, <1>3, <2>1
<1>4. CASE minted' = [minted EXCEPT !.runs = minted.runs + 1]
    BY <1>1, <1>4
<1>5. CASE UNCHANGED minted
    BY <1>1, <1>5
<1>6. SpawnRun \/ EnqueueFirstRun \/ (\E g \in Goal : TriggerGoal(g))
        => minted' = [minted EXCEPT !.runs = minted.runs + 1]
    BY <1>2 DEF SpawnRun, EnqueueFirstRun, TriggerGoal
<1> QED
    BY <1>3, <1>4, <1>5, <1>6, Frame

\* Every step preserves the bookkeeping of ids.
LEMMA NextIdsInUse == EngineInv /\ [Next]_vars => IdsInUse'
<1> SUFFICES ASSUME EngineInv, [Next]_vars PROVE IdsInUse'
    OBVIOUS
<1> USE DEF EngineInv, Hold, Release
<1>0. TypeOK /\ TypeOK'
    BY NextTypeOK
<1>m. /\ minted.goals \in Nat /\ minted.runs \in Nat
      /\ minted'.goals \in Nat /\ minted'.runs \in Nat
      /\ minted.goals <= minted'.goals /\ minted.runs <= minted'.runs
    BY <1>0, MintedGrows
<1>1. ASSUME NEW g \in Goal, goals'[g].status # "absent" PROVE g <= minted'.goals
  <2>1. CASE goals[g].status # "absent"
    BY <1>m, <2>1 DEF IdsInUse, Goal
  <2>2. CASE CreateGoal
    <3>1. g # minted.goals + 1 => goals[g].status # "absent"
      BY <1>0, <1>1, <2>2 DEF CreateGoal, TypeOK
    <3>2. minted'.goals = minted.goals + 1
      BY <1>0, <2>2 DEF CreateGoal, TypeOK
    <3> QED
      BY <1>m, <3>1, <3>2, <2>1 DEF Goal
  <2>3. CASE StampRun \/ CreateTasks \/ UnlinkGoal
    <3>0. goals \in [Goal -> GoalFile] /\ at.goal \in Goal
      BY <1>0 DEF TypeOK
    <3>1. goals[g].status # "absent"
      <4>1. CASE StampRun
        BY <3>0, <1>1, <4>1 DEF StampRun, GoalFile
      <4>2. CASE CreateTasks
        BY <3>0, <1>1, <4>2 DEF CreateTasks, GoalFile
      <4>3. CASE UnlinkGoal
        BY <3>0, <1>1, <4>3 DEF UnlinkGoal, NoGoal
      <4> QED
        BY <2>3, <4>1, <4>2, <4>3
    <3> QED
      BY <3>1, <2>1
  <2>4. CASE \E h \in Goal, s \in {"active", "paused"} : SetGoalStatus(h, s)
    <3>1. goals[g].status # "absent"
      BY <1>0, <1>1, <2>4 DEF SetGoalStatus, TypeOK, GoalFile
    <3> QED
      BY <3>1, <2>1
  <2>5. CASE UNCHANGED goals
    BY <1>1, <2>1, <2>5
  <2> QED
    BY <2>2, <2>3, <2>4, <2>5, Frame
<1>2. ASSUME NEW r \in Run, Exists(r)' PROVE r <= minted'.runs /\ runs'[r].goal <= minted'.goals
  <2>00. runs[r].goal \in Goal
    BY <1>0 DEF TypeOK, RunFile
  <2>0. r \in Nat /\ runs[r].goal \in Nat
    BY <2>00 DEF Run, Goal
  <2>1. CASE Exists(r) /\ runs'[r].goal = runs[r].goal
    BY <1>m, <2>0, <2>1 DEF IdsInUse
  <2>2. CASE Fresh(r)
    <3>1. r = minted'.runs
      BY <1>0, <2>2 DEF Fresh, TypeOK
    <3>2. runs'[r].goal \in Goal /\ runs'[r].goal <= minted.goals
      BY <2>2 DEF Fresh, FreshRun
    <3> QED
      BY <1>m, <2>0, <3>1, <3>2 DEF Goal
  <2>3. CASE MovedIn(r)
    BY <1>0, <2>1, <2>3, MovedResults DEF MovedIn
  <2>4. CASE SettledIn(r)
    BY <2>1, <2>4 DEF SettledIn, SettlesTo, Exists, Live
  <2>5. runs'[r] # NoRun
    BY <1>2 DEF Exists, NoRun
  <2>6. CASE runs'[r] = runs[r]
    BY <1>2, <2>1, <2>6 DEF Exists
  <2> QED
    BY <2>2, <2>3, <2>4, <2>5, <2>6, RunSteps
<1>3. ASSUME NEW r \in Run, NEW t \in Task, ~Exists(r)' PROVE runs'[r].results[t].status = "absent"
  <2>1. ASSUME Fresh(r) PROVE FALSE
    <3>1. runs'[r].status = "pending"
      BY <2>1 DEF Fresh, FreshRun
    <3> QED
      BY <1>3, <3>1 DEF Exists
  <2>2. ASSUME MovedIn(r) PROVE FALSE
    <3>1. runs'[r].status = runs[r].status /\ Exists(r)
      BY <1>0, <2>2, MovedResults DEF MovedIn
    <3> QED
      BY <1>3, <3>1 DEF Exists
  <2>3. ~SettledIn(r)
    BY <1>3 DEF SettledIn, SettlesTo, Exists, Live, Terminal
  <2>4. CASE runs'[r] = NoRun
    BY <2>4 DEF NoRun, NoResult
  <2>5. CASE runs'[r] = runs[r]
    BY <1>3, <2>5 DEF IdsInUse, Exists
  <2> QED
    BY <2>1, <2>2, <2>3, <2>4, <2>5, RunSteps
<1>4. ASSUME NEW j \in Held' PROVE j[1] <= minted'.runs
  <2>0. j \in Job /\ j[1] \in Nat /\ coro'[j] # "none"
    BY DEF Held, Job, Run
  <2>1. CASE j \in Held
    BY <1>m, <2>0, <2>1 DEF IdsInUse
  <2>2. CASE StartCoroutine
    <3>1. j \in Held \/ j = at.job
      BY <1>0, <2>0, <2>2 DEF StartCoroutine, TypeOK, Held
    <3>2. Exists(at.job[1]) /\ at.job[1] \in Run
      BY <1>0, <2>2, WorkedOnIsLive, ResultType DEF StartCoroutine, Ownership, Live, TypeOK
    <3>3. at.job[1] <= minted.runs
      BY <3>2 DEF IdsInUse
    <3> QED
      BY <1>m, <2>0, <2>1, <3>1, <3>3
  <2>3. CASE Reap \/ SettleRun \/ Crash
    <3>1. j \in Held
      <4>1. CASE Reap
        BY <2>0, <4>1 DEF Reap, Held
      <4>2. CASE SettleRun
        BY <1>0, <2>0, <4>2 DEF SettleRun, LoopHolders, Alive, Held, TypeOK
      <4>3. CASE Crash
        BY <2>0, <4>3 DEF Crash, NoCoro
      <4> QED
        BY <2>3, <4>1, <4>2, <4>3
    <3> QED
      BY <3>1, <2>1
  <2>4. CASE \E i \in Job : BeginTurn(i) \/ SaveConversation(i) \/ Notified(i)
    <3>1. j \in Held
      BY <1>0, <2>0, <2>4 DEF BeginTurn, SaveConversation, Notified, Held, TypeOK
    <3> QED
      BY <3>1, <2>1
  <2>5. CASE UNCHANGED coro
    BY <2>0, <2>1, <2>5 DEF Held
  <2> QED
    BY <2>2, <2>3, <2>4, <2>5, Frame
<1>5. ASSUME NEW g \in due' PROVE g <= minted'.goals
  <2>0. g \in Goal /\ g \in Nat
    BY <1>0 DEF TypeOK, Goal
  <2>1. CASE g \in due
    BY <1>m, <2>0, <2>1 DEF IdsInUse
  <2>2. CASE TickBegin
    BY <1>m, <2>0, <2>2 DEF TickBegin, DueGoals, IdsInUse
  <2> QED
    BY <2>1, <2>2, Frame DEF SpawnRun, ListReady, Crash
<1>6. ASSUME pc' \in {"define", "enqueue"} PROVE at'.goal <= minted'.goals
  <2>0. at.goal \in Nat
    BY <1>0 DEF TypeOK, Goal
  <2>1. CASE pc \in {"define", "enqueue"} /\ at' = at
    BY <1>m, <2>0, <2>1 DEF IdsInUse
  <2>2. CASE CreateGoal
    BY <1>0, <2>2 DEF CreateGoal, TypeOK, Goal
  <2>3. CASE CreateTasks
    BY <1>6, <2>1, <2>3 DEF CreateTasks
  <2> QED
    BY <1>6, <2>1, <2>2, <2>3, Frame
    DEF TickBegin, Tick, SpawnRun, StampRun, ListReady, SkipHeld, MarkRunning, StartCoroutine,
        Reap, RequeueResult, SettleRun, EnqueueFirstRun, Deciding, Complete, FailForRetry,
        FailForGood, DeleteGoal, DeleteRun, UnlinkGoal, CleanupDone, RunnerStart,
        PollLoopStart, Crash
<1>7. ASSUME pc' = "define", NEW r \in Run, Exists(r)' PROVE runs'[r].goal # at'.goal
  <2>1. CASE CreateGoal
    BY SMTT(30), <1>0, <1>7, <2>1 DEF CreateGoal, TypeOK, IdsInUse, Exists, Goal, RunFile
  <2>2. CASE ~CreateGoal
    <3>1. pc = "define" /\ at' = at
      BY <1>7, <2>2, Frame
      DEF TickBegin, Tick, SpawnRun, StampRun, ListReady, SkipHeld, MarkRunning, StartCoroutine,
          Reap, RequeueResult, SettleRun, CreateTasks, EnqueueFirstRun, Deciding, Complete,
          FailForRetry, FailForGood, DeleteGoal, DeleteRun, UnlinkGoal, CleanupDone, RunnerStart,
          PollLoopStart, Crash
    <3>2. runs' = runs
      BY <1>7, <3>1, <2>2 DEF Next, LoopStep, Tick, Executing, Advance, Request, Free, Serving,
          vars, disk, memory, loop, world, TickBegin, SpawnRun, StampRun, ListReady, SkipHeld,
          MarkRunning, StartCoroutine, Reap, BeginTurn, SaveConversation, Complete,
          FailForRetry, FailForGood, RequeueResult, SettleRun, Notified, CreateTasks,
          EnqueueFirstRun, TriggerGoal, SetGoalStatus, SetPaused, DeleteRun, DeleteGoal,
          UnlinkRun, UnlinkGoal, CleanupConversation, CleanupDone, RunnerStart, ResetRun,
          PollLoopStart, RunnerStop, Crash, Boot, ClockTick
    <3> QED
      BY <1>7, <3>1, <3>2 DEF IdsInUse, Exists
  <2> QED
    BY <2>1, <2>2
<1> QED
    BY <1>1, <1>2, <1>3, <1>4, <1>5, <1>6, <1>7 DEF IdsInUse

\* Every step preserves who may hold the event loop.
LEMMA NextLoopHolders == EngineInv /\ [Next]_vars => LoopHolders'
<1> SUFFICES ASSUME EngineInv, [Next]_vars PROVE LoopHolders'
    OBVIOUS
<1> USE DEF EngineInv, Hold, Release
<1>0. TypeOK
    OBVIOUS
<1>1. ASSUME life' \in {"down", "up"} PROVE Held' = {}
  <2>1. CASE Crash
    BY <2>1 DEF Crash, Held, NoCoro
  <2>2. CASE ~Crash
    <3>1. life \in {"down", "up"}
      BY <1>1, <2>2, Frame DEF PollLoopStart, RunnerStop, Boot
    <3>2. Held = {}
      BY <3>1 DEF LoopHolders
    <3>3. ~StartCoroutine /\ ~Reap /\ ~SettleRun
      BY <3>1, <3>2 DEF StartCoroutine, Reap, SettleRun, LoopHolders, Held, Alive
    <3>4. ASSUME NEW j \in Job PROVE ~BeginTurn(j) /\ ~SaveConversation(j) /\ ~Notified(j)
      BY <3>2 DEF BeginTurn, SaveConversation, Notified, Held
    <3> QED
      BY <2>2, <3>2, <3>3, <3>4, Frame DEF Held
  <2> QED
    BY <2>1, <2>2
<1>2. ASSUME pc' \in {"spawn", "stamp", "dispatch", "started"} PROVE life' = "running"
  <2>1. CASE TickBegin \/ SpawnRun \/ StampRun \/ ListReady \/ SkipHeld \/ MarkRunning
             \/ StartCoroutine \/ Reap
    BY <1>2, <2>1 DEF LoopHolders, TickBegin, SpawnRun, StampRun, ListReady, SkipHeld,
                      MarkRunning, StartCoroutine, Reap, memory
  <2>2. CASE UNCHANGED pc
    BY <1>2, <2>2, Frame DEF LoopHolders, PollLoopStart, RunnerStop, Crash, Boot
  <2> QED
    BY <1>2, <2>1, <2>2, Frame
    DEF Tick, RequeueResult, SettleRun, CreateGoal, CreateTasks, EnqueueFirstRun, Deciding,
        Complete, FailForRetry, FailForGood, DeleteGoal, DeleteRun, UnlinkGoal, CleanupDone,
        RunnerStart, PollLoopStart, Crash
<1>3. ASSUME pc' = "recover" PROVE life' = "up"
  <2>1. CASE RunnerStart
    BY <2>1 DEF RunnerStart, memory
  <2>2. CASE UNCHANGED pc
    BY <1>3, <2>2, Frame DEF LoopHolders, PollLoopStart, RunnerStop, Crash, Boot
  <2> QED
    BY <1>3, <2>1, <2>2, Frame
    DEF TickBegin, Tick, SpawnRun, StampRun, ListReady, SkipHeld, MarkRunning, StartCoroutine,
        Reap, RequeueResult, SettleRun, CreateGoal, CreateTasks, EnqueueFirstRun, Deciding,
        Complete, FailForRetry, FailForGood, DeleteGoal, DeleteRun, UnlinkGoal, CleanupDone,
        PollLoopStart, Crash
<1>4. ASSUME pc' \in {"requeue", "settle"} PROVE at'.job \in Alive'
  <2>1. ASSUME NEW j \in Job, Deciding(j) PROVE at'.job \in Alive'
    <3>1. coro[j] \in {"created", "turn", "saved"} /\ coro' = coro
      BY <2>1 DEF Deciding, Complete, FailForRetry, FailForGood, MayFail, memory
    <3>2. at'.job = j
      BY <1>0, <2>1 DEF Deciding, Complete, FailForRetry, FailForGood, TypeOK
    <3> QED
      BY <3>1, <3>2 DEF Alive
  <2>2. CASE RequeueResult
    BY <2>2 DEF RequeueResult, LoopHolders, Alive, memory
  <2>3. CASE UNCHANGED <<pc, at>>
    <3>1. pc \in {"requeue", "settle"} /\ at.job \in Alive
      BY <1>4, <2>3 DEF LoopHolders
    <3>2. UNCHANGED coro
      BY <1>4, <3>1, Frame
      DEF StartCoroutine, Reap, SettleRun, Crash, BeginTurn, SaveConversation, Notified, Free
    <3> QED
      BY <2>3, <3>1, <3>2 DEF Alive
  <2> QED
    BY <1>4, <2>1, <2>2, <2>3, Frame
    DEF TickBegin, Tick, SpawnRun, StampRun, ListReady, SkipHeld, MarkRunning, StartCoroutine,
        Reap, SettleRun, CreateGoal, CreateTasks, EnqueueFirstRun,
        DeleteGoal, DeleteRun, UnlinkGoal, CleanupDone, RunnerStart, PollLoopStart, Crash
<1> QED
    BY <1>1, <1>2, <1>3, <1>4 DEF LoopHolders

-----------------------------------------------------------------------------
(* Who works on which result.                                               *)

\* _mutate_task_result changes one result, or nothing when its run is gone.
LEMMA MutatedResults ==
    ASSUME TypeOK, NEW j \in Job, NEW res \in Result, runs' = Mutated(j, res)
    PROVE  /\ \A r \in Run : /\ Exists(r)' <=> Exists(r)
                             /\ runs'[r].status = runs[r].status
                             /\ runs'[r].goal = runs[r].goal
           /\ \A i \in Job : ResultOf(i)' = IF i = j /\ Exists(j[1]) THEN res ELSE ResultOf(i)
<1>1. PICK q \in Run, t \in Task : j = <<q, t>>
    BY DEF Job
<1>2. runs \in [Run -> RunFile]
    BY DEF TypeOK
<1>3. CASE Exists(q)
  <2>1. runs' = [runs EXCEPT ![q] = [runs[q] EXCEPT !.results[t] = res]]
    BY <1>1, <1>2, <1>3 DEF Mutated, RunFile
  <2>2. ASSUME NEW r \in Run
        PROVE  /\ Exists(r)' <=> Exists(r)
               /\ runs'[r].status = runs[r].status /\ runs'[r].goal = runs[r].goal
               /\ \A u \in Task : runs'[r].results[u] =
                     IF r = q /\ u = t THEN res ELSE runs[r].results[u]
    BY <1>2, <2>1 DEF RunFile, Exists
  <2> QED
    BY <1>1, <1>3, <2>2 DEF Job, ResultOf
<1>4. CASE ~Exists(q)
    BY <1>1, <1>4 DEF Mutated, Exists, ResultOf
<1> QED
    BY <1>3, <1>4

\* Steps that leave runs and coroutines alone, outside the stretches Ownership names.
LEMMA OwnershipKept ==
    ASSUME Ownership, runs' = runs, \A j \in Job : j \in Alive' <=> j \in Alive,
           pc \notin {"started", "settle"},
           pc' \notin {"started", "settle", "dispatch"},
           life' \in {"running", "stopping"} => life \in {"running", "stopping"}
    PROVE  Ownership'
<1>1. ASSUME NEW j \in Job PROVE ResultOf(j)' = ResultOf(j) /\ (Exists(j[1])' <=> Exists(j[1]))
    BY DEF ResultOf, Exists
<1>2. Alive \subseteq Job /\ Alive' \subseteq Job
    BY DEF Alive
<1> QED
    BY <1>1, <1>2 DEF Ownership

\* A run queued or dropped concerns no coroutine of another run.
LEMMA OwnershipQueued ==
    ASSUME EngineInv, TypeOK', UNCHANGED <<coro, life>>,
           pc \notin {"started", "settle"}, pc' \notin {"started", "settle", "dispatch"},
           NEW r \in Run, \A q \in Run \ {r} : runs'[q] = runs[q],
           Fresh(r) \/ runs'[r] = NoRun
    PROVE  Ownership'
<1> USE DEF EngineInv
<1>1. ASSUME NEW j \in Job, j[1] # r
      PROVE  ResultOf(j)' = ResultOf(j) /\ (Exists(j[1])' <=> Exists(j[1]))
    BY <1>1 DEF ResultOf, Exists, Job
<1>2. ASSUME NEW j \in Job, j[1] = r
      PROVE  ResultOf(j)'.status \in {"pending", "absent"}
    BY <1>2, FreshIsUntouched DEF ResultOf, Job
<1>3. ASSUME NEW j \in Alive', Exists(j[1])' PROVE ResultOf(j)'.status = "running"
  <2>1. j \in Alive /\ j \in Job
    BY DEF Alive
  <2>2. CASE j[1] # r
    BY <1>1, <1>3, <2>1, <2>2 DEF Ownership
  <2>3. CASE j[1] = r
    <3>1. ~Fresh(r)
      BY <2>1, <2>3 DEF IdsInUse, Held, Alive, Fresh, TypeOK
    <3>2. runs'[r] # NoRun
      BY <1>3, <2>3 DEF Exists, NoRun
    <3> QED
      BY <3>1, <3>2
  <2> QED
    BY <2>2, <2>3
<1>4. ASSUME life' \in {"running", "stopping"}, NEW j \in Job, ResultOf(j)'.status = "running"
      PROVE  j \in Alive'
  <2>1. j[1] # r
    BY <1>2, <1>4
  <2>2. ResultOf(j).status = "running"
    BY <1>1, <1>4, <2>1
  <2> QED
    BY <1>4, <2>2 DEF Ownership, Alive
<1> QED
    BY <1>3, <1>4 DEF Ownership

\* queue_run writes one run, under the next id.
LEMMA QueueRunIsFresh ==
    ASSUME TypeOK, IdsInUse, NEW g \in Goal, g <= minted.goals, QueueRun(g)
    PROVE  \E r \in Run : Fresh(r) /\ \A q \in Run \ {r} : runs'[q] = runs[q]
<1>1. PICK r \in Run, n \in 1..MaxRuns :
          /\ r = minted.runs + 1
          /\ NextNumber(runs, g, n)
          /\ runs' = [runs EXCEPT ![r] = FreshRun(goals[g], g, n)]
          /\ minted' = [minted EXCEPT !.runs = r]
    BY DEF QueueRun
<1>2. ~Exists(r) /\ n \in Nat /\ runs \in [Run -> RunFile]
    BY <1>1 DEF IdsInUse, TypeOK, Run
<1> QED
    BY <1>1, <1>2 DEF Fresh

\* An event of the loop that starts no coroutine and touches no run.
LEMMA QuietOwnership ==
    ASSUME EngineInv,
           TickBegin \/ StampRun \/ Reap \/ CreateGoal \/ CreateTasks
           \/ (\E g \in Goal, s \in {"active", "paused"} : SetGoalStatus(g, s))
           \/ (\E p \in BOOLEAN : SetPaused(p))
           \/ (\E g \in Goal : DeleteGoal(g)) \/ UnlinkGoal \/ CleanupConversation \/ CleanupDone
           \/ RunnerStart \/ RunnerStop \/ Boot
           \/ (\E j \in Job : SaveConversation(j) \/ Notified(j))
    PROVE  Ownership'
<1> USE DEF EngineInv, Hold, Release
<1>1. runs' = runs
    BY DEF TickBegin, StampRun, Reap, CreateGoal, CreateTasks, SetGoalStatus, SetPaused,
           DeleteGoal, UnlinkGoal, CleanupConversation, CleanupDone, RunnerStart, RunnerStop,
           Boot, SaveConversation, Notified, disk
<1>2. \A j \in Job : j \in Alive' <=> j \in Alive
  <2>1. CASE Reap
    BY <2>1 DEF Reap, Alive
  <2>2. CASE \E j \in Job : SaveConversation(j) \/ Notified(j)
    BY <2>2 DEF SaveConversation, Notified, Alive, TypeOK
  <2>3. CASE UNCHANGED coro
    BY <2>3 DEF Alive
  <2> QED
    BY <2>1, <2>2, <2>3
    DEF TickBegin, StampRun, CreateGoal, CreateTasks, SetGoalStatus, SetPaused,
        DeleteGoal, UnlinkGoal, CleanupConversation, CleanupDone, RunnerStart, RunnerStop,
        Boot, memory
<1>3. pc \notin {"started", "settle"} /\ pc' \notin {"started", "settle", "dispatch"}
  <2>1. CASE Boot
    BY <2>1 DEF Boot, LoopHolders, Alive, Held, loop
  <2> QED
    BY <2>1 DEF TickBegin, StampRun, Reap, CreateGoal, CreateTasks, SetGoalStatus, SetPaused,
           DeleteGoal, UnlinkGoal, CleanupConversation, CleanupDone, RunnerStart, RunnerStop,
           SaveConversation, Notified, Free, Serving, loop
<1>4. life' \in {"running", "stopping"} => life \in {"running", "stopping"}
    BY DEF TickBegin, StampRun, Reap, CreateGoal, CreateTasks, SetGoalStatus, SetPaused,
           DeleteGoal, UnlinkGoal, CleanupConversation, CleanupDone, RunnerStart, RunnerStop,
           Boot, SaveConversation, Notified, memory
<1> QED
    BY <1>1, <1>2, <1>3, <1>4, OwnershipKept

\* Listing, marking and starting ready results preserves ownership.
LEMMA DispatchOwnership ==
    ASSUME EngineInv, ListReady \/ SkipHeld \/ MarkRunning \/ StartCoroutine
    PROVE  Ownership'
<1> USE DEF EngineInv, Hold, Release
<1>0. TypeOK
    OBVIOUS
<1>1. CASE ListReady
  <2>1. ASSUME NEW j \in todo'
        PROVE  ResultOf(j)'.status = "pending"
               /\ DepsOf(j[1])'[j[2]] \subseteq In(runs'[j[1]].results, {"completed"})
    BY <1>1, <2>1 DEF ListReady, ReadyJobs, DepsCompleted, ResultOf, DepsOf, disk
  <2>2. \A j \in Job : ResultOf(j)' = ResultOf(j) /\ (Exists(j[1])' <=> Exists(j[1]))
                      /\ (j \in Alive' <=> j \in Alive)
    BY <1>1 DEF ListReady, ResultOf, Exists, Alive, disk, memory
  <2>3. Alive \subseteq Job /\ Alive' \subseteq Job
    BY DEF Alive
  <2> QED
    BY <1>1, <2>1, <2>2, <2>3 DEF Ownership, ListReady, memory
<1>2. CASE SkipHeld
  <2>1. todo' \subseteq todo /\ UNCHANGED <<disk, memory, pc, at, due, world>>
    BY <1>2 DEF SkipHeld
  <2> QED
    BY <1>2, <2>1 DEF Ownership, SkipHeld, ResultOf, DepsOf, Exists, Alive, Held, disk, memory
<1>3. CASE MarkRunning
  <2>1. PICK j \in todo :
            /\ j \notin Held
            /\ runs' = Mutated(j, [ResultOf(j) EXCEPT !.status = "running"])
            /\ at' = [at EXCEPT !.job = j]
            /\ todo' = todo \ {j}
    BY <1>3 DEF MarkRunning
  <2>2. /\ j \in Job /\ ResultOf(j) \in Result /\ ResultOf(j).status = "pending"
        /\ at'.job = j /\ pc = "dispatch" /\ pc' = "started"
        /\ UNCHANGED <<goals, coro, life>>
    BY <1>3, <2>1, ResultType DEF MarkRunning, Ownership, TypeOK, memory
  <2>3. [ResultOf(j) EXCEPT !.status = "running"] \in Result /\ Exists(j[1])
    BY <2>2, WorkedOnIsLive DEF Result, Status, Live
  <2>4. /\ \A r \in Run : (Exists(r)' <=> Exists(r)) /\ runs'[r].goal = runs[r].goal
        /\ \A i \in Job \ {j} : ResultOf(i)' = ResultOf(i)
        /\ ResultOf(j)'.status = "running"
    BY <2>1, <2>2, <2>3, MutatedResults DEF Result
  <2>5. Alive' = Alive /\ Held' = Held /\ Alive \subseteq Held /\ Alive \subseteq Job
    BY <2>2 DEF Alive, Held
  <2>6. ASSUME NEW i \in todo'
        PROVE  /\ ResultOf(i)'.status = "pending"
               /\ DepsOf(i[1])'[i[2]] \subseteq In(runs'[i[1]].results, {"completed"})
    <3>1. i \in todo /\ i # j /\ i \in Job /\ i[1] \in Run
      BY <2>1 DEF TypeOK, Job
    <3>2. DepsOf(i[1])' = DepsOf(i[1])
      BY <2>2, <2>4, <3>1 DEF DepsOf
    <3>3. In(runs[i[1]].results, {"completed"}) \subseteq In(runs'[i[1]].results, {"completed"})
      <4> SUFFICES ASSUME NEW d \in Task, runs[i[1]].results[d].status = "completed"
                   PROVE  runs'[i[1]].results[d].status = "completed"
        BY DEF In
      <4>1. <<i[1], d>> \in Job \ {j}
        BY <2>2, <3>1 DEF Job, ResultOf
      <4> QED
        BY <2>4, <4>1 DEF ResultOf
    <3> QED
      BY <2>2, <2>4, <3>1, <3>2, <3>3 DEF Ownership
  <2>7. ASSUME NEW i \in Alive', Exists(i[1])' PROVE ResultOf(i)'.status = "running"
    BY <2>1, <2>2, <2>4, <2>5, <2>7 DEF Ownership, Job
  <2>8. ASSUME life' \in {"running", "stopping"}, NEW i \in Job, ResultOf(i)'.status = "running", i # j
        PROVE  i \in Alive'
    BY <2>2, <2>4, <2>5, <2>8 DEF Ownership
  <2>9. ResultOf(at.job)'.status = "running" /\ at'.job \notin Held'
    <3>1. at'.job = j /\ runs'[j[1]].results[j[2]].status = "running"
      BY <2>2, <2>4 DEF ResultOf
    <3>2. runs'[at'.job[1]].results[at'.job[2]].status = "running"
      BY <3>1
    <3>3. at'.job \notin Held'
      BY <2>1, <2>5, <3>1
    <3> QED
      BY <3>2, <3>3 DEF ResultOf
  <2>10. ASSUME life' \in {"running", "stopping"}, NEW i \in Job, ResultOf(i)'.status = "running"
         PROVE  i \in Alive' \/ at'.job = i
    BY <2>2, <2>8, <2>10
  <2> QED
    BY <2>2, <2>6, <2>7, <2>9, <2>10 DEF Ownership
<1>4. CASE StartCoroutine
  <2> DEFINE j == at.job
             r == at.job[1]
  <2>1. /\ j \in Job /\ r \in Run /\ j[2] \in Task /\ pc = "started" /\ pc' = "dispatch"
        /\ UNCHANGED <<goals, life, todo>>
        /\ runs' = [runs EXCEPT ![r] = Rolled(@, DepsOf(r), now)]
        /\ coro' = [coro EXCEPT ![j] = "created"]
    BY <1>4, ResultType DEF StartCoroutine, TypeOK
  <2>2. /\ SettlesTo(runs[r], runs'[r], DepsOf(r))
        /\ \A t \in Task : runs[r].results[t].status = "running" =>
              runs'[r].results[t] = runs[r].results[t]
        /\ \A q \in Run \ {r} : runs'[q] = runs[q]
    BY <2>1, RolledSettles DEF TypeOK
  <2>3. Exists(r)
    BY <2>1, WorkedOnIsLive DEF Ownership, Live
  <2>4. \A q \in Run : (Exists(q)' <=> Exists(q)) /\ runs'[q].goal = runs[q].goal
    BY <2>1, <2>2, <2>3 DEF SettlesTo, Exists, Live, Terminal
  <2>5. ASSUME NEW i \in Job
        PROVE  /\ ResultOf(i).status = "running" => ResultOf(i)' = ResultOf(i)
               /\ ResultOf(i)'.status = "running" => ResultOf(i).status = "running"
               /\ ResultOf(i).status = "completed" => ResultOf(i)' = ResultOf(i)
               /\ ResultOf(i).status = "pending"
                  /\ DepsOf(i[1])[i[2]] \subseteq In(runs[i[1]].results, {"completed"})
                     => ResultOf(i)' = ResultOf(i)
    <3>1. i[1] \in Run /\ i[2] \in Task
      BY DEF Job
    <3>2. CASE i[1] = r
      <4> DEFINE was == runs[r].results[i[2]]
                 is  == runs'[r].results[i[2]]
      <4>1. /\ is.status \in {"running", "completed"} => was.status = is.status
            /\ was.status \in {"running", "completed"} => is = was
            /\ was.status = "pending" /\ DepsOf(r)[i[2]] \subseteq In(runs[r].results, {"completed"})
                  => is = was
        BY <2>2, <3>1 DEF SettlesTo
      <4>2. ResultOf(i) = was /\ ResultOf(i)' = is
        BY <3>2 DEF ResultOf
      <4> HIDE DEF was, is
      <4> QED
        BY <3>2, <4>1, <4>2
    <3>3. CASE i[1] # r
      BY <2>2, <3>1, <3>3 DEF ResultOf
    <3> QED
      BY <3>2, <3>3
  <2>6. /\ \A i \in Job : i \in Alive' <=> i \in Alive \/ i = j
        /\ Alive' \subseteq Job
    BY <2>1 DEF Alive, TypeOK
  <2>7. ASSUME NEW i \in Alive', Exists(i[1])' PROVE ResultOf(i)'.status = "running"
    <3>1. i \in Job /\ i[1] \in Run
      BY <2>6 DEF Job
    <3> QED
      BY <2>1, <2>4, <2>5, <2>6, <2>7, <3>1 DEF Ownership
  <2>8. ASSUME life' \in {"running", "stopping"}, NEW i \in Job, ResultOf(i)'.status = "running"
        PROVE  i \in Alive'
    BY <2>1, <2>5, <2>6, <2>8 DEF Ownership
  <2>9. ASSUME NEW i \in todo'
        PROVE  /\ ResultOf(i)'.status = "pending"
               /\ DepsOf(i[1])'[i[2]] \subseteq In(runs'[i[1]].results, {"completed"})
    <3>1. i \in todo /\ i \in Job /\ i[1] \in Run
      BY <2>1 DEF TypeOK, Job
    <3>2. DepsOf(i[1])' = DepsOf(i[1])
      BY <2>1, <2>4, <3>1 DEF DepsOf
    <3>3. In(runs[i[1]].results, {"completed"}) \subseteq In(runs'[i[1]].results, {"completed"})
      <4> SUFFICES ASSUME NEW d \in Task, runs[i[1]].results[d].status = "completed"
                   PROVE  runs'[i[1]].results[d].status = "completed"
        BY DEF In
      <4>1. <<i[1], d>> \in Job
        BY <3>1 DEF Job
      <4> QED
        BY <2>5, <4>1 DEF ResultOf
    <3> QED
      BY <2>1, <2>5, <3>1, <3>2, <3>3 DEF Ownership
  <2> QED
    BY <2>1, <2>7, <2>8, <2>9 DEF Ownership
<1> QED
    BY <1>1, <1>2, <1>3, <1>4

\* A coroutine that records something, and ends its stretch in p.
LEMMA RecordOwnership ==
    ASSUME EngineInv, NEW j \in Alive, NEW res \in Result, NEW p,
           runs' = Mutated(j, res), UNCHANGED life,
           \A i \in Job : i \in Alive' <=> i \in Alive,
           pc \in {"idle", "requeue"}, pc' = p,
           \/ p \in {"idle", "requeue"} /\ res.status = ResultOf(j).status
           \/ p = "settle" /\ at'.job = j /\ res.status # "running"
    PROVE  Ownership'
<1> USE DEF EngineInv
<1>0. j \in Job /\ j[1] \in Run /\ Alive \subseteq Job /\ Alive' \subseteq Job
    BY DEF Alive, Job
<1>1. /\ \A r \in Run : (Exists(r)' <=> Exists(r)) /\ runs'[r].status = runs[r].status
      /\ \A i \in Job : ResultOf(i)' = IF i = j /\ Exists(j[1]) THEN res ELSE ResultOf(i)
    BY <1>0, MutatedResults
<1>2. Exists(j[1]) => ResultOf(j).status = "running" /\ runs[j[1]].status \in Live
    BY <1>0, WorkedOnIsLive DEF Ownership, Live
<1>3. ASSUME NEW i \in Alive', Exists(i[1])'
      PROVE  ResultOf(i)'.status = "running" \/ (pc' = "settle" /\ at'.job = i)
  <2>1. i \in Alive /\ i \in Job /\ Exists(i[1]) /\ ResultOf(i).status = "running"
    BY <1>0, <1>1, <1>3 DEF Ownership, Job
  <2> QED
    BY <1>1, <2>1
<1>4. ASSUME pc' = "settle", Exists(at.job[1])'
      PROVE  ResultOf(at.job)'.status # "running" /\ runs'[at'.job[1]].status \in Live
  <2>1. at'.job = j /\ Exists(j[1])'
    BY <1>4 DEF Exists
  <2>2. Exists(j[1]) /\ ResultOf(j)' = res /\ runs'[j[1]].status \in Live
    BY <1>0, <1>1, <1>2, <2>1
  <2>3. runs'[at'.job[1]].results[at'.job[2]].status # "running"
    BY <1>4, <2>1, <2>2 DEF ResultOf
  <2> QED
    BY <2>1, <2>2, <2>3 DEF ResultOf
<1>5. ASSUME life' \in {"running", "stopping"}, NEW i \in Job, ResultOf(i)'.status = "running"
      PROVE  i \in Alive'
    BY <1>1, <1>5 DEF Ownership
<1> QED
    BY <1>3, <1>4, <1>5 DEF Ownership

\* What coroutines record preserves ownership.
LEMMA ExecuteOwnership ==
    ASSUME EngineInv, Executing \/ RequeueResult \/ SettleRun
    PROVE  Ownership'
<1> USE DEF EngineInv, Hold, Release
<1>0. TypeOK
    OBVIOUS
<1>1. ASSUME NEW j \in Job, BeginTurn(j) PROVE Ownership'
  <2> DEFINE res == [ResultOf(j) EXCEPT !.conv = TRUE]
  <2>1. res \in Result /\ res.status = ResultOf(j).status
    BY <1>0, ResultType DEF Result
  <2>2. /\ j \in Alive /\ runs' = Mutated(j, res) /\ UNCHANGED life /\ pc = "idle" /\ pc' = "idle"
        /\ \A i \in Job : i \in Alive' <=> i \in Alive
    BY <1>1 DEF BeginTurn, Alive, Free, TypeOK, loop
  <2> QED
    BY <2>1, <2>2, RecordOwnership
<1>2. ASSUME NEW j \in Job, SaveConversation(j) \/ Notified(j) PROVE Ownership'
    BY <1>2, QuietOwnership
<1>3. ASSUME NEW j \in Job, Deciding(j) PROVE Ownership'
  <2>1. /\ j \in Alive /\ UNCHANGED <<coro, life>> /\ pc = "idle" /\ at'.job = j
        /\ \A i \in Job : i \in Alive' <=> i \in Alive
    BY <1>3 DEF Deciding, Complete, FailForRetry, FailForGood, MayFail, Alive, Free, TypeOK, memory
  <2>2. CASE Complete(j)
    <3> DEFINE res == [ResultOf(j) EXCEPT !.status = "completed"]
    <3>1. res \in Result /\ res.status # "running"
      BY <1>0, ResultType DEF Result, Status, Terminal
    <3>2. runs' = Mutated(j, res) /\ pc' = "settle"
      BY <2>2 DEF Complete
    <3> QED
      BY <2>1, <3>1, <3>2, RecordOwnership
  <2>3. CASE FailForRetry(j)
    <3> DEFINE res == [ResultOf(j) EXCEPT !.retries = @ + 1]
    <3>1. res \in Result /\ res.status = ResultOf(j).status
      BY <1>0, <2>3, ResultType DEF FailForRetry, RetriesLeft, Result
    <3>2. runs' = Mutated(j, res) /\ pc' = "requeue"
      BY <2>3 DEF FailForRetry
    <3> QED
      BY <2>1, <3>1, <3>2, RecordOwnership
  <2>4. CASE FailForGood(j)
    <3> DEFINE res == [ResultOf(j) EXCEPT !.status = "failed"]
    <3>1. res \in Result /\ res.status # "running"
      BY <1>0, ResultType DEF Result, Status, Terminal
    <3>2. runs' = Mutated(j, res) /\ pc' = "settle"
      BY <2>4 DEF FailForGood
    <3> QED
      BY <2>1, <3>1, <3>2, RecordOwnership
  <2> QED
    BY <1>3, <2>2, <2>3, <2>4 DEF Deciding
<1>4. CASE RequeueResult
  <2> DEFINE j == at.job
             res == [ResultOf(j) EXCEPT !.status = "pending"]
  <2>1. /\ j \in Alive /\ UNCHANGED life /\ pc = "requeue" /\ pc' = "settle" /\ at'.job = j
        /\ runs' = Mutated(j, res) /\ \A i \in Job : i \in Alive' <=> i \in Alive
    BY <1>4 DEF RequeueResult, LoopHolders, Alive, memory
  <2>2. res \in Result /\ res.status # "running"
    BY <1>0, ResultType DEF TypeOK, Result, Status, Live
  <2> QED
    BY <2>1, <2>2, RecordOwnership
<1>5. CASE SettleRun
  <2> DEFINE j == at.job
             r == at.job[1]
  <2>1. /\ j \in Job /\ r \in Run /\ j \in Alive /\ pc = "settle" /\ pc' = "idle"
        /\ UNCHANGED <<goals, life>>
    BY <1>0, <1>5, ResultType DEF SettleRun, LoopHolders, TypeOK
  <2>2. /\ \A i \in Job : i \in Alive' <=> i \in Alive /\ i # j
        /\ Alive' \subseteq Job /\ Alive \subseteq Job
    BY <1>5, <2>1 DEF SettleRun, Alive, TypeOK
  <2>3. ResultOf(j).status # "running"
    BY <2>1 DEF Ownership, IdsInUse, ResultOf, Job
  <2>4. ASSUME NEW i \in Job
        PROVE  /\ Exists(i[1])' <=> Exists(i[1])
               /\ ResultOf(i).status = "running" <=> ResultOf(i)'.status = "running"
    <3>1. i[1] \in Run /\ i[2] \in Task
      BY DEF Job
    <3>2. CASE Exists(r) /\ i[1] = r
      <4>1. runs'[r] = Rolled(runs[r], DepsOf(r), now)
        BY <1>0, <1>5, <2>1, <3>2 DEF SettleRun, TypeOK
      <4> QED
        BY <1>0, <3>1, <3>2, <4>1, <2>1, RolledSettles
        DEF SettlesTo, ResultOf, Exists, Live, Terminal
    <3>3. CASE ~(Exists(r) /\ i[1] = r)
      <4>1. runs'[i[1]] = runs[i[1]]
        BY <1>0, <1>5, <2>1, <3>1, <3>3 DEF SettleRun, TypeOK
      <4> QED
        BY <4>1 DEF ResultOf, Exists
    <3> QED
      BY <3>2, <3>3
  <2>5. ASSUME NEW i \in Alive', Exists(i[1])' PROVE ResultOf(i)'.status = "running"
    BY <2>1, <2>2, <2>4, <2>5 DEF Ownership
  <2>6. ASSUME life' \in {"running", "stopping"}, NEW i \in Job, ResultOf(i)'.status = "running"
        PROVE  i \in Alive'
    BY <2>1, <2>2, <2>3, <2>4, <2>6 DEF Ownership
  <2> QED
    BY <2>1, <2>5, <2>6 DEF Ownership
<1> QED
    BY <1>1, <1>2, <1>3, <1>4, <1>5 DEF Executing, Advance, Deciding

\* Queueing and deleting runs preserves ownership.
LEMMA RequestOwnership ==
    ASSUME EngineInv, [Next]_vars,
           SpawnRun \/ EnqueueFirstRun \/ (\E g \in Goal : TriggerGoal(g))
           \/ UnlinkRun \/ (\E r \in Run : DeleteRun(r))
    PROVE  Ownership'
<1> USE DEF EngineInv, Hold, Release
<1>0. TypeOK' /\ runs \in [Run -> RunFile]
    BY NextTypeOK DEF TypeOK
<1>1. /\ UNCHANGED <<coro, life>>
      /\ pc \notin {"started", "settle"} /\ pc' \notin {"started", "settle", "dispatch"}
    BY DEF SpawnRun, EnqueueFirstRun, TriggerGoal, UnlinkRun, DeleteRun, Free, Serving,
           memory, loop
<1>2. \E r \in Run : (Fresh(r) \/ runs'[r] = NoRun) /\ \A q \in Run \ {r} : runs'[q] = runs[q]
  <2>1. ASSUME NEW g \in Goal, g <= minted.goals, QueueRun(g)
        PROVE  \E r \in Run : Fresh(r) /\ \A q \in Run \ {r} : runs'[q] = runs[q]
    BY <2>1, QueueRunIsFresh
  <2>2. CASE SpawnRun
    BY <2>1, <2>2 DEF SpawnRun, IdsInUse, TypeOK
  <2>3. CASE EnqueueFirstRun
    BY <2>1, <2>3 DEF EnqueueFirstRun, IdsInUse, TypeOK
  <2>4. CASE \E g \in Goal : TriggerGoal(g)
    BY <2>1, <2>4 DEF TriggerGoal, IdsInUse
  <2>5. CASE UnlinkRun
    BY <1>0, <2>5 DEF UnlinkRun, RunsOf
  <2>6. CASE \E r \in Run : DeleteRun(r)
    BY <1>0, <2>6 DEF DeleteRun
  <2> QED
    BY <2>2, <2>3, <2>4, <2>5, <2>6
<1> QED
    BY <1>0, <1>1, <1>2, OwnershipQueued

\* Restarts preserve ownership: nothing is marked once polling begins.
LEMMA ProcessOwnership ==
    ASSUME EngineInv, ResetRun \/ PollLoopStart \/ Crash \/ ClockTick \/ UNCHANGED vars
    PROVE  Ownership'
<1> USE DEF EngineInv, Hold, Release
<1>1. CASE ResetRun
  <2>1. pc = "recover" /\ pc' = "recover" /\ life' = "up" /\ Alive' = {}
    BY <1>1 DEF ResetRun, LoopHolders, Alive, Held, memory, loop
  <2> QED
    BY <2>1 DEF Ownership
<1>2. CASE PollLoopStart
  <2>1. pc' = "idle" /\ Alive' = {} /\ runs' = runs
    BY <1>2 DEF PollLoopStart, LoopHolders, Alive, Held, disk
  <2>2. ASSUME NEW j \in Job, ResultOf(j)'.status = "running"
        PROVE  FALSE
    <3>1. ResultOf(j).status = "running" /\ j[1] \in Run /\ j[2] \in Task
      BY <2>1, <2>2 DEF ResultOf, Job
    <3>2. NeedsReset(runs[j[1]], DepsOf(j[1]))
      BY <3>1, WorkedOnIsLive DEF NeedsReset, In, ResultOf, Live
    <3> QED
      BY <1>2, <3>1, <3>2 DEF PollLoopStart
  <2> QED
    BY <2>1, <2>2 DEF Ownership
<1>3. CASE Crash
  <2>1. pc' = "idle" /\ life' = "down" /\ Alive' = {}
    BY <1>3 DEF Crash, Alive, NoCoro
  <2> QED
    BY <2>1 DEF Ownership
<1>4. CASE ClockTick \/ UNCHANGED vars
    BY <1>4 DEF ClockTick, vars, disk, memory, loop, Ownership, ResultOf, DepsOf, Exists,
                Alive, Held
<1> QED
    BY <1>1, <1>2, <1>3, <1>4

\* Every step preserves ownership.
LEMMA NextOwnership == EngineInv /\ [Next]_vars => Ownership'
    BY QuietOwnership, DispatchOwnership, ExecuteOwnership, RequestOwnership, ProcessOwnership
    DEF Next, LoopStep, Tick, Request

-----------------------------------------------------------------------------
(* The theorems.                                                            *)

\* The inductive invariant holds initially.
LEMMA InitEngineInv == Init => EngineInv
<1> SUFFICES ASSUME Init PROVE EngineInv
    OBVIOUS
<1>1. TypeOK
    BY InitTypeOK
<1>2. \A r \in Run : runs[r] = NoRun
    BY DEF Init
<1>3. \A g \in Goal : goals[g].status = "absent"
    BY DEF Init, NoGoal
<1>4. Held = {} /\ Alive = {}
    BY DEF Init, NoCoro, Held, Alive
<1>5. IdsInUse
    BY <1>2, <1>3, <1>4 DEF Init, IdsInUse, Exists, NoRun, NoResult
<1>6. LoopHolders
    BY <1>4 DEF Init, LoopHolders
<1>7. Ownership
    BY <1>4 DEF Init, Ownership
<1>8. DependencyOrder /\ FailureIsJustified
    BY <1>2 DEF DependencyOrder, FailureIsJustified, NoRun, NoResult
<1>9. VerdictIsTruthful /\ NumbersAreUnique
    BY <1>2 DEF VerdictIsTruthful, NumbersAreUnique, Exists, NoRun
<1> QED
    BY <1>1, <1>5, <1>6, <1>7, <1>8, <1>9 DEF EngineInv

\* Every step preserves the inductive invariant.
LEMMA NextEngineInv == EngineInv /\ [Next]_vars => EngineInv'
<1> SUFFICES ASSUME EngineInv, [Next]_vars PROVE EngineInv'
    OBVIOUS
<1>1. TypeOK'
    BY NextTypeOK DEF EngineInv
<1> QED
    BY <1>1, NextIdsInUse, NextLoopHolders, NextOwnership, NextDependencyOrder,
       NextFailureIsJustified, NextVerdictIsTruthful, NextNumbersAreUnique DEF EngineInv

\* The inductive invariant holds in every reachable state.
THEOREM EngineInvariant == Spec => []EngineInv
<1>1. Init => EngineInv
    BY InitEngineInv
<1>2. EngineInv /\ [Next]_vars => EngineInv'
    BY NextEngineInv
<1> QED
    BY <1>1, <1>2, PTL DEF Spec

\* Tasks start and complete only behind completed dependencies (get_ready_task_results),
\* however often the process stops in between.
THEOREM DependenciesFirst == Spec => []DependencyOrder
<1>1. EngineInv => DependencyOrder
    BY DEF EngineInv
<1> QED
    BY <1>1, EngineInvariant, PTL

\* A failure has a reason: retries used up, or a failed dependency (_execute's
\* except branch and the cascade).
THEOREM FailuresJustified == Spec => []FailureIsJustified
<1>1. EngineInv => FailureIsJustified
    BY DEF EngineInv
<1> QED
    BY <1>1, EngineInvariant, PTL

\* The status of a finished run is true of its results (update_run_status).
THEOREM VerdictsTruthful == Spec => []VerdictIsTruthful
<1>1. EngineInv => VerdictIsTruthful
    BY DEF EngineInv
<1> QED
    BY <1>1, EngineInvariant, PTL

\* No two runs of a goal carry the same number (queue_run).
THEOREM NumbersUnique == Spec => []NumbersAreUnique
<1>1. EngineInv => NumbersAreUnique
    BY DEF EngineInv
<1> QED
    BY <1>1, EngineInvariant, PTL

\* While the loop is idle every live coroutine of an existing run owns a running
\* mark, and while the runner serves every running mark has its coroutine: no
\* result is executed twice at once, and none waits for an executor it lost.
THEOREM MarksAndOwnersAgree == Spec => [](OwnersAreRunning /\ RunningIsOwned)
<1>1. EngineInv => OwnersAreRunning /\ RunningIsOwned
    BY DEF EngineInv, Ownership, OwnersAreRunning, RunningIsOwned, Alive
<1> QED
    BY <1>1, EngineInvariant, PTL

\* A finished run's file never changes until it is deleted.
THEOREM FinishedFinal == Spec => FinishedIsFinal
<1>1. EngineInv /\ [Next]_vars =>
        [\A r \in Run : runs[r].status \in Terminal => runs'[r] \in {runs[r], NoRun}]_vars
  <2> SUFFICES ASSUME EngineInv, [Next]_vars, NEW r \in Run, runs[r].status \in Terminal
               PROVE  runs'[r] \in {runs[r], NoRun}
    OBVIOUS
  <2>1. ~Fresh(r) /\ ~MovedIn(r) /\ ~SettledIn(r)
    BY DEF Fresh, MovedIn, SettledIn, Exists, Live, Terminal
  <2> QED
    BY <2>1, RunSteps
<1> QED
    BY <1>1, EngineInvariant, PTL DEF Spec, FinishedIsFinal

-----------------------------------------------------------------------------
(* Concurrency.                                                             *)

\* A dispatch found a free slot before it marks a result, and fills it at once.
SlotInv ==
    /\ SlotBound
    /\ pc = "started" => Cardinality(Held) < MaxConcurrent

\* There are finitely many results, hence finitely many coroutines.
LEMMA JobsAreFinite ==
    ASSUME NEW S \in SUBSET Job
    PROVE  IsFiniteSet(S) /\ Cardinality(S) \in Nat
<1>1. IsFiniteSet(Run) /\ IsFiniteSet(Task)
    BY FS_Interval DEF Run, Task
<1>2. IsFiniteSet(Job)
    BY <1>1, FS_Product DEF Job
<1> QED
    BY <1>2, FS_Subset, FS_CardinalityType

\* Only StartCoroutine, which follows MarkRunning, adds a coroutine.
LEMMA NextSlotInv == EngineInv /\ SlotInv /\ [Next]_vars => SlotInv'
<1> SUFFICES ASSUME EngineInv, SlotInv, [Next]_vars PROVE SlotInv'
    OBVIOUS
<1> USE DEF EngineInv
<1>f. IsFiniteSet(Held) /\ IsFiniteSet(Held')
    BY JobsAreFinite DEF Held
<1>0. MaxConcurrent \in Nat /\ Cardinality(Held) \in Nat /\ Cardinality(Held') \in Nat
    BY JobsAreFinite DEF Held
<1>1. CASE StartCoroutine
  <2>1. Held' = Held \cup {at.job} /\ pc = "started" /\ pc' = "dispatch"
    BY <1>1 DEF StartCoroutine, Held, TypeOK, Hold
  <2>2. Cardinality(Held') <= Cardinality(Held) + 1
    BY <2>1, <1>0, <1>f, FS_AddElement
  <2> QED
    BY <1>0, <2>1, <2>2 DEF SlotInv, SlotBound
<1>2. CASE ~StartCoroutine
  <2>1. Held' \in SUBSET Held
    <3> SUFFICES ASSUME NEW j \in Job, coro'[j] # "none" PROVE coro[j] # "none"
      BY DEF Held
    <3>1. CASE Reap
      BY <3>1 DEF Reap
    <3>2. CASE SettleRun
      BY <3>2 DEF SettleRun, LoopHolders, Alive, TypeOK
    <3>3. CASE Crash
      BY <3>3 DEF Crash, NoCoro
    <3>4. CASE \E i \in Job : BeginTurn(i) \/ SaveConversation(i) \/ Notified(i)
      BY <3>4 DEF BeginTurn, SaveConversation, Notified, TypeOK
    <3> QED
      BY <1>2, <3>1, <3>2, <3>3, <3>4, Frame
  <2>2. Cardinality(Held') <= Cardinality(Held)
    BY <2>1, <1>f, FS_Subset
  <2>3. ASSUME pc' = "started" PROVE Cardinality(Held) < MaxConcurrent
    <3>1. CASE MarkRunning
      BY <3>1 DEF MarkRunning, HasSlot
    <3>2. CASE UNCHANGED pc
      BY <2>3, <3>2 DEF SlotInv
    <3> QED
      BY <1>2, <2>3, <3>1, <3>2, Frame
      DEF TickBegin, Tick, SpawnRun, StampRun, ListReady, SkipHeld, Reap, RequeueResult,
          SettleRun, CreateGoal, CreateTasks, EnqueueFirstRun, Deciding, Complete,
          FailForRetry, FailForGood, DeleteGoal, DeleteRun, UnlinkGoal, CleanupDone,
          RunnerStart, PollLoopStart, Crash, Hold, Release
  <2> QED
    BY <1>0, <2>2, <2>3 DEF SlotInv, SlotBound
<1> QED
    BY <1>1, <1>2

\* There are never more than max_concurrent coroutines, ended ones that wait for
\* the reap included (_tick).
THEOREM SlotsBounded == Spec => []SlotBound
<1>1. Init => EngineInv /\ SlotInv
  <2>1. ASSUME Init PROVE SlotInv
    <3>1. Held = {} /\ pc = "idle"
      BY <2>1 DEF Init, NoCoro, Held
    <3>2. Cardinality(Held) = 0
      BY <3>1, FS_EmptySet
    <3> QED
      BY <3>1, <3>2 DEF SlotInv, SlotBound
  <2> QED
    BY <2>1, InitEngineInv
<1>2. EngineInv /\ SlotInv /\ [Next]_vars => (EngineInv /\ SlotInv)'
    BY NextEngineInv, NextSlotInv
<1>3. SlotInv => SlotBound
    BY DEF SlotInv
<1> QED
    BY <1>1, <1>2, <1>3, PTL DEF Spec

-----------------------------------------------------------------------------
(* The schedule.                                                            *)

\* While a tick spawns, the goals it found due are still due, but for the clock.
DueStaysDue ==
    pc \in {"spawn", "stamp"} =>
        \A g \in due : goals[g].status = "active" /\ ~InProgress(runs, g)

\* A run that is queued for one goal is no run of another.
LEMMA QueuedElsewhere ==
    ASSUME TypeOK, IdsInUse, NEW g \in Goal, QueueRun(g), NEW h \in Goal, h # g
    PROVE  /\ RunsOf(runs', h) = RunsOf(runs, h)
           /\ \A r \in RunsOf(runs, h) : runs'[r] = runs[r]
<1>1. PICK q \in Run, n \in 1..MaxRuns :
          q = minted.runs + 1 /\ runs' = [runs EXCEPT ![q] = FreshRun(goals[g], g, n)]
    BY DEF QueueRun
<1>2. ~Exists(q)
    BY <1>1 DEF IdsInUse, TypeOK, Run
<1>3. runs'[q].goal = g /\ \A r \in Run \ {q} : runs'[r] = runs[r]
    BY <1>1 DEF TypeOK, FreshRun
<1> QED
    BY <1>2, <1>3 DEF RunsOf, Exists

LEMMA NextDueStaysDue == EngineInv /\ DueStaysDue /\ [Next]_vars => DueStaysDue'
<1> SUFFICES ASSUME EngineInv, DueStaysDue, [Next]_vars, pc' \in {"spawn", "stamp"},
                    NEW g \in due'
             PROVE  goals'[g].status = "active" /\ ~InProgress(runs', g)
    BY DEF DueStaysDue
<1> USE DEF EngineInv, Hold, Release
<1>1. CASE TickBegin
    BY <1>1 DEF TickBegin, DueGoals, disk
<1>2. CASE SpawnRun
  <2>1. PICK h \in due : QueueRun(h) /\ due' = due \ {h}
    BY <1>2 DEF SpawnRun
  <2>2. g \in Goal /\ h \in Goal /\ g # h /\ g \in due
    BY <2>1 DEF TypeOK
  <2>3. ~InProgress(runs', g)
    BY <1>2, <2>1, <2>2, QueuedElsewhere DEF SpawnRun, DueStaysDue, InProgress
  <2> QED
    BY <1>2, <2>2, <2>3 DEF SpawnRun, DueStaysDue
<1>3. CASE StampRun
  <2>1. g \in Goal /\ goals'[g].status = goals[g].status
    BY <1>3 DEF StampRun, TypeOK, GoalFile
  <2> QED
    BY <1>3, <2>1 DEF StampRun, DueStaysDue
<1>4. CASE UNCHANGED <<goals, runs, due, pc>>
    BY <1>4 DEF DueStaysDue
<1> QED
    BY <1>1, <1>2, <1>3, <1>4
    DEF Next, LoopStep, Tick, Executing, Advance, Request, vars, disk, loop, Free, Serving, LoopHolders,
        ListReady, SkipHeld, MarkRunning, StartCoroutine, Reap,
        BeginTurn, SaveConversation, Complete, FailForRetry, FailForGood, RequeueResult,
        SettleRun, Notified, CreateGoal, CreateTasks, EnqueueFirstRun, TriggerGoal, SetPaused,
        SetGoalStatus, DeleteRun, DeleteGoal, UnlinkRun, UnlinkGoal, CleanupConversation,
        CleanupDone, RunnerStart, ResetRun, PollLoopStart, RunnerStop, Crash, Boot, ClockTick

\* A tick spawns only for a goal that is active and has no run in progress,
\* whatever was triggered, deleted or paused before it.
THEOREM CronRunsAreApart == Spec => CronRunsDoNotOverlap
<1> DEFINE Apart == (pc = "spawn" /\ minted'.runs # minted.runs) =>
                       LET g == runs'[minted'.runs].goal IN
                       /\ goals[g].status = "active"
                       /\ \A r \in RunsOf(runs, g) : runs[r].status \in Terminal
<1>1. Init => DueStaysDue
    BY DEF Init, DueStaysDue
<1>2. EngineInv /\ DueStaysDue /\ [Next]_vars => Apart
  <2> SUFFICES ASSUME EngineInv, DueStaysDue, [Next]_vars, pc = "spawn",
                      minted'.runs # minted.runs
               PROVE  LET g == runs'[minted'.runs].goal IN
                      /\ goals[g].status = "active"
                      /\ \A r \in RunsOf(runs, g) : runs[r].status \in Terminal
    OBVIOUS
  <2> USE DEF EngineInv
  <2>1. SpawnRun
    BY DEF Next, LoopStep, Tick, Executing, Advance, Request, vars, disk, loop, world, Free, Serving,
        TickBegin, StampRun, ListReady, SkipHeld, MarkRunning, StartCoroutine, Reap,
        BeginTurn, SaveConversation, Complete, FailForRetry, FailForGood, RequeueResult,
        SettleRun, Notified, CreateGoal, CreateTasks, EnqueueFirstRun, TriggerGoal, SetPaused,
        SetGoalStatus, DeleteRun, DeleteGoal, UnlinkRun, UnlinkGoal, CleanupConversation,
        CleanupDone, RunnerStart, ResetRun, PollLoopStart, RunnerStop, Crash, Boot, ClockTick
  <2>2. PICK h \in due : QueueRun(h)
    BY <2>1 DEF SpawnRun
  <2>3. runs'[minted'.runs].goal = h
    BY <2>2 DEF QueueRun, FreshRun, TypeOK
  <2>4. goals[h].status = "active" /\ ~InProgress(runs, h)
    BY <2>1, <2>2 DEF DueStaysDue
  <2>5. \A r \in Run : runs[r].status \in Live \cup Terminal \cup {"absent"}
    BY DEF TypeOK, RunFile, Status
  <2> QED
    BY <2>3, <2>4, <2>5 DEF InProgress, RunsOf
<1> HIDE DEF Apart
<1>3. EngineInv /\ DueStaysDue /\ [Next]_vars => [Apart]_vars
    BY <1>2
<1>4. Spec => [][Apart]_vars
    BY <1>1, <1>3, NextDueStaysDue, EngineInvariant, PTL DEF Spec
<1> QED
    BY <1>4, PTL DEF Apart, CronRunsDoNotOverlap

-----------------------------------------------------------------------------
(* The slots of a schedule.                                                 *)

\* No run is deleted.
RunsStay == \A r \in Run : Exists(r) => Exists(r)'

\* A run that ended says when.
EndsAreDated ==
    \A r \in Run : /\ runs[r].status \in Live => runs[r].done = Never
                   /\ runs[r].status \in Terminal => runs[r].done # Never

\* A goal that was stamped has a run since: still in progress, or ended no earlier.
StampedHasRun(g) ==
    goals[g].spawned # Never =>
        \E r \in RunsOf(runs, g) : runs[r].status \in Live \/ runs[r].done >= goals[g].spawned

SlotsInv ==
    /\ EndsAreDated
    /\ \A g \in Goal : goals[g].spawned <= now /\ StampedHasRun(g)
    /\ pc \in {"spawn", "stamp"} => \A g \in due : goals[g].spawned < now
    /\ pc = "stamp" => at.goal \notin due /\ goals[at.goal].spawned < now /\ InProgress(runs, at.goal)

\* What becomes of a run that is not deleted: when it ends, the clock dates it.
Ages(r) ==
    /\ runs'[r].goal = runs[r].goal
    /\ \/ runs'[r].status = runs[r].status /\ runs'[r].done = runs[r].done
       \/ /\ runs[r].status \in Live
          /\ \/ runs'[r].status \in Live /\ runs'[r].done = Never
             \/ runs'[r].status \in Terminal /\ runs'[r].done = now

\* reset_stale_running never completes a run.
LEMMA ResetIsNotTheEnd ==
    ASSUME TypeOK, NEW r \in Run, NeedsReset(runs[r], DepsOf(r))
    PROVE  Reset(runs[r], DepsOf(r), now).status # "completed"
<1> DEFINE back == Requeued(runs[r])
           new == Cascade(back, DepsOf(r))
<1>1. runs[r] \in RunFile /\ back \in Results /\ DepsOf(r) \in Graph /\ runs[r].results \in Results
    BY RolledType DEF TypeOK
<1>2. new \in Results /\ \A t \in Task : new[t] = back[t] \/ new[t].status = "failed"
    BY <1>1, CascadeChanges
<1>3. PICK t \in Task : back[t].status = "pending"
    BY <1>1 DEF NeedsReset, Requeued, Blocked, In, Results, Result
<1>4. new[t].status \in {"pending", "failed"}
    BY <1>2, <1>3
<1>5. In(new, {"pending", "running", "failed"}) # {}
    BY <1>4 DEF In
<1>6. Reset(runs[r], DepsOf(r), now).status = RunStatus(new)
    BY <1>1 DEF Reset, RunFile
<1> HIDE DEF new
<1> QED
    BY <1>5, <1>6 DEF RunStatus

LEMMA RunAges ==
    ASSUME EngineInv, EndsAreDated, [Next]_vars, NEW r \in Run, Exists(r), Exists(r)'
    PROVE  Ages(r)
<1> USE DEF EngineInv
<1>0. runs \in [Run -> RunFile] /\ runs[r] \in RunFile
    BY DEF TypeOK
<1>1. CASE runs'[r] = runs[r]
    BY <1>1 DEF Ages
<1>2. CASE Queued
  <2>1. PICK g \in Goal, q \in Run, n \in 1..MaxRuns :
            q = minted.runs + 1 /\ runs' = [runs EXCEPT ![q] = FreshRun(goals[g], g, n)]
    BY <1>2 DEF Queued, QueueRun
  <2>2. q # r
    BY <2>1 DEF IdsInUse, TypeOK, Run
  <2> QED
    BY <1>0, <1>1, <2>1, <2>2
<1>3. CASE Moved
  <2>1. PICK j \in Job, res \in Result : runs' = Mutated(j, res)
    BY <1>3 DEF Moved
  <2> QED
    BY <1>0, <2>1 DEF Mutated, Ages, Job, RunFile
<1>4. CASE Settled
  <2>1. PICK q \in Run :
            /\ runs[q].status \in Live
            /\ \/ runs' = [runs EXCEPT ![q] = Rolled(runs[q], DepsOf(q), now)]
               \/ /\ NeedsReset(runs[q], DepsOf(q))
                  /\ runs' = [runs EXCEPT ![q] = Reset(runs[q], DepsOf(q), now)]
    BY <1>4 DEF Settled
  <2>2. CASE q # r
    BY <1>0, <1>1, <2>1, <2>2
  <2>3. CASE q = r
    <3>1. runs[r].done = Never /\ runs[r].status \in Live
      BY <2>1, <2>3 DEF EndsAreDated
    <3>2. ASSUME runs'[r] = Rolled(runs[r], DepsOf(r), now) PROVE Ages(r)
      <4>1. /\ runs'[r].goal = runs[r].goal /\ runs'[r].status \in Live \cup Terminal
            /\ runs'[r].done = IF runs'[r].status \in Terminal THEN now ELSE Never
        BY <1>0, <3>1, <3>2, RolledSettles DEF Rolled, RunFile, SettlesTo
      <4> QED
        BY <3>1, <4>1 DEF Ages, Live, Terminal
    <3>3. ASSUME runs'[r] = Reset(runs[r], DepsOf(r), now), NeedsReset(runs[r], DepsOf(r)) PROVE Ages(r)
      <4>1. /\ runs'[r].goal = runs[r].goal /\ runs'[r].status \in Live \cup Terminal
            /\ runs'[r].status # "completed"
        BY <3>3, ResetSettles, ResetIsNotTheEnd DEF SettlesTo
      <4>2. runs'[r].done = IF runs'[r].status = "failed" THEN now ELSE Never
        BY <1>0, <3>1, <3>3 DEF Reset, RunFile
      <4> QED
        BY <3>1, <4>1, <4>2 DEF Ages, Live, Terminal
    <3> QED
      BY <1>0, <2>1, <2>3, <3>2, <3>3
  <2> QED
    BY <2>2, <2>3
<1>5. CASE Dropped
    BY <1>0, <1>1, <1>5 DEF Dropped, Exists, NoRun
<1> QED
    BY <1>1, <1>2, <1>3, <1>4, <1>5, StepsChangeRuns DEF RunsChange

\* A run that appears has not ended.
LEMMA NewRunsAreOpen ==
    ASSUME EngineInv, [Next]_vars, NEW r \in Run, ~Exists(r), Exists(r)'
    PROVE  runs'[r].status = "pending" /\ runs'[r].done = Never
<1> USE DEF EngineInv
<1>1. Fresh(r)
  <2>1. runs'[r] = runs[r] \/ Fresh(r) \/ MovedIn(r) \/ SettledIn(r) \/ runs'[r] = NoRun
    BY StepsChangeRuns, RunChanges
  <2>2. runs'[r] # runs[r] /\ runs'[r] # NoRun
    BY DEF Exists, NoRun
  <2> QED
    BY <2>1, <2>2 DEF MovedIn, SettledIn, Exists, Live
<1> QED
    BY <1>1 DEF Fresh, FreshRun

\* What becomes of a goal's stamp, and of the clock.
LEMMA StampsMove ==
    ASSUME EngineInv, [Next]_vars
    PROVE  /\ \A g \in Goal : \/ goals'[g].spawned = goals[g].spawned
                              \/ goals'[g].spawned = Never
                              \/ StampRun /\ g = at.goal /\ goals'[g].spawned = now
           /\ now \in Int /\ now' \in Int /\ now <= now'
<1> USE DEF EngineInv
<1>0. goals \in [Goal -> GoalFile] /\ at.goal \in Goal /\ now \in Int
    BY DEF TypeOK, Time
<1>1. ASSUME NEW g \in Goal
      PROVE  \/ goals'[g].spawned = goals[g].spawned
             \/ goals'[g].spawned = Never
             \/ StampRun /\ g = at.goal /\ goals'[g].spawned = now
  <2>1. CASE StampRun
    BY <1>0, <2>1 DEF StampRun, GoalFile
  <2>2. CASE CreateGoal
    BY <1>0, <2>2 DEF CreateGoal, NoGoal
  <2>3. CASE CreateTasks
    BY <1>0, <2>3 DEF CreateTasks, GoalFile
  <2>4. CASE UnlinkGoal
    BY <1>0, <2>4 DEF UnlinkGoal, NoGoal
  <2>5. ASSUME NEW h \in Goal, NEW s \in {"active", "paused"}, SetGoalStatus(h, s)
        PROVE  goals'[g].spawned = goals[g].spawned
    BY <1>0, <2>5 DEF SetGoalStatus, GoalFile
  <2> QED
    BY <2>1, <2>2, <2>3, <2>4, <2>5, Frame
<1>2. now' = now \/ now' = now + 1
    BY Zenon DEF Next, LoopStep, Tick, Executing, Advance, Request, vars, world,
        TickBegin, SpawnRun, StampRun, ListReady, SkipHeld, MarkRunning, StartCoroutine, Reap,
        BeginTurn, SaveConversation, Complete, FailForRetry, FailForGood, RequeueResult,
        SettleRun, Notified, CreateGoal, CreateTasks, EnqueueFirstRun, TriggerGoal, SetPaused,
        SetGoalStatus, DeleteRun, DeleteGoal, UnlinkRun, UnlinkGoal, CleanupConversation,
        CleanupDone, RunnerStart, ResetRun, PollLoopStart, RunnerStop, Crash, Boot, ClockTick
<1> QED
    BY <1>0, <1>1, <1>2

\* A goal that is due was last stamped in an earlier slot.
LEMMA DueIsLater ==
    ASSUME EngineInv, SlotsInv, NEW g \in DueGoals(goals, runs, now)
    PROVE  goals[g].spawned < now
<1> USE DEF EngineInv
<1>0. goals \in [Goal -> GoalFile] /\ runs \in [Run -> RunFile] /\ now \in Nat /\ g \in Goal
      /\ goals[g].spawned \in Int
    BY DEF TypeOK, Time, DueGoals, GoalFile, Stamp, Never
<1>1. CASE goals[g].spawned = Never
    BY <1>0, <1>1 DEF Never
<1>2. CASE goals[g].spawned # Never
  <2>1. PICK r \in RunsOf(runs, g) : runs[r].status \in Live \/ runs[r].done >= goals[g].spawned
    BY <1>0, <1>2 DEF SlotsInv, StampedHasRun
  <2>2. r \in Run /\ runs[r].status \in Terminal /\ runs[r].done >= goals[g].spawned
    BY <1>0, <2>1 DEF DueGoals, InProgress, RunsOf, RunFile, Status, Live, Terminal
  <2>3. runs[r].done # Never /\ runs[r].done \in Int
    BY <1>0, <2>2 DEF SlotsInv, EndsAreDated, RunFile, Stamp, Time, Never
  <2>4. runs[r].done < now
    BY <2>1, <2>3 DEF DueGoals, FiredSince
  <2> QED
    BY <1>0, <2>2, <2>3, <2>4
<1> QED
    BY <1>1, <1>2

LEMMA NextSlotsInv == EngineInv /\ SlotsInv /\ [Next]_vars /\ RunsStay => SlotsInv'
<1> SUFFICES ASSUME EngineInv, SlotsInv, [Next]_vars, RunsStay PROVE SlotsInv'
    OBVIOUS
<1> USE DEF EngineInv
<1>0. /\ goals \in [Goal -> GoalFile] /\ runs \in [Run -> RunFile] /\ at.goal \in Goal
      /\ now \in Int /\ now' \in Int /\ now <= now' /\ EndsAreDated /\ due \in SUBSET Goal
      /\ \A g \in Goal : goals[g].spawned \in Int
    BY StampsMove DEF TypeOK, SlotsInv, GoalFile, Stamp, Time, Never
<1>1. EndsAreDated'
  <2> SUFFICES ASSUME NEW r \in Run
               PROVE  /\ runs'[r].status \in Live => runs'[r].done = Never
                      /\ runs'[r].status \in Terminal => runs'[r].done # Never
    BY DEF EndsAreDated
  <2>1. CASE ~Exists(r)'
    BY <2>1 DEF Exists, Live, Terminal
  <2>2. CASE ~Exists(r) /\ Exists(r)'
    BY <2>2, NewRunsAreOpen DEF Terminal
  <2>3. CASE Exists(r) /\ Exists(r)'
    <3>1. Ages(r) /\ now # Never
      BY <1>0, <2>3, RunAges DEF TypeOK, Time, Never
    <3> QED
      BY <1>0, <3>1 DEF Ages, EndsAreDated, Live, Terminal
  <2> QED
    BY <2>1, <2>2, <2>3
<1>2. ASSUME NEW g \in Goal PROVE goals'[g].spawned <= now' /\ StampedHasRun(g)'
  <2>1. goals'[g].spawned <= now'
    <3>1. goals[g].spawned <= now /\ Never <= now
      BY DEF SlotsInv, TypeOK, Time, Never
    <3> QED
      BY <1>0, <3>1, StampsMove DEF Never
  <2>2. CASE StampRun /\ g = at.goal
    <3>1. PICK r \in RunsOf(runs, g) : runs[r].status \in Live
      BY <2>2 DEF StampRun, SlotsInv, InProgress
    <3>2. r \in RunsOf(runs', g) /\ runs'[r].status \in Live
      BY <2>2, <3>1 DEF StampRun
    <3> QED
      BY <2>1, <3>2 DEF StampedHasRun
  <2>3. CASE goals'[g].spawned = Never
    BY <2>1, <2>3 DEF StampedHasRun
  <2>4. CASE goals'[g].spawned = goals[g].spawned /\ goals[g].spawned # Never
    <3>1. PICK r \in RunsOf(runs, g) : runs[r].status \in Live \/ runs[r].done >= goals[g].spawned
      BY <2>4 DEF SlotsInv, StampedHasRun
    <3>2. r \in Run /\ Exists(r) /\ Exists(r)' /\ runs[r].goal = g
      BY <3>1 DEF RunsOf, Exists, RunsStay
    <3>3. Ages(r)
      BY <1>0, <3>2, RunAges
    <3>4. r \in RunsOf(runs', g)
      BY <3>2, <3>3 DEF RunsOf, Exists, Ages
    <3>5. goals[g].spawned <= now
      BY DEF SlotsInv
    <3>6. runs[r].status \in Terminal => runs'[r].done = runs[r].done
      BY <3>3 DEF Ages, Live, Terminal
    <3>7. runs'[r].status \in Live \/ runs'[r].done >= goals[g].spawned
      BY <1>0, <3>1, <3>3, <3>5 DEF Ages, EndsAreDated, Live, Terminal
    <3> QED
      BY <2>1, <2>4, <3>4, <3>7 DEF StampedHasRun
  <2> QED
    BY <2>1, <2>2, <2>3, <2>4, StampsMove
<1>3. /\ pc' \in {"spawn", "stamp"} => \A g \in due' : goals'[g].spawned < now'
      /\ pc' = "stamp" => at'.goal \notin due' /\ goals'[at'.goal].spawned < now' /\ InProgress(runs', at'.goal)
  <2> USE DEF Hold, Release
  <2>1. CASE TickBegin
    BY <2>1, DueIsLater DEF TickBegin, disk, world
  <2>2. CASE SpawnRun
    <3>1. PICK g \in due : QueueRun(g) /\ at' = [at EXCEPT !.goal = g] /\ due' = due \ {g}
      BY <2>2 DEF SpawnRun
    <3>2. PICK q \in Run, n \in 1..MaxRuns :
              q = minted.runs + 1 /\ runs' = [runs EXCEPT ![q] = FreshRun(goals[g], g, n)]
      BY <3>1 DEF QueueRun
    <3>3. q \in RunsOf(runs', g) /\ runs'[q].status \in Live
      BY <1>0, <3>2 DEF RunsOf, FreshRun, Live
    <3>4. at'.goal = g /\ g \notin due' /\ due' \subseteq due /\ goals' = goals /\ now' = now /\ pc = "spawn"
      BY <2>2, <3>1 DEF SpawnRun, TypeOK
    <3> QED
      BY <3>1, <3>3, <3>4 DEF SlotsInv, InProgress
  <2>3. CASE StampRun
    <3>1. \A g \in Goal \ {at.goal} : goals'[g] = goals[g]
      BY <1>0, <2>3 DEF StampRun
    <3>2. at.goal \notin due
      BY <2>3 DEF StampRun, SlotsInv
    <3> QED
      BY <1>0, <2>3, <3>1, <3>2 DEF StampRun, SlotsInv, world
  <2>4. CASE UNCHANGED <<goals, runs, due, pc, at>>
    BY <1>0, <2>4 DEF SlotsInv
  <2>5. CASE pc' \notin {"spawn", "stamp"} \/ (due' = {} /\ pc' # "stamp")
    BY <2>5
  <2> QED
    BY <2>1, <2>2, <2>3, <2>4, <2>5
    DEF Next, LoopStep, Tick, Executing, Advance, Request, vars, disk, loop, Free, Serving, LoopHolders,
        ListReady, SkipHeld, MarkRunning, StartCoroutine, Reap,
        BeginTurn, SaveConversation, Complete, FailForRetry, FailForGood, RequeueResult,
        SettleRun, Notified, CreateGoal, CreateTasks, EnqueueFirstRun, TriggerGoal, SetPaused,
        SetGoalStatus, DeleteRun, DeleteGoal, UnlinkRun, UnlinkGoal, CleanupConversation,
        CleanupDone, RunnerStart, ResetRun, PollLoopStart, RunnerStop, Crash, Boot, ClockTick
<1> QED
    BY <1>1, <1>2, <1>3 DEF SlotsInv

\* As long as no run is deleted, no goal is stamped twice in a slot: across restarts in
\* the middle of a tick, triggers, pauses and a clock that moves on during the tick.
THEOREM SlotsFireOnce == Spec /\ [][RunsStay]_vars => SlotFiresOnce
<1> DEFINE Later == (pc = "stamp" /\ pc' = "spawn") => goals[at.goal].spawned < now
<1>1. Init => SlotsInv
    BY DEF Init, SlotsInv, EndsAreDated, StampedHasRun, NoRun, NoGoal, Live, Terminal, Never
<1>2. SlotsInv => Later
    BY DEF SlotsInv
<1>3. EngineInv /\ SlotsInv /\ [Next]_vars /\ [RunsStay]_vars => SlotsInv'
  <2>1. CASE RunsStay
    BY <2>1, NextSlotsInv
  <2>2. CASE UNCHANGED vars
    BY <2>2 DEF vars, disk, loop, world, SlotsInv, EndsAreDated, StampedHasRun
  <2> QED
    BY <2>1, <2>2
<1> HIDE DEF Later
<1>4. Spec /\ [][RunsStay]_vars => []SlotsInv
    BY <1>1, <1>3, EngineInvariant, PTL DEF Spec
<1>5. Spec /\ [][RunsStay]_vars => [][Later]_vars
    BY <1>2, <1>4, PTL
<1> QED
    BY <1>5, PTL DEF Later, SlotFiresOnce

-----------------------------------------------------------------------------
(* Runs and their status.                                                   *)

Tasked(res) == In(res, Status \ {"absent"}) # {}
Agrees(r) ==
    /\ runs[r].status = RunStatus(runs[r].results)
    /\ Blocked(runs[r].results, DepsOf(r)) = {}

\* Only the stretch that changed a result, and has yet to recompute the status of
\* its run, may leave the two apart, until the process exits.
AgreeInv ==
    crashes = 0 =>
        \A r \in Run : Exists(r) /\ Tasked(runs[r].results) =>
            Agrees(r) \/ (pc \in {"started", "settle"} /\ at.job[1] = r)

\* A status and what is blocked depend on the statuses of the results alone.
LEMMA SameStatuses ==
    ASSUME NEW res, NEW was, NEW deps,
           \A t \in Task : res[t].status = was[t].status
    PROVE  /\ RunStatus(res) = RunStatus(was) /\ Blocked(res, deps) = Blocked(was, deps)
           /\ Tasked(res) <=> Tasked(was)
<1>1. ASSUME NEW S PROVE In(res, S) = In(was, S)
    BY DEF In
<1> QED
    BY <1>1 DEF RunStatus, Blocked, BlocksAll, Tasked

\* What update_run_status and reset_stale_running write agrees.
LEMMA SettledAgrees ==
    ASSUME TypeOK, NEW r \in Run,
           NEW new \in {Rolled(runs[r], DepsOf(r), now), Reset(runs[r], DepsOf(r), now)}
    PROVE  /\ new.status = RunStatus(new.results) /\ Blocked(new.results, DepsOf(r)) = {}
           /\ new.goal = runs[r].goal
<1>1. runs[r] \in RunFile /\ runs[r].results \in Results /\ Requeued(runs[r]) \in Results /\ DepsOf(r) \in Graph
    BY RolledType DEF TypeOK
<1>2. /\ \/ new.results = Cascade(runs[r].results, DepsOf(r))
         \/ new.results = Cascade(Requeued(runs[r]), DepsOf(r))
      /\ new.status = RunStatus(new.results) /\ new.goal = runs[r].goal
    BY <1>1 DEF Rolled, Reset, RunFile
<1> QED
    BY <1>1, <1>2, CascadeIsComplete

\* So does a run file as it is queued.
LEMMA FreshAgrees ==
    ASSUME NEW res, NEW deps \in Graph, Tasked(res),
           \A t \in Task : res[t].status \in {"pending", "absent"}
    PROVE  RunStatus(res) = "pending" /\ Blocked(res, deps) = {}
<1>1. /\ In(res, {"failed"}) = {} /\ In(res, {"running"}) = {}
      /\ In(res, {"pending", "running", "failed"}) # {}
    BY DEF In, Tasked, Status
<1>2. BlocksAll(res, deps, {})
    BY <1>1 DEF BlocksAll
<1> QED
    BY <1>1, <1>2 DEF RunStatus, Blocked

LEMMA NextAgreeInv == EngineInv /\ AgreeInv /\ [Next]_vars => AgreeInv'
<1> SUFFICES ASSUME EngineInv, AgreeInv, [Next]_vars, crashes' = 0,
                    NEW r \in Run, Exists(r)', Tasked(runs'[r].results),
                    ~(pc' \in {"started", "settle"} /\ at'.job[1] = r)
             PROVE  Agrees(r)'
    BY DEF AgreeInv, Tasked
<1> USE DEF EngineInv, Hold, Release
<1>0. crashes = 0 /\ ~Crash
  <2>1. crashes' = crashes \/ crashes' = crashes + 1
    BY Zenon DEF Next, LoopStep, Tick, Executing, Advance, Request, vars, world,
        TickBegin, SpawnRun, StampRun, ListReady, SkipHeld, MarkRunning, StartCoroutine, Reap,
        BeginTurn, SaveConversation, Complete, FailForRetry, FailForGood, RequeueResult,
        SettleRun, Notified, CreateGoal, CreateTasks, EnqueueFirstRun, TriggerGoal, SetPaused,
        SetGoalStatus, DeleteRun, DeleteGoal, UnlinkRun, UnlinkGoal, CleanupConversation,
        CleanupDone, RunnerStart, ResetRun, PollLoopStart, RunnerStop, Crash, Boot, ClockTick
  <2>2. Crash => crashes' = crashes + 1
    BY DEF Crash
  <2> QED
    BY <2>1, <2>2 DEF TypeOK
<1>t. /\ runs \in [Run -> RunFile] /\ runs[r].results \in Results /\ at.job[1] \in Run /\ at.job \in Job
      /\ DepsOf(r) \in Graph /\ DepsOf(r)' \in Graph
  <2>1. TypeOK'
    BY NextTypeOK
  <2>2. DepsOf(r)' \in Graph
    BY <2>1 DEF TypeOK, RunFile, GoalFile, DepsOf, Graph
  <2> QED
    BY <2>2, RolledType, ResultType DEF TypeOK
<1>d. ASSUME Exists(r), runs'[r].goal = runs[r].goal PROVE DepsOf(r)' = DepsOf(r)
    BY <1>d, DepsAreFixed DEF DepsOf
\* A run that is not touched, and was not waiting for its status.
<1>k. ASSUME Exists(r), runs'[r].goal = runs[r].goal, runs'[r].status = runs[r].status,
             \A t \in Task : runs'[r].results[t].status = runs[r].results[t].status,
             ~(pc \in {"started", "settle"} /\ at.job[1] = r)
      PROVE  Agrees(r)'
  <2>1. /\ RunStatus(runs'[r].results) = RunStatus(runs[r].results)
        /\ Blocked(runs'[r].results, DepsOf(r)) = Blocked(runs[r].results, DepsOf(r))
        /\ Tasked(runs[r].results)
    BY ZenonT(30), <1>k, SameStatuses
  <2> QED
    BY <1>0, <1>d, <1>k, <2>1 DEF AgreeInv, Agrees
<1>q. ASSUME NEW g \in Goal, QueueRun(g), pc \notin {"started", "settle"} PROVE Agrees(r)'
  <2>1. PICK q \in Run, n \in 1..MaxRuns :
            q = minted.runs + 1 /\ runs' = [runs EXCEPT ![q] = FreshRun(goals[g], g, n)]
    BY <1>q DEF QueueRun
  <2>2. CASE r = q
    <3>1. /\ runs'[r].status = "pending"
          /\ \A t \in Task : runs'[r].results[t].status \in {"pending", "absent"}
      BY <1>t, <2>1, <2>2 DEF FreshRun, NoResult
    <3> QED
      BY <1>t, <3>1, FreshAgrees DEF Agrees
  <2>3. CASE r # q
    BY <1>t, <1>k, <1>q, <2>1, <2>3 DEF Exists
  <2> QED
    BY <2>2, <2>3
<1>m. ASSUME NEW j \in Job, NEW res \in Result, runs' = Mutated(j, res),
             ~(pc \in {"started", "settle"} /\ at.job[1] = r),
             j[1] # r \/ res.status = ResultOf(j).status
      PROVE  Agrees(r)'
  <2>1. CASE ~Exists(j[1]) \/ j[1] # r
    <3>1. runs'[r] = runs[r]
      BY <1>m, <1>t, <2>1 DEF Mutated, Job
    <3> QED
      BY <1>k, <1>m, <3>1 DEF Exists
  <2>2. CASE Exists(j[1]) /\ j[1] = r
    <3>1. /\ runs'[r].goal = runs[r].goal /\ runs'[r].status = runs[r].status
          /\ \A t \in Task : runs'[r].results[t].status = runs[r].results[t].status
      BY <1>m, <1>t, <2>2 DEF Mutated, Job, RunFile, ResultOf
    <3> QED
      BY <1>k, <1>m, <2>2, <3>1
  <2> QED
    BY <2>1, <2>2
<1>u. ASSUME UNCHANGED runs, UNCHANGED <<pc, at>> \/ pc \notin {"started", "settle"} PROVE Agrees(r)'
    BY <1>k, <1>u DEF Exists
<1>1. CASE SpawnRun \/ EnqueueFirstRun \/ (\E g \in Goal : TriggerGoal(g))
    BY <1>1, <1>q DEF SpawnRun, EnqueueFirstRun, TriggerGoal, Free, TypeOK
<1>2. CASE MarkRunning
  <2>1. PICK j \in todo : /\ runs' = Mutated(j, [ResultOf(j) EXCEPT !.status = "running"])
                          /\ at' = [at EXCEPT !.job = j]
    BY <1>2 DEF MarkRunning
  <2>2. j \in Job /\ [ResultOf(j) EXCEPT !.status = "running"] \in Result /\ j[1] # r
    BY <1>2, <2>1, ResultType DEF MarkRunning, TypeOK, Result, Status, Live
  <2> QED
    BY <1>2, <1>m, <2>1, <2>2 DEF MarkRunning
<1>3. CASE StartCoroutine
  <2>1. runs' = [runs EXCEPT ![at.job[1]] = Rolled(runs[at.job[1]], DepsOf(at.job[1]), now)]
    BY <1>3 DEF StartCoroutine
  <2>2. CASE at.job[1] = r
    <3>1. Exists(r)
      BY <1>3, <1>t, <2>2, WorkedOnIsLive DEF StartCoroutine, Ownership, Live
    <3> QED
      BY <1>d, <1>t, <2>1, <2>2, <3>1, SettledAgrees DEF Agrees
  <2>3. CASE at.job[1] # r
    BY <1>k, <1>t, <2>1, <2>3 DEF Exists
  <2> QED
    BY <2>2, <2>3
<1>4. ASSUME NEW j \in Job, Advance(j) PROVE Agrees(r)'
  <2>0. ResultOf(j) \in Result /\ pc = "idle"
    BY <1>4, ResultType DEF Advance, BeginTurn, SaveConversation, Complete, FailForRetry,
                            FailForGood, Notified, Free
  <2>1. CASE BeginTurn(j)
    <3>1. /\ [ResultOf(j) EXCEPT !.conv = TRUE] \in Result
          /\ [ResultOf(j) EXCEPT !.conv = TRUE].status = ResultOf(j).status
      BY <2>0 DEF Result
    <3> QED
      BY <1>m, <2>0, <2>1, <3>1 DEF BeginTurn
  <2>2. CASE SaveConversation(j) \/ Notified(j)
    BY <1>u, <2>0, <2>2 DEF SaveConversation, Notified, disk
  <2>3. CASE Complete(j)
    <3>1. [ResultOf(j) EXCEPT !.status = "completed"] \in Result /\ j[1] # r
      BY <2>0, <2>3 DEF Complete, Result, Status, Terminal, TypeOK
    <3> QED
      BY <1>m, <2>0, <2>3, <3>1 DEF Complete
  <2>4. CASE FailForRetry(j)
    <3>1. /\ [ResultOf(j) EXCEPT !.retries = @ + 1] \in Result
          /\ [ResultOf(j) EXCEPT !.retries = @ + 1].status = ResultOf(j).status
      BY <2>0, <2>4 DEF FailForRetry, RetriesLeft, Result
    <3> QED
      BY <1>m, <2>0, <2>4, <3>1 DEF FailForRetry
  <2>5. CASE FailForGood(j)
    <3>1. [ResultOf(j) EXCEPT !.status = "failed"] \in Result /\ j[1] # r
      BY <2>0, <2>5 DEF FailForGood, Result, Status, Terminal, TypeOK
    <3> QED
      BY <1>m, <2>0, <2>5, <3>1 DEF FailForGood
  <2> QED
    BY <1>4, <2>1, <2>2, <2>3, <2>4, <2>5 DEF Advance
<1>5. CASE RequeueResult
  <2>1. [ResultOf(at.job) EXCEPT !.status = "pending"] \in Result /\ at.job[1] # r
    BY <1>5, <1>t, ResultType DEF RequeueResult, Result, Status, Live
  <2> QED
    BY <1>5, <1>m, <1>t, <2>1 DEF RequeueResult
<1>6. CASE SettleRun
  <2>1. CASE Exists(at.job[1])
    <3>1. runs' = [runs EXCEPT ![at.job[1]] = Rolled(runs[at.job[1]], DepsOf(at.job[1]), now)]
      BY <1>6, <2>1 DEF SettleRun
    <3>2. CASE at.job[1] = r
      BY <1>d, <1>t, <2>1, <3>1, <3>2, SettledAgrees DEF Agrees
    <3>3. CASE at.job[1] # r
      BY <1>k, <1>t, <3>1, <3>3 DEF Exists
    <3> QED
      BY <3>2, <3>3
  <2>2. CASE ~Exists(at.job[1])
    BY <1>6, <1>k, <2>2 DEF SettleRun, Exists
  <2> QED
    BY <2>1, <2>2
<1>7. CASE ResetRun
  <2>1. PICK q \in Run : /\ NeedsReset(runs[q], DepsOf(q))
                         /\ runs' = [runs EXCEPT ![q] = Reset(runs[q], DepsOf(q), now)]
    BY <1>7 DEF ResetRun
  <2>2. CASE q = r
    <3>1. Exists(r)
      BY <2>1, <2>2 DEF NeedsReset, Exists, Live
    <3> QED
      BY <1>d, <1>t, <2>1, <2>2, <3>1, SettledAgrees DEF Agrees
  <2>3. CASE q # r
    BY <1>7, <1>k, <1>t, <2>1, <2>3 DEF ResetRun, Exists
  <2> QED
    BY <2>2, <2>3
<1>8. CASE UnlinkRun \/ (\E q \in Run : DeleteRun(q))
  <2>1. PICK q \in Run : runs' = [runs EXCEPT ![q] = NoRun]
    BY <1>8 DEF UnlinkRun, DeleteRun, RunsOf
  <2>2. q # r
    BY <1>t, <2>1 DEF Exists, NoRun
  <2>3. pc \notin {"started", "settle"}
    BY <1>8 DEF UnlinkRun, DeleteRun, Serving
  <2> QED
    BY <1>k, <1>t, <2>1, <2>2, <2>3 DEF Exists
<1>9. CASE \/ TickBegin \/ StampRun \/ ListReady \/ SkipHeld \/ Reap \/ CreateGoal \/ CreateTasks
           \/ (\E g \in Goal : DeleteGoal(g)) \/ UnlinkGoal \/ CleanupConversation \/ CleanupDone
           \/ (\E g \in Goal, s \in {"active", "paused"} : SetGoalStatus(g, s))
           \/ (\E p \in BOOLEAN : SetPaused(p)) \/ RunnerStart \/ PollLoopStart \/ RunnerStop
           \/ Boot \/ ClockTick
    BY <1>9, <1>u, Zenon DEF TickBegin, StampRun, ListReady, SkipHeld, Reap, CreateGoal, CreateTasks,
        DeleteGoal, UnlinkGoal, CleanupConversation, CleanupDone, SetGoalStatus, SetPaused,
        RunnerStart, PollLoopStart, RunnerStop, Boot, ClockTick, disk, loop, Free, Serving
<1>10. CASE UNCHANGED vars
    BY <1>10, <1>u DEF vars, disk, loop
<1> QED
    BY <1>0, <1>1, <1>2, <1>3, <1>4, <1>5, <1>6, <1>7, <1>8, <1>9, <1>10
    DEF Next, LoopStep, Tick, Executing, Request

\* Until the process exits for the first time, a run's status agrees with its results
\* whenever the event loop is free (update_run_status after every change).
THEOREM StatusesAgree == Spec => [](crashes = 0 => StatusAgrees)
<1>1. Init => AgreeInv
    BY DEF Init, AgreeInv, Exists, NoRun
<1>2. AgreeInv => (crashes = 0 => StatusAgrees)
    BY DEF AgreeInv, StatusAgrees, Agrees, Tasked
<1> QED
    BY <1>1, <1>2, NextAgreeInv, EngineInvariant, PTL DEF Spec

-----------------------------------------------------------------------------
(* The engine implements the life cycle of a run.                           *)

\* What the life cycle sees of the engine.
StatusSeen == [r \in Run |-> runs[r].status]
ResultSeen == [r \in Run |-> [t \in Task |-> runs[r].results[t].status]]
DepsSeen   == [r \in Run |-> IF Exists(r) THEN DepsOf(r) ELSE NoDeps]
Seen == <<StatusSeen, ResultSeen, DepsSeen>>

\* The dependencies that are seen change only when a run comes or goes.
LEMMA DepsSeenStay ==
    ASSUME EngineInv, [Next]_vars, NEW r \in Run, Exists(r) <=> Exists(r)',
           Exists(r) => runs'[r].goal = runs[r].goal
    PROVE  DepsSeen'[r] = DepsSeen[r]
  BY DepsAreFixed DEF EngineInv, DepsSeen, DepsOf

\* A step that keeps each run's statuses, or that starts from no file and ends with
\* none, is none of the life cycle.
LEMMA SameSeen ==
    ASSUME EngineInv, [Next]_vars, NEW R \in SUBSET Run,
           \A r \in R : /\ runs'[r].status = runs[r].status
                        /\ runs'[r].goal = runs[r].goal
                        /\ \A t \in Task : runs'[r].results[t].status = runs[r].results[t].status
    PROVE  \A r \in R : /\ StatusSeen'[r] = StatusSeen[r]
                        /\ ResultSeen'[r] = ResultSeen[r]
                        /\ DepsSeen'[r] = DepsSeen[r]
<1> SUFFICES ASSUME NEW r \in R
             PROVE  /\ StatusSeen'[r] = StatusSeen[r] /\ ResultSeen'[r] = ResultSeen[r]
                    /\ DepsSeen'[r] = DepsSeen[r]
    OBVIOUS
<1>1. DepsSeen'[r] = DepsSeen[r]
    BY DepsSeenStay DEF Exists
<1> QED
    BY <1>1 DEF StatusSeen, ResultSeen

\* One run's file changes: what is seen of it is all that does.
LEMMA OneRunChanges ==
    ASSUME EngineInv, [Next]_vars, NEW r \in Run, \A q \in Run \ {r} : runs'[q] = runs[q]
    PROVE  /\ StatusSeen' = [StatusSeen EXCEPT ![r] = runs'[r].status]
           /\ ResultSeen' = [ResultSeen EXCEPT ![r] = [t \in Task |-> runs'[r].results[t].status]]
           /\ DepsSeen' = [DepsSeen EXCEPT ![r] = DepsSeen'[r]]
<1>1. \A q \in Run \ {r} : /\ StatusSeen'[q] = StatusSeen[q]
                            /\ ResultSeen'[q] = ResultSeen[q]
                            /\ DepsSeen'[q] = DepsSeen[q]
    BY SameSeen
<1>2. StatusSeen'[r] = runs'[r].status /\ ResultSeen'[r] = [t \in Task |-> runs'[r].results[t].status]
    BY DEF StatusSeen, ResultSeen
<1>3. /\ StatusSeen' = [q \in Run |-> StatusSeen'[q]] /\ DOMAIN StatusSeen = Run
      /\ ResultSeen' = [q \in Run |-> ResultSeen'[q]] /\ DOMAIN ResultSeen = Run
      /\ DepsSeen' = [q \in Run |-> DepsSeen'[q]] /\ DOMAIN DepsSeen = Run
    BY DEF StatusSeen, ResultSeen, DepsSeen
<1> QED
    BY <1>1, <1>2, <1>3

\* The cascade and the new status are a verdict the life cycle publishes.
LEMMA RunStatusIsVerdict ==
    ASSUME NEW res \in Results
    PROVE  /\ RunStatus(res) \in {"completed", "failed", "running", "pending"}
           /\ Lifecycle!Verdict([t \in Task |-> res[t].status], RunStatus(res))
<1> DEFINE has(s) == \E t \in Task : res[t].status = s
<1>1. /\ In(res, {"pending", "running", "failed"}) = {} <=>
           ~has("pending") /\ ~has("running") /\ ~has("failed")
      /\ In(res, {"failed"}) = {} <=> ~has("failed")
      /\ In(res, {"running"}) = {} <=> ~has("running")
      /\ In(res, Live) = {} <=> ~has("pending") /\ ~has("running")
    BY DEF In, Live
<1>2. \A s : (\E t \in Task : [u \in Task |-> res[u].status][t] = s) <=> has(s)
    OBVIOUS
<1> HIDE DEF has
<1> QED
    BY <1>1, <1>2 DEF RunStatus, Lifecycle!Verdict

\* A run is queued.
LEMMA QueuedIsSeen ==
    ASSUME EngineInv, [Next]_vars, TypeOK', Queued
    PROVE  Lifecycle!Next
<1> USE DEF EngineInv
<1>1. PICK g \in Goal, q \in Run, n \in 1..MaxRuns :
          g <= minted.goals /\ q = minted.runs + 1 /\ runs' = [runs EXCEPT ![q] = FreshRun(goals[g], g, n)]
    BY DEF Queued, QueueRun
<1>2. ~Exists(q)
    BY <1>1 DEF IdsInUse, TypeOK, Run
<1> DEFINE T == {t \in Task : t <= goals[g].size}
           d == DepsOf(q)'
<1>3. /\ runs'[q].status = "pending"
      /\ \A t \in Task : runs'[q].results[t].status = IF t \in T THEN "pending" ELSE "absent"
      /\ \A p \in Run \ {q} : runs'[p] = runs[p]
    BY <1>1 DEF TypeOK, FreshRun, NoResult
<1>4. d \in [Task -> SUBSET Task] /\ DepsSeen'[q] = d
  <2>1. DepsSeen'[q] = d
    BY <1>3 DEF DepsSeen, Exists
  <2>2. d \in [Task -> SUBSET Task]
    BY DEF TypeOK, RunFile, GoalFile, DepsOf
  <2> QED
    BY <2>1, <2>2
<1>5. [t \in Task |-> runs'[q].results[t].status] = [t \in Task |-> IF t \in T THEN "pending" ELSE "absent"]
    BY <1>3
<1>6. /\ StatusSeen[q] = "absent"
      /\ StatusSeen' = [StatusSeen EXCEPT ![q] = "pending"]
      /\ ResultSeen' = [ResultSeen EXCEPT ![q] = [t \in Task |-> IF t \in T THEN "pending" ELSE "absent"]]
      /\ DepsSeen' = [DepsSeen EXCEPT ![q] = d]
    BY <1>2, <1>3, <1>4, <1>5, OneRunChanges DEF StatusSeen, Exists
<1>7. T \in SUBSET Task
    OBVIOUS
<1> HIDE DEF T, d
<1>8. \E S \in SUBSET Task, e \in [Task -> SUBSET Task] :
          /\ ResultSeen' = [ResultSeen EXCEPT ![q] = [t \in Task |-> IF t \in S THEN "pending" ELSE "absent"]]
          /\ DepsSeen' = [DepsSeen EXCEPT ![q] = e]
    BY <1>4, <1>6, <1>7, Zenon
<1>9. Lifecycle!Queue(q)
    BY ONLY <1>6, <1>8, Zenon DEF Lifecycle!Queue, StatusSeen, ResultSeen, DepsSeen
<1> QED
    BY <1>9 DEF Lifecycle!Next

\* A run is deleted.
LEMMA DroppedIsSeen ==
    ASSUME EngineInv, [Next]_vars, Dropped
    PROVE  [Lifecycle!Next]_Seen
<1> USE DEF EngineInv
<1>1. PICK r \in Run : runs' = [runs EXCEPT ![r] = NoRun]
    BY DEF Dropped
<1>2. /\ runs'[r].status = "absent"
      /\ \A t \in Task : runs'[r].results[t].status = "absent"
      /\ \A q \in Run \ {r} : runs'[q] = runs[q]
    BY <1>1 DEF TypeOK, NoRun, NoResult
<1>3. /\ [t \in Task |-> runs'[r].results[t].status] = [t \in Task |-> "absent"]
      /\ DepsSeen'[r] = [t \in Task |-> {}]
    BY <1>2 DEF DepsSeen, Exists, NoDeps
<1>4. /\ StatusSeen' = [StatusSeen EXCEPT ![r] = "absent"]
      /\ ResultSeen' = [ResultSeen EXCEPT ![r] = [t \in Task |-> "absent"]]
      /\ DepsSeen' = [DepsSeen EXCEPT ![r] = [t \in Task |-> {}]]
    BY <1>2, <1>3, OneRunChanges
<1>5. CASE Exists(r)
  <2>1. Lifecycle!Forget(r)
    BY <1>4, <1>5 DEF Lifecycle!Forget, StatusSeen, ResultSeen, DepsSeen, Exists
  <2> QED
    BY <2>1 DEF Lifecycle!Next
<1>6. CASE ~Exists(r)
  <2>1. /\ StatusSeen[r] = "absent" /\ ResultSeen[r] = [t \in Task |-> "absent"]
        /\ DepsSeen[r] = [t \in Task |-> {}]
    BY <1>6 DEF IdsInUse, StatusSeen, ResultSeen, DepsSeen, Exists, NoDeps
  <2>2. /\ StatusSeen = [q \in Run |-> StatusSeen[q]] /\ ResultSeen = [q \in Run |-> ResultSeen[q]]
        /\ DepsSeen = [q \in Run |-> DepsSeen[q]]
    BY DEF StatusSeen, ResultSeen, DepsSeen
  <2>3. \A f, v : f = [q \in Run |-> f[q]] /\ f[r] = v => [f EXCEPT ![r] = v] = f
    OBVIOUS
  <2>4. UNCHANGED <<StatusSeen, ResultSeen, DepsSeen>>
    BY <1>4, <2>1, <2>2, <2>3
  <2> QED
    BY <2>4 DEF Seen
<1> QED
    BY <1>5, <1>6

\* One result moves.
LEMMA MoveIsSeen ==
    ASSUME EngineInv, [Next]_vars, NEW r \in Run, NEW t \in Task, NEW res \in Result,
           NEW from, NEW to, runs[r].results[t].status = from, res.status = to,
           runs[r].status \in Live, runs'[r] = [runs[r] EXCEPT !.results[t] = res],
           \A q \in Run \ {r} : runs'[q] = runs[q]
    PROVE  /\ Lifecycle!Move(r, t, from, to)
           /\ Lifecycle!In(r, {"completed"}) = In(runs[r].results, {"completed"})
           /\ DepsSeen[r] = DepsOf(r)
<1> USE DEF EngineInv
<1>0. TypeOK
    OBVIOUS
<1>1. /\ runs'[r].status = runs[r].status /\ runs'[r].goal = runs[r].goal
      /\ runs'[r].results[t] = res
      /\ \A u \in Task \ {t} : runs'[r].results[u] = runs[r].results[u]
    BY <1>0 DEF TypeOK, RunFile
<1>2. Exists(r) /\ Exists(r)'
    BY <1>1 DEF Exists, Live
<1>3. DepsSeen'[r] = DepsSeen[r] /\ DepsSeen[r] = DepsOf(r)
    BY <1>1, <1>2, DepsSeenStay DEF DepsSeen
<1>4. /\ StatusSeen[r] = runs[r].status
      /\ ResultSeen[r] = [u \in Task |-> runs[r].results[u].status]
    BY DEF StatusSeen, ResultSeen
<1>5. [u \in Task |-> runs'[r].results[u].status] = [ResultSeen[r] EXCEPT ![t] = to]
    BY <1>1, <1>4
<1>6. /\ StatusSeen = [q \in Run |-> StatusSeen[q]] /\ DepsSeen = [q \in Run |-> DepsSeen[q]]
      /\ DOMAIN ResultSeen = Run
    BY DEF StatusSeen, ResultSeen, DepsSeen
<1>7. \A f, v : f = [q \in Run |-> f[q]] /\ f[r] = v => [f EXCEPT ![r] = v] = f
    OBVIOUS
<1>c. /\ StatusSeen' = [StatusSeen EXCEPT ![r] = runs'[r].status]
      /\ ResultSeen' = [ResultSeen EXCEPT ![r] = [u \in Task |-> runs'[r].results[u].status]]
      /\ DepsSeen' = [DepsSeen EXCEPT ![r] = DepsSeen'[r]]
    BY OneRunChanges
<1>8. StatusSeen' = StatusSeen /\ DepsSeen' = DepsSeen
    BY <1>1, <1>3, <1>4, <1>6, <1>7, <1>c
<1>9. ResultSeen' = [ResultSeen EXCEPT ![r][t] = to]
    BY <1>5, <1>6, <1>c
<1>10. /\ StatusSeen[r] \in {"pending", "running"} /\ ResultSeen[r][t] = from
    BY <1>4 DEF Live
<1>11. Lifecycle!Move(r, t, from, to)
    BY ONLY <1>8, <1>9, <1>10, Zenon DEF Lifecycle!Move, Lifecycle!Open, StatusSeen, ResultSeen, DepsSeen
<1>12. Lifecycle!In(r, {"completed"}) = In(runs[r].results, {"completed"})
    BY DEF Lifecycle!In, In
<1> QED
    BY <1>3, <1>11, <1>12

LEMMA MovedIsSeen ==
    ASSUME EngineInv, [Next]_vars, Moved
    PROVE  [Lifecycle!Next]_Seen
<1> USE DEF EngineInv
<1>1. PICK j \in Job, res \in Result :
          /\ runs' = Mutated(j, res)
          /\ Exists(j[1]) => runs[j[1]].status \in Live /\ LegalMove(j, res)
    BY DEF Moved
<1>2. PICK r \in Run, t \in Task : j = <<r, t>>
    BY DEF Job
<1>3. ASSUME \A q \in Run : /\ runs'[q].status = runs[q].status /\ runs'[q].goal = runs[q].goal
                            /\ \A u \in Task : runs'[q].results[u].status = runs[q].results[u].status
      PROVE  UNCHANGED Seen
  <2>1. \A q \in Run : /\ StatusSeen'[q] = StatusSeen[q] /\ ResultSeen'[q] = ResultSeen[q]
                       /\ DepsSeen'[q] = DepsSeen[q]
    BY <1>3, SameSeen
  <2>2. StatusSeen' = StatusSeen /\ ResultSeen' = ResultSeen /\ DepsSeen' = DepsSeen
    BY <2>1 DEF StatusSeen, ResultSeen, DepsSeen
  <2> QED
    BY <2>2 DEF Seen
<1>4. CASE ~Exists(r)
    BY <1>1, <1>2, <1>3, <1>4 DEF Mutated
<1>5. CASE Exists(r)
  <2>1. /\ runs'[r] = [runs[r] EXCEPT !.results[t] = res]
        /\ \A q \in Run \ {r} : runs'[q] = runs[q]
    BY <1>1, <1>2, <1>5 DEF Mutated, TypeOK, RunFile
  <2>2. /\ runs[r].status \in Live /\ LegalMove(<<r, t>>, res)
        /\ ResultOf(<<r, t>>) = runs[r].results[t]
    BY <1>1, <1>2, <1>5 DEF ResultOf
  <2>3. ASSUME NEW from, NEW to, runs[r].results[t].status = from, res.status = to
        PROVE  Lifecycle!Move(r, t, from, to)
    BY <2>1, <2>2, <2>3, MoveIsSeen
  <2>r. /\ Lifecycle!In(r, {"completed"}) = In(runs[r].results, {"completed"})
        /\ DepsSeen[r] = DepsOf(r)
    BY <2>1, <2>2, MoveIsSeen
  <2>4. CASE res.status = runs[r].results[t].status
    <3>0. /\ runs'[r].status = runs[r].status /\ runs'[r].goal = runs[r].goal
          /\ \A u \in Task : runs'[r].results[u].status = runs[r].results[u].status
      BY <2>1, <2>4 DEF TypeOK, RunFile
    <3>1. \A q \in Run : /\ runs'[q].status = runs[q].status /\ runs'[q].goal = runs[q].goal
                         /\ \A u \in Task : runs'[q].results[u].status = runs[q].results[u].status
      BY <2>1, <3>0
    <3> QED
      BY <1>3, <3>1
  <2>5. CASE runs[r].results[t].status = "pending" /\ res.status = "running"
    <3>1. DepsSeen[r][t] \subseteq Lifecycle!In(r, {"completed"}) /\ Lifecycle!Move(r, t, "pending", "running")
      BY <2>2, <2>3, <2>r, <2>5 DEF LegalMove
    <3>2. Lifecycle!Start(r, t)
      BY ONLY <3>1, Zenon DEF Lifecycle!Start, DepsSeen
    <3> QED
      BY <3>2 DEF Lifecycle!Next
  <2>6. CASE runs[r].results[t].status = "running" /\ res.status \in {"completed", "failed", "pending"}
    <3>1. \/ Lifecycle!Move(r, t, "running", "completed") \/ Lifecycle!Move(r, t, "running", "failed")
          \/ Lifecycle!Move(r, t, "running", "pending")
      BY <2>3, <2>6, Zenon
    <3>2. Lifecycle!Complete(r, t) \/ Lifecycle!Fail(r, t) \/ Lifecycle!Retry(r, t)
      BY ONLY <3>1, Zenon DEF Lifecycle!Complete, Lifecycle!Fail, Lifecycle!Retry
    <3> QED
      BY <3>2 DEF Lifecycle!Next
  <2> QED
    BY <2>2, <2>4, <2>5, <2>6 DEF LegalMove
<1> QED
    BY <1>4, <1>5

\* A run's status is published, with what it does to the run's results.
LEMMA PublishIsSeen ==
    ASSUME EngineInv, [Next]_vars, NEW r \in Run, runs[r].status \in Live,
           NEW I \in {{}, In(runs[r].results, {"running"})}, NEW back \in Results,
           \A t \in Task : back[t].status = IF t \in I THEN "pending" ELSE runs[r].results[t].status,
           runs'[r].results = Cascade(back, DepsOf(r)),
           runs'[r].status = RunStatus(runs'[r].results), runs'[r].goal = runs[r].goal,
           \A q \in Run \ {r} : runs'[q] = runs[q]
    PROVE  Lifecycle!Publish(r)
<1> USE DEF EngineInv
<1> DEFINE deps == DepsOf(r)
           F == Blocked(back, deps)
           new == Cascade(back, deps)
           v == RunStatus(new)
<1>0. deps \in Graph /\ new \in Results
    BY RolledType, CascadeChanges
<1>1. /\ v \in {"completed", "failed", "running", "pending"}
      /\ Lifecycle!Verdict([t \in Task |-> new[t].status], v)
    BY <1>0, RunStatusIsVerdict
<1>2. Exists(r) /\ Exists(r)'
    BY <1>1 DEF Exists, Live
<1>3. DepsSeen'[r] = DepsSeen[r] /\ DepsSeen[r] = deps
    BY <1>2, DepsSeenStay DEF DepsSeen
<1>4. /\ StatusSeen[r] = runs[r].status
      /\ ResultSeen[r] = [t \in Task |-> runs[r].results[t].status]
    BY DEF StatusSeen, ResultSeen
<1>5. DepsSeen' = DepsSeen
  <2>1. DepsSeen = [q \in Run |-> DepsSeen[q]] /\ DepsSeen' = [DepsSeen EXCEPT ![r] = DepsSeen'[r]]
    BY OneRunChanges DEF DepsSeen
  <2> QED
    BY <1>3, <2>1
<1>6. /\ I = {} \/ I = {t \in Task : ResultSeen[r][t] \in {"running"}}
      /\ In(back, {"pending"}) = {t \in Task : ResultSeen[r][t] \in {"pending"}} \cup I
      /\ In(back, {"failed"}) = {t \in Task : ResultSeen[r][t] \in {"failed"}}
    BY <1>4 DEF In
<1>7. \A t \in In(back, {"pending"}) : t \in F <=> deps[t] \cap (In(back, {"failed"}) \cup F) # {}
  <2>1. BlocksAll(back, deps, F) /\ F \subseteq In(back, {"pending"})
    BY <1>0, BlockedIsClosed DEF Blocked
  <2>2. \A t \in F : \E d \in deps[t] : d \in In(back, {"failed"}) \cup F
    BY <1>0, BlockedHasCause
  <2> HIDE DEF F, deps
  <2> QED
    BY <2>1, <2>2 DEF BlocksAll
<1>8. F \in SUBSET In(back, {"pending"})
    BY DEF Blocked
<1>9. \A t \in Task : new[t].status = IF t \in F THEN "failed" ELSE IF t \in I THEN "pending" ELSE ResultSeen[r][t]
    BY <1>4 DEF Cascade, Results, Result
<1>10. [t \in Task |-> new[t].status]
         = [t \in Task |-> IF t \in F THEN "failed" ELSE IF t \in I THEN "pending" ELSE ResultSeen[r][t]]
    BY <1>9
<1>11. /\ ResultSeen' = [ResultSeen EXCEPT ![r] = [t \in Task |-> new[t].status]]
       /\ StatusSeen' = [StatusSeen EXCEPT ![r] = v] /\ ResultSeen'[r] = [t \in Task |-> new[t].status]
    BY OneRunChanges DEF ResultSeen
<1> HIDE DEF F, deps, new, v
<1>12. \E J \in {{}, {t \in Task : ResultSeen[r][t] \in {"running"}}} :
          \E G \in SUBSET ({t \in Task : ResultSeen[r][t] \in {"pending"}} \cup J) :
             /\ \A t \in {t \in Task : ResultSeen[r][t] \in {"pending"}} \cup J :
                   t \in G <=> DepsSeen[r][t] \cap ({u \in Task : ResultSeen[r][u] \in {"failed"}} \cup G) # {}
             /\ ResultSeen' = [ResultSeen EXCEPT ![r] =
                             [t \in Task |-> IF t \in G THEN "failed"
                                             ELSE IF t \in J THEN "pending"
                                             ELSE ResultSeen[r][t]]]
             /\ \E w \in {"completed", "failed", "running", "pending"} :
                   Lifecycle!Verdict(ResultSeen'[r], w) /\ StatusSeen' = [StatusSeen EXCEPT ![r] = w]
  <2>1. I \in {{}, {t \in Task : ResultSeen[r][t] \in {"running"}}}
    BY <1>6
  <2>2. F \in SUBSET ({t \in Task : ResultSeen[r][t] \in {"pending"}} \cup I)
    BY <1>6, <1>8
  <2>3. \A t \in {t \in Task : ResultSeen[r][t] \in {"pending"}} \cup I :
           t \in F <=> DepsSeen[r][t] \cap ({u \in Task : ResultSeen[r][u] \in {"failed"}} \cup F) # {}
    BY <1>3, <1>6, <1>7
  <2>4. ResultSeen' = [ResultSeen EXCEPT ![r] = [t \in Task |-> IF t \in F THEN "failed"
                                             ELSE IF t \in I THEN "pending" ELSE ResultSeen[r][t]]]
    BY <1>10, <1>11
  <2>5. \E w \in {"completed", "failed", "running", "pending"} :
           Lifecycle!Verdict(ResultSeen'[r], w) /\ StatusSeen' = [StatusSeen EXCEPT ![r] = w]
    BY <1>1, <1>11
  <2> QED
    BY ONLY <2>1, <2>2, <2>3, <2>4, <2>5, Zenon
<1>13. StatusSeen[r] \in {"pending", "running"}
    BY <1>4 DEF Live
<1> QED
    BY ONLY <1>5, <1>12, <1>13, Zenon
    DEF Lifecycle!Publish, Lifecycle!Open, Lifecycle!In, StatusSeen, ResultSeen, DepsSeen

LEMMA SettledIsSeen ==
    ASSUME EngineInv, [Next]_vars, Settled
    PROVE  Lifecycle!Next
<1> USE DEF EngineInv
<1>1. PICK r \in Run :
          /\ runs[r].status \in Live
          /\ \/ runs' = [runs EXCEPT ![r] = Rolled(runs[r], DepsOf(r), now)]
             \/ runs' = [runs EXCEPT ![r] = Reset(runs[r], DepsOf(r), now)]
    BY DEF Settled
<1> DEFINE deps == DepsOf(r)
<1>2. runs[r] \in RunFile /\ runs \in [Run -> RunFile] /\ runs[r].results \in Results
      /\ Requeued(runs[r]) \in Results
    BY RolledType DEF TypeOK
<1>3. CASE runs' = [runs EXCEPT ![r] = Rolled(runs[r], deps, now)]
  <2>1. /\ runs'[r].results = Cascade(runs[r].results, deps)
        /\ runs'[r].status = RunStatus(runs'[r].results) /\ runs'[r].goal = runs[r].goal
        /\ \A q \in Run \ {r} : runs'[q] = runs[q]
    BY <1>2, <1>3 DEF Rolled, RunFile
  <2>2. {} \in {{}, In(runs[r].results, {"running"})}
        /\ \A t \in Task : runs[r].results[t].status = IF t \in {} THEN "pending" ELSE runs[r].results[t].status
    OBVIOUS
  <2>3. Lifecycle!Publish(r)
    BY <1>1, <1>2, <2>1, <2>2, PublishIsSeen
  <2> QED
    BY <2>3 DEF Lifecycle!Next
<1>4. CASE runs' = [runs EXCEPT ![r] = Reset(runs[r], deps, now)]
  <2>1. /\ runs'[r].results = Cascade(Requeued(runs[r]), deps)
        /\ runs'[r].status = RunStatus(runs'[r].results) /\ runs'[r].goal = runs[r].goal
        /\ \A q \in Run \ {r} : runs'[q] = runs[q]
    BY <1>2, <1>4 DEF Reset, RunFile
  <2> DEFINE I == In(runs[r].results, {"running"})
  <2>2. \A t \in Task : Requeued(runs[r])[t].status = IF t \in I THEN "pending" ELSE runs[r].results[t].status
    BY <1>2 DEF Requeued, In, Results, Result
  <2>3. Lifecycle!Publish(r)
    BY <1>1, <1>2, <2>1, <2>2, PublishIsSeen
  <2> QED
    BY <2>3 DEF Lifecycle!Next
<1> QED
    BY <1>1, <1>3, <1>4

\* Every step of the engine is one of the life cycle, or none.
THEOREM EngineImplementsLifecycle == Spec => ImplementsLifecycle
<1>1. Init => Lifecycle!Init
    BY DEF Init, Lifecycle!Init, NoRun, NoResult, Exists, NoDeps
<1>2. EngineInv /\ [Next]_vars => [Lifecycle!Next]_Seen
  <2> SUFFICES ASSUME EngineInv, [Next]_vars PROVE [Lifecycle!Next]_Seen
    OBVIOUS
  <2>1. CASE runs' = runs
    <3>1. \A r \in Run : /\ StatusSeen'[r] = StatusSeen[r] /\ ResultSeen'[r] = ResultSeen[r]
                         /\ DepsSeen'[r] = DepsSeen[r]
      BY <2>1, SameSeen
    <3>2. StatusSeen' = StatusSeen /\ ResultSeen' = ResultSeen /\ DepsSeen' = DepsSeen
      BY <3>1 DEF StatusSeen, ResultSeen, DepsSeen
    <3> QED
      BY <3>2 DEF Seen
  <2>2. TypeOK'
    BY NextTypeOK DEF EngineInv
  <2> QED
    BY <2>1, <2>2, StepsChangeRuns, QueuedIsSeen, MovedIsSeen, SettledIsSeen, DroppedIsSeen DEF RunsChange
<1>3. [Lifecycle!Next]_Seen => [Lifecycle!Next]_(Lifecycle!lifecycle)
    BY DEF Seen, StatusSeen, ResultSeen, DepsSeen, Lifecycle!lifecycle
<1> QED
    BY <1>1, <1>2, <1>3, EngineInvariant, PTL DEF Spec, ImplementsLifecycle, Lifecycle!Spec
=============================================================================
