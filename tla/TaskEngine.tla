----------------------------- MODULE TaskEngine -----------------------------
(***************************************************************************)
(* The task engine: the store's files, the TaskRunner's poll loop, one     *)
(* coroutine per executing TaskResult, and the HTTP handlers and agent     *)
(* tools that create, trigger, pause and delete goals and runs.            *)
(*                                                                         *)
(* Everything runs on one asyncio event loop, so a stretch of code without *)
(* an await is atomic for the other coroutines but not for a crash: each   *)
(* action writes at most one file.  pc says which stretch holds the loop   *)
(* ("idle": none does, and any coroutine may start its next stretch).      *)
(***************************************************************************)
EXTENDS TaskStore

CONSTANTS
    MaxConcurrent,  \* GoalsConfig.max_concurrent
    MaxCrashes,     \* bound: process exits
    Drafts,         \* goal drafts agents submit to commit_goal
    Requests        \* kinds of operator requests that occur

ASSUME EngineAssumption ==
    /\ MaxConcurrent \in Nat \ {0}
    /\ MaxCrashes \in Nat
    /\ Drafts \subseteq [size : 1..MaxTasks, deps : [Task -> SUBSET Task]]
    /\ Requests \subseteq {"pause_goal", "pause_runner", "trigger",
                           "delete_goal", "delete_run"}

VARIABLES
    goals,      \* {base}/{goal}.json
    runs,       \* {base}/{goal}/runs/{run}.json
    convs,      \* conversation directories of task results
    life,       \* the process and its TaskRunner
    paused,     \* TaskRunner._paused
    coro,       \* TaskRunner._running: each coroutine's stage
    pc,         \* the stretch of code that holds the event loop
    at,         \* the goal and the task result that stretch works on
    due,        \* its goals still to spawn a run for
    todo,       \* its task results still to visit
    now,        \* the wall clock
    minted,     \* ids handed out (uuid4 freshness)
    crashes     \* process exits so far

disk == <<goals, runs, convs>>
memory == <<life, paused, coro>>
loop == <<pc, at, due, todo>>
world == <<now, minted, crashes>>
vars == <<disk, memory, loop, world>>

Life  == {"down", "up", "running", "stopping"}
Stage == {"none", "created", "turn", "saved", "notify", "done"}
PC    == {"idle", "spawn", "stamp", "dispatch", "started", "requeue", "settle",
          "define", "enqueue", "unlink", "cleanup", "recover"}

NoCoro == [j \in Job |-> "none"]
Nowhere == [goal |-> 1, job |-> <<1, 1>>]

Held    == {j \in Job : coro[j] # "none"}
Alive   == {j \in Job : coro[j] \in {"created", "turn", "saved"}}
Exists(r) == runs[r].status # "absent"
DepsOf(r) == goals[runs[r].goal].deps
ResultOf(j) == runs[j[1]].results[j[2]]

\* The conversations recorded in a set of runs.
ConvsOf(R) == {j \in R \X Task : ResultOf(j).conv}

\* _mutate_task_result: silently nothing when the result's run is gone.
Mutated(j, res) ==
    IF Exists(j[1]) THEN [runs EXCEPT ![j[1]].results[j[2]] = res] ELSE runs

HasSlot == Cardinality(Held) < MaxConcurrent

\* Slip: one retry too few.
RetriesLeftLess(j) == ResultOf(j).retries + 1 < MaxRetries

RetriesLeft(j) == ResultOf(j).retries < MaxRetries

Free    == pc = "idle" /\ life # "down"
Serving == pc = "idle" /\ life \in {"up", "running"}
Hold(p) == pc' = p
Release == pc' = "idle"

-----------------------------------------------------------------------------
Init ==
    /\ goals = [g \in Goal |-> NoGoal]
    /\ runs = [r \in Run |-> NoRun]
    /\ convs = {}
    /\ life = "up"
    /\ paused = FALSE
    /\ coro = NoCoro
    /\ pc = "idle"
    /\ at = Nowhere
    /\ due = {}
    /\ todo = {}
    /\ now = 0
    /\ minted = [goals |-> 0, runs |-> 0]
    /\ crashes = 0

\* queue_run: number and write a new run file.
QueueRun(g) ==
    \E r \in Run, n \in 1..MaxRuns :
        /\ r = minted.runs + 1
        /\ NextNumber(runs, g, n)
        /\ runs' = [runs EXCEPT ![r] = FreshRun(goals[g], g, n)]
        /\ minted' = [minted EXCEPT !.runs = r]

-----------------------------------------------------------------------------
(* TaskRunner._tick.                                                        *)

TickBegin ==
    /\ pc = "idle" /\ life = "running" /\ ~paused
    /\ due' = DueGoals(goals, runs, now)
    /\ Hold("spawn")
    /\ UNCHANGED <<disk, memory, at, todo, world>>

SpawnRun ==
    /\ pc = "spawn"
    /\ \E g \in due :
        /\ \A h \in due : h <= g
        /\ QueueRun(g)
        /\ at' = [at EXCEPT !.goal = g]
        /\ due' = due \ {g}
    /\ Hold("stamp")
    /\ UNCHANGED <<goals, convs, memory, todo, now, crashes>>

StampRun ==
    /\ pc = "stamp"
    /\ goals' = [goals EXCEPT ![at.goal].spawned = now]
    /\ Hold("spawn")
    /\ UNCHANGED <<runs, convs, memory, at, due, todo, world>>

\* The bound on runs: a tick that has no run id left spawns nothing more.
ListReady ==
    /\ pc = "spawn"
    /\ due = {} \/ minted.runs = MaxRuns
    /\ due' = {}
    /\ todo' = ReadyJobs(goals, runs)
    /\ Hold("dispatch")
    /\ UNCHANGED <<disk, memory, at, world>>

FirstReady(j) == j \in todo /\ \A k \in todo \ {j} : Precedes(runs, j, k)

SkipHeld ==
    /\ pc = "dispatch"
    /\ HasSlot
    /\ \E j \in todo : FirstReady(j) /\ j \in Held /\ todo' = todo \ {j}
    /\ UNCHANGED <<disk, memory, pc, at, due, world>>

MarkRunning ==
    /\ pc = "dispatch"
    /\ HasSlot
    /\ \E j \in todo :
        /\ FirstReady(j) /\ j \notin Held
        /\ runs' = Mutated(j, [ResultOf(j) EXCEPT !.status = "running"])
        /\ at' = [at EXCEPT !.job = j]
        /\ todo' = todo \ {j}
    /\ Hold("started")
    /\ UNCHANGED <<goals, convs, memory, due, world>>

StartCoroutine ==
    /\ pc = "started"
    /\ LET r == at.job[1] IN runs' = [runs EXCEPT ![r] = Rolled(@, DepsOf(r), now)]
    /\ coro' = [coro EXCEPT ![at.job] = "created"]
    /\ Hold("dispatch")
    /\ UNCHANGED <<goals, convs, life, paused, at, due, todo, world>>

\* Finished coroutines leave _running only here, so they hold a slot until then.
Reap ==
    /\ pc = "dispatch"
    /\ todo = {} \/ ~HasSlot
    /\ todo' = {}
    /\ coro' = [j \in Job |-> IF coro[j] = "done" THEN "none" ELSE coro[j]]
    /\ at' = Nowhere
    /\ Release
    /\ UNCHANGED <<disk, life, paused, due, world>>

-----------------------------------------------------------------------------
(* TaskRunner._execute and TaskExecutor.run, one coroutine per result.      *)

\* run() up to its first await: record the conversation id.
BeginTurn(j) ==
    /\ Free /\ coro[j] = "created" /\ Exists(j[1])
    /\ runs' = Mutated(j, [ResultOf(j) EXCEPT !.conv = TRUE])
    /\ coro' = [coro EXCEPT ![j] = "turn"]
    /\ UNCHANGED <<goals, convs, life, paused, loop, world>>

\* PersistenceHook.on_turn_end, whether the turn succeeded or not.
SaveConversation(j) ==
    /\ Free /\ coro[j] = "turn"
    /\ convs' = convs \cup {j}
    /\ coro' = [coro EXCEPT ![j] = "saved"]
    /\ UNCHANGED <<goals, runs, life, paused, loop, world>>

Complete(j) ==
    /\ Free /\ coro[j] = "saved"
    /\ runs' = Mutated(j, [ResultOf(j) EXCEPT !.status = "completed"])
    /\ at' = [at EXCEPT !.job = j]
    /\ Hold("settle")
    /\ UNCHANGED <<goals, convs, memory, due, todo, world>>

\* The run is gone, the agent cannot be built, or the turn raised.
MayFail(j) ==
    \/ coro[j] = "created" /\ ~Exists(j[1])
    \/ coro[j] \in {"turn", "saved"}

FailForRetry(j) ==
    /\ Free /\ MayFail(j)
    /\ RetriesLeft(j)
    /\ runs' = Mutated(j, [ResultOf(j) EXCEPT !.retries = @ + 1])
    /\ at' = [at EXCEPT !.job = j]
    /\ Hold("requeue")
    /\ UNCHANGED <<goals, convs, memory, due, todo, world>>

FailForGood(j) ==
    /\ Free /\ MayFail(j)
    /\ ~RetriesLeft(j)
    /\ runs' = Mutated(j, [ResultOf(j) EXCEPT !.status = "failed"])
    /\ at' = [at EXCEPT !.job = j]
    /\ Hold("settle")
    /\ UNCHANGED <<goals, convs, memory, due, todo, world>>

RequeueResult ==
    /\ pc = "requeue"
    /\ runs' = Mutated(at.job, [ResultOf(at.job) EXCEPT !.status = "pending"])
    /\ Hold("settle")
    /\ UNCHANGED <<goals, convs, memory, at, due, todo, world>>

\* update_run_status; it raises, ending the coroutine, when the run is gone.
SettleRun ==
    /\ pc = "settle"
    /\ LET r == at.job[1]
           rolled == Rolled(runs[r], DepsOf(r), now)
       IN  IF Exists(r)
           THEN /\ runs' = [runs EXCEPT ![r] = rolled]
                /\ coro' = [coro EXCEPT ![at.job] =
                              IF rolled.status \in Terminal THEN "notify" ELSE "done"]
           ELSE /\ coro' = [coro EXCEPT ![at.job] = "done"]
                /\ UNCHANGED runs
    /\ at' = Nowhere
    /\ Release
    /\ UNCHANGED <<goals, convs, life, paused, due, todo, world>>

Notified(j) ==
    /\ Free /\ coro[j] = "notify"
    /\ coro' = [coro EXCEPT ![j] = "done"]
    /\ UNCHANGED <<disk, life, paused, loop, world>>

Advance(j) ==
    \/ BeginTurn(j) \/ SaveConversation(j) \/ Complete(j)
    \/ FailForRetry(j) \/ FailForGood(j) \/ Notified(j)

Executing == \E j \in Job : Advance(j)

-----------------------------------------------------------------------------
(* commit_goal: three writes without an await.                              *)

CreateGoal ==
    /\ Free /\ minted.goals < MaxGoals /\ minted.runs < MaxRuns
    /\ \E cron \in BOOLEAN :
        LET g == minted.goals + 1 IN
        /\ goals' = [goals EXCEPT ![g] =
                       [NoGoal EXCEPT !.status = "active", !.cron = cron, !.created = now]]
        /\ minted' = [minted EXCEPT !.goals = g]
        /\ at' = [at EXCEPT !.goal = g]
    /\ Hold("define")
    /\ UNCHANGED <<runs, convs, memory, due, todo, now, crashes>>

CreateTasks ==
    /\ pc = "define"
    /\ \E d \in Drafts :
        /\ Accepts(d)
        /\ goals' = [goals EXCEPT ![at.goal].size = d.size, ![at.goal].deps = d.deps]
    /\ IF goals[at.goal].cron
       THEN at' = Nowhere /\ Release
       ELSE Hold("enqueue") /\ UNCHANGED at
    /\ UNCHANGED <<runs, convs, memory, due, todo, world>>

EnqueueFirstRun ==
    /\ pc = "enqueue"
    /\ QueueRun(at.goal)
    /\ at' = Nowhere
    /\ Release
    /\ UNCHANGED <<goals, convs, memory, due, todo, now, crashes>>

-----------------------------------------------------------------------------
(* Operator requests (src/server/_task_routes.py, trigger_goal).            *)

TriggerGoal(g) ==
    /\ "trigger" \in Requests
    /\ Free /\ goals[g].status # "absent" /\ minted.runs < MaxRuns
    /\ QueueRun(g)
    /\ UNCHANGED <<goals, convs, memory, loop, now, crashes>>

SetGoalStatus(g, s) ==
    /\ "pause_goal" \in Requests
    /\ Serving /\ goals[g].status \notin {"absent", s}
    /\ goals' = [goals EXCEPT ![g].status = s]
    /\ UNCHANGED <<runs, convs, memory, loop, world>>

SetPaused(p) ==
    /\ "pause_runner" \in Requests
    /\ Serving /\ life = "running" /\ paused # p
    /\ paused' = p
    /\ UNCHANGED <<disk, life, coro, loop, world>>

\* delete_run, then _cleanup_conversations of what it returned.
DeleteRun(r) ==
    /\ "delete_run" \in Requests
    /\ Serving /\ Exists(r)
    /\ runs' = [runs EXCEPT ![r] = NoRun]
    /\ todo' = ConvsOf({r})
    /\ Hold("cleanup")
    /\ UNCHANGED <<goals, convs, memory, at, due, world>>

\* delete_goal: rmtree of the goal's directory, then its own file.
DeleteGoal(g) ==
    /\ "delete_goal" \in Requests
    /\ Serving /\ goals[g].status # "absent"
    /\ todo' = ConvsOf(RunsOf(runs, g))
    /\ at' = [at EXCEPT !.goal = g]
    /\ Hold("unlink")
    /\ UNCHANGED <<disk, memory, due, world>>

UnlinkRun ==
    /\ pc = "unlink"
    /\ \E r \in RunsOf(runs, at.goal) : runs' = [runs EXCEPT ![r] = NoRun]
    /\ UNCHANGED <<goals, convs, memory, loop, world>>

UnlinkGoal ==
    /\ pc = "unlink" /\ RunsOf(runs, at.goal) = {}
    /\ goals' = [goals EXCEPT ![at.goal] = NoGoal]
    /\ Hold("cleanup")
    /\ UNCHANGED <<runs, convs, memory, at, due, todo, world>>

CleanupConversation ==
    /\ pc = "cleanup"
    /\ \E j \in todo : convs' = convs \ {j} /\ todo' = todo \ {j}
    /\ UNCHANGED <<goals, runs, memory, pc, at, due, world>>

CleanupDone ==
    /\ pc = "cleanup" /\ todo = {}
    /\ at' = Nowhere
    /\ Release
    /\ UNCHANGED <<disk, memory, due, todo, world>>

-----------------------------------------------------------------------------
(* The process.                                                             *)

\* TaskRunner.start, once the server's readiness gates open.
RunnerStart ==
    /\ pc = "idle" /\ life = "up"
    /\ Hold("recover")
    /\ UNCHANGED <<disk, memory, at, due, todo, world>>

\* reset_stale_running writes the run files it changes, one by one.
ResetRun ==
    /\ pc = "recover"
    /\ \E r \in Run :
        /\ NeedsReset(runs[r], DepsOf(r))
        /\ runs' = [runs EXCEPT ![r] = Reset(@, DepsOf(r), now)]
    /\ UNCHANGED <<goals, convs, memory, loop, world>>

PollLoopStart ==
    /\ pc = "recover"
    /\ \A r \in Run : ~NeedsReset(runs[r], DepsOf(r))
    /\ life' = "running"
    /\ Release
    /\ UNCHANGED <<disk, paused, coro, at, due, todo, world>>

\* TaskRunner.stop: no more ticks, running coroutines get shutdown_timeout.
RunnerStop ==
    /\ pc = "idle" /\ life = "running" /\ crashes < MaxCrashes
    /\ life' = "stopping"
    /\ UNCHANGED <<disk, paused, coro, loop, world>>

\* The process ends anywhere: killed, or the end of a shutdown.
Crash ==
    /\ life # "down" /\ crashes < MaxCrashes
    /\ life' = "down"
    /\ paused' = FALSE
    /\ coro' = NoCoro
    /\ pc' = "idle" /\ at' = Nowhere /\ due' = {} /\ todo' = {}
    /\ crashes' = crashes + 1
    /\ UNCHANGED <<disk, now, minted>>

Boot ==
    /\ life = "down"
    /\ life' = "up"
    /\ UNCHANGED <<disk, paused, coro, loop, world>>

\* The next cron slot begins; MaxSlot bounds the clock.
ClockTick ==
    /\ now < MaxSlot
    /\ now' = now + 1
    /\ UNCHANGED <<disk, memory, loop, minted, crashes>>

-----------------------------------------------------------------------------
Tick == SpawnRun \/ StampRun \/ ListReady \/ SkipHeld \/ MarkRunning
        \/ StartCoroutine \/ Reap

LoopStep ==
    \/ Tick \/ RequeueResult \/ SettleRun
    \/ CreateTasks \/ EnqueueFirstRun
    \/ UnlinkRun \/ UnlinkGoal \/ CleanupConversation \/ CleanupDone
    \/ ResetRun \/ PollLoopStart

Request ==
    \/ CreateGoal
    \/ \E g \in Goal : TriggerGoal(g) \/ DeleteGoal(g)
    \/ \E g \in Goal, s \in {"active", "paused"} : SetGoalStatus(g, s)
    \/ \E p \in BOOLEAN : SetPaused(p)
    \/ \E r \in Run : DeleteRun(r)

Next ==
    \/ TickBegin
    \/ LoopStep
    \/ Executing
    \/ Request
    \/ RunnerStart \/ RunnerStop \/ Crash \/ Boot \/ ClockTick

Spec == Init /\ [][Next]_vars

\* The loop runs what it holds to its end; the poll timer fires; asyncio's
\* first-in-first-out queue does not let ticks shut out the coroutines; agent
\* turns end (max_iterations); the host restarts the server.
Fairness ==
    /\ WF_vars(LoopStep)
    /\ WF_vars(Boot)
    /\ WF_vars(RunnerStart)
    /\ WF_vars(TickBegin)
    /\ SF_vars(Executing)

FairSpec == Spec /\ Fairness
-----------------------------------------------------------------------------
(* Properties.                                                              *)

\* The types of all variables.
TypeOK ==
    /\ goals \in [Goal -> GoalFile]
    /\ runs \in [Run -> RunFile]
    /\ convs \subseteq Job
    /\ life \in Life
    /\ paused \in BOOLEAN
    /\ coro \in [Job -> Stage]
    /\ pc \in PC
    /\ at \in [goal : Goal, job : Job]
    /\ due \subseteq Goal
    /\ todo \subseteq Job
    /\ now \in Time
    /\ minted \in [goals : 0..MaxGoals, runs : 0..MaxRuns]
    /\ crashes \in 0..MaxCrashes

\* A task starts, and completes, only after every task it depends on has
\* completed, through retries, failures elsewhere in the run, crashes and
\* deletions (get_ready_task_results and the cascade).
DependencyOrder ==
    \A r \in Run, t \in Task :
        runs[r].results[t].status \in {"running", "completed"}
            => \A d \in DepsOf(r)[t] : runs[r].results[d].status = "completed"

\* A result marked running has a coroutine working on it: no mark is left
\* behind by a retry, an overtaken tick or a restart (while the loop is idle
\* and the runner serves), so nothing waits for a result nobody executes.
RunningIsOwned ==
    pc = "idle" /\ life \in {"running", "stopping"} =>
        \A j \in Job : ResultOf(j).status = "running" => j \in Alive

\* The reverse: a coroutine whose run still exists owns a running mark, so no
\* result is picked up a second time while its first coroutine lives.
OwnersAreRunning ==
    pc = "idle" =>
        \A j \in Alive : Exists(j[1]) => ResultOf(j).status = "running"

\* A failed result either used up its retries or sits behind a failed
\* dependency: a crash between the retry writes never burns a result.
FailureIsJustified ==
    \A r \in Run, t \in Task :
        runs[r].results[t].status = "failed" =>
            \/ runs[r].results[t].retries = MaxRetries
            \/ \E d \in DepsOf(r)[t] : runs[r].results[d].status = "failed"

\* What a finished run says is true of its results: completed means every
\* result completed, failed means all are settled and one failed.
VerdictIsTruthful ==
    \A r \in Run :
        /\ runs[r].status = "completed" =>
              In(runs[r].results, Status \ {"completed", "absent"}) = {}
        /\ runs[r].status = "failed" =>
              /\ In(runs[r].results, Live) = {}
              /\ In(runs[r].results, {"failed"}) # {}

\* A run of a goal is identified by its number, across deletions.
NumbersAreUnique ==
    \A r, s \in Run :
        Exists(r) /\ Exists(s) /\ runs[r].goal = runs[s].goal
            /\ runs[r].number = runs[s].number => r = s

\* No more than max_concurrent coroutines, unfinished or waiting for the reap.
SlotBound == Cardinality(Held) <= MaxConcurrent

\* A finished run is final: its file never changes again until it is deleted,
\* so its verdict is announced at most once.
FinishedIsFinal ==
    [][\A r \in Run : runs[r].status \in Terminal => runs'[r] \in {runs[r], NoRun}]_vars

\* The schedule spawns a run only for an active goal none of whose runs is in
\* progress, however triggers and earlier runs interleave.
CronRunsDoNotOverlap ==
    [][(pc = "spawn" /\ minted'.runs # minted.runs) =>
          LET g == runs'[minted'.runs].goal IN
          /\ goals[g].status = "active"
          /\ \A r \in RunsOf(runs, g) : runs[r].status \in Terminal]_vars

\* The same slot of the schedule spawns at most one run of a goal.
SlotFiresOnce ==
    [][(pc = "stamp" /\ pc' = "spawn") => goals[at.goal].spawned < now]_vars

\* Between stretches of code a run's status agrees with its results, and no
\* failure is left uncascaded.
StatusAgrees ==
    pc = "idle" =>
        \A r \in Run : Exists(r) /\ In(runs[r].results, Status \ {"absent"}) # {} =>
            /\ runs[r].status = RunStatus(runs[r].results)
            /\ Blocked(runs[r].results, DepsOf(r)) = {}

\* Every conversation belongs to a run that exists.
NoOrphanConversation == pc = "idle" => \A j \in convs : Exists(j[1])

\* Why the invariants above hold: who may write a result at each stretch of code.
\* Ids in use were handed out before, and what a stretch was about to write still
\* belongs to it: a fresh goal has no run yet, a fresh run no coroutine.
IdsInUse ==
    /\ \A g \in Goal : goals[g].status # "absent" => g <= minted.goals
    /\ \A r \in Run : Exists(r) => r <= minted.runs /\ runs[r].goal <= minted.goals
    /\ \A r \in Run, t \in Task : ~Exists(r) => runs[r].results[t].status = "absent"
    /\ \A j \in Held : j[1] <= minted.runs
    /\ \A g \in due : g <= minted.goals
    /\ pc \in {"define", "enqueue"} => at.goal <= minted.goals
    /\ pc = "define" => \A r \in Run : Exists(r) => runs[r].goal # at.goal

\* Which stretches a process in each stage of its life runs.
LoopHolders ==
    /\ life \in {"down", "up"} => Held = {}
    /\ pc \in {"spawn", "stamp", "dispatch", "started"} => life = "running"
    /\ pc = "recover" => life = "up"
    /\ pc \in {"requeue", "settle"} => at.job \in Alive

\* A coroutine works on a running mark of its own until it has written its
\* outcome; a dispatch starts only results that are still ready.
Ownership ==
    /\ \A j \in Alive : Exists(j[1]) =>
          ResultOf(j).status = "running" \/ (pc = "settle" /\ at.job = j)
    /\ pc = "settle" /\ Exists(at.job[1]) =>
          ResultOf(at.job).status # "running" /\ runs[at.job[1]].status \in Live
    /\ pc = "started" => ResultOf(at.job).status = "running" /\ at.job \notin Held
    /\ life \in {"running", "stopping"} =>
          \A j \in Job : ResultOf(j).status = "running" =>
              j \in Alive \/ (pc = "started" /\ at.job = j)
    /\ pc \in {"dispatch", "started"} =>
          \A j \in todo : /\ ResultOf(j).status = "pending"
                          /\ DepsOf(j[1])[j[2]] \subseteq In(runs[j[1]].results, {"completed"})

\* The inductive invariant of the engine's files and coroutines.
EngineInv ==
    /\ TypeOK /\ IdsInUse /\ LoopHolders /\ Ownership
    /\ DependencyOrder /\ FailureIsJustified /\ VerdictIsTruthful /\ NumbersAreUnique

Served(g) == life = "running" /\ ~paused /\ goals[g].status = "active"

\* A run does not stay in progress for ever while the runner works and its
\* goal is active.
RunsFinish ==
    \A r \in Run : []<>(runs[r].status \in Live => ~Served(runs[r].goal))

\* An active recurring goal whose every run ended in an earlier slot, as did
\* its last spawn, gets a run while the runner works (and ids last).
Overdue(g) ==
    /\ goals[g].status = "active" /\ goals[g].cron
    /\ goals[g].created < now /\ goals[g].spawned < now
    /\ \A r \in RunsOf(runs, g) : runs[r].status \in Terminal /\ runs[r].done < now
    /\ minted.runs < MaxRuns

DueGoalsFire == \A g \in Goal : []<>(Overdue(g) => ~Served(g))

\* The engine implements the life cycle of a run, through retries, restarts,
\* deletions and every order in which ticks and coroutines take the loop.
Lifecycle ==
    INSTANCE RunLifecycle WITH
        status <- [r \in Run |-> runs[r].status],
        result <- [r \in Run |-> [t \in Task |-> runs[r].results[t].status]],
        deps   <- [r \in Run |-> IF Exists(r) THEN DepsOf(r) ELSE NoDeps]

ImplementsLifecycle == Lifecycle!Spec
=============================================================================
