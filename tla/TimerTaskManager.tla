-------------------------- MODULE TimerTaskManager --------------------------
(***************************************************************************)
(* kpr::TimerTaskManager: the periodic tasks of MQClientFactory.  A timer  *)
(* thread tells when a task is due; the task itself runs in a thread pool, *)
(* of which only the promise is used here that every work added is done    *)
(* once unless the pool is destroyed (WorkInOnePlace and WorkDone of       *)
(* ThreadPool).  Its timers are persistent.                                *)
(***************************************************************************)
EXTENDS TimerThread

VARIABLES
    timerTasks,   \* the ids in m_timerTasks
    processing,   \* id -> its task's m_isProcessing
    queued,       \* id -> how often its task is in the pool's queue
    running,      \* id -> how many threads are in its DoTask
    leaving,      \* id -> how many threads left DoTask and did not clear the flag yet
    destroyed     \* Close has destroyed the pool

poolVars == <<timerTasks, processing, queued, running, leaving, destroyed>>
managerVars == <<timerVars, poolVars>>

Zero == [i \in Timers |-> 0]

TaskInit ==
    /\ TimerInit
    /\ timerTasks = {} /\ processing = [i \in Timers |-> FALSE]
    /\ queued = Zero /\ running = Zero /\ leaving = Zero /\ destroyed = FALSE

\* RegisterTimer gets an id from the timer thread, which may be due at once,
\* and then enters the task.
RegisterTask(i) == RegisterTimer(i) /\ UNCHANGED poolVars

EnterTask(i) ==
    /\ known[i] = "known" /\ i \notin timerTasks /\ i \in timers
    /\ timerTasks' = timerTasks \cup {i}
    /\ UNCHANGED <<timerVars, processing, queued, running, leaving, destroyed>>

UnRegisterTask(i) == i \in timerTasks /\ UnRegisterTimer(i) /\ UNCHANGED poolVars

EraseTask(i) ==
    /\ known[i] = "cancelled" /\ i \in timerTasks
    /\ timerTasks' = timerTasks \ {i}
    /\ UNCHANGED <<timerVars, processing, queued, running, leaving, destroyed>>

ResetTask(i) == i \in timerTasks /\ ResetTimer(i) /\ UNCHANGED poolVars

\* Mutant: a task that is still processing is added again.
RunsTaskAlways(i) == i \in timerTasks

RunsTask(i) == i \in timerTasks /\ ~processing[i]

\* OnTimeOut; AddWork refuses the task once the pool is destroyed.
OnTimeOutTask(i) ==
    /\ OnTimeOut(i)
    /\ processing' = [processing EXCEPT ![i] = @ \/ RunsTask(i)]
    /\ queued' = [queued EXCEPT ![i] = IF RunsTask(i) /\ ~destroyed THEN @ + 1 ELSE @]
    /\ UNCHANGED <<timerTasks, running, leaving, destroyed>>

(***************************************************************************)
(* The pool.                                                               *)
(***************************************************************************)
DoTask(i) ==
    /\ queued[i] > 0 /\ ~destroyed
    /\ queued' = [queued EXCEPT ![i] = @ - 1] /\ running' = [running EXCEPT ![i] = @ + 1]
    /\ UNCHANGED <<timerVars, timerTasks, processing, leaving, destroyed>>

DoTaskEnds(i) ==
    /\ running[i] > 0
    /\ running' = [running EXCEPT ![i] = @ - 1] /\ leaving' = [leaving EXCEPT ![i] = @ + 1]
    /\ UNCHANGED <<timerVars, timerTasks, processing, queued, destroyed>>

\* Mutant: the flag is left set.
ClearProcessingNever(i) ==
    /\ leaving[i] > 0 /\ leaving' = [leaving EXCEPT ![i] = @ - 1]
    /\ UNCHANGED <<timerVars, timerTasks, processing, queued, running, destroyed>>

ClearProcessing(i) ==
    /\ leaving[i] > 0 /\ leaving' = [leaving EXCEPT ![i] = @ - 1]
    /\ processing' = [processing EXCEPT ![i] = FALSE]
    /\ UNCHANGED <<timerVars, timerTasks, queued, running, destroyed>>

\* Close of the manager: the timer thread is told to close and not joined, the
\* pool is destroyed, which takes its queue away.
CloseTimers == Close /\ UNCHANGED poolVars

DestroyPool ==
    /\ closed /\ ~destroyed /\ destroyed' = TRUE /\ queued' = Zero
    /\ UNCHANGED <<timerVars, timerTasks, processing, running, leaving>>

-----------------------------------------------------------------------------
TimerThreadStep ==
    \/ (ReadClock \/ EndRun \/ CheckTimeOut \/ Sleep) /\ UNCHANGED poolVars
    \/ \E i \in Persistent : OnTimeOutTask(i)

PoolStep(i) == DoTask(i) \/ DoTaskEnds(i) \/ ClearProcessing(i)

TimePasses == Tick /\ UNCHANGED poolVars

TaskNext ==
    \/ TimePasses \/ TimerThreadStep \/ CloseTimers \/ DestroyPool
    \/ \E i \in Persistent :
          RegisterTask(i) \/ EnterTask(i) \/ UnRegisterTask(i) \/ EraseTask(i) \/ ResetTask(i)
          \/ PoolStep(i)

TaskSpec == TaskInit /\ [][TaskNext]_managerVars

\* Time passes, the timer thread's waits are timed, the pool runs its works and
\* they return, and RegisterTimer returns.
TaskFairness ==
    /\ WF_managerVars(TimePasses) /\ WF_managerVars(TimerThreadStep)
    /\ \A i \in Persistent : WF_managerVars(PoolStep(i)) /\ WF_managerVars(EnterTask(i))

TaskFairSpec == TaskSpec /\ TaskFairness

-----------------------------------------------------------------------------
\* A task never runs twice at the same time and never waits in the pool's queue
\* while it runs, although its period may be shorter than its run.
TaskNotTwice == \A i \in Timers : queued[i] + running[i] + leaving[i] <= 1

\* A task that is registered runs again and again until it is unregistered or
\* the manager is closed: no expiry is lost for good to a run that is ending.
TaskRuns ==
    \A i \in Persistent :
        known[i] = "known" ~> running[i] > 0 \/ known[i] = "cancelled" \/ closed
=============================================================================
