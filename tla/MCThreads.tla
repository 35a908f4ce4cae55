----------------------------- MODULE MCThreads -----------------------------
(***************************************************************************)
(* The threads of kpr for TLC: the pool (ThreadPool), a timer thread with  *)
(* a persistent and a one-shot timer (TimerThread), the manager of         *)
(* periodic tasks (TimerTaskManager), which uses of the pool only what the *)
(* first shows, and the monitor they all use (Monitor).  A behaviour       *)
(* exercises one of the four.                                              *)
(***************************************************************************)
EXTENDS ThreadPool, TimerTaskManager, Monitor

VARIABLE side

\* Timer 1 is persistent and starts late; timer 2 is a retry as the consume
\* services register it: one-shot, without an initial delay.
Delays == [i \in Timers |-> IF i = 1 THEN 1 ELSE 0]
Periods == [i \in Timers |-> i]

\* Workers are interchangeable: one choice of the first ones stands for all.
InitAll ==
    /\ side \in {"pool", "timers", "tasks", "locks"} /\ Init /\ TaskInit /\ MonitorInit
    /\ members = CHOOSE s \in Lists(AdjustedCount, Workers) : Len(s) = Len(members)

\* So are works, and workers that do not run and have the same flag: works are added
\* in their order, and the least of these workers is the next to run.
InOrder ==
    /\ added' = 1 .. Cardinality(added')
    /\ \A v, w \in Workers :
          v < w /\ pc[v] = "none" /\ pc[w] = "none" /\ stop[v] = stop[w] /\ pc'[w] # "none"
             => pc'[v] # "none"

InPool(A) == side = "pool" /\ A /\ UNCHANGED <<side, managerVars, monitorVars>>

InTasks(A) == side = "tasks" /\ A /\ UNCHANGED <<side, vars, monitorVars>>

InTimers(A) ==
    /\ side = "timers" /\ A
    /\ UNCHANGED <<side, vars, monitorVars, poolVars>>

InLocks(A) == side = "locks" /\ A /\ UNCHANGED <<side, vars, managerVars>>

allVars == <<side, vars, managerVars, monitorVars>>

SpecAll ==
    /\ InitAll
    /\ [][InPool(Next /\ InOrder) \/ InTimers(TimerNext) \/ InTasks(TaskNext) \/ InLocks(MonitorNext)]_allVars
    /\ WF_allVars(InPool(DestroyReturns)) /\ \A w \in Workers : WF_allVars(InPool(WorkerStep(w)))
    /\ WF_allVars(InTasks(TimePasses)) /\ WF_allVars(InTasks(TimerThreadStep))
    /\ \A i \in Persistent : /\ WF_allVars(InTasks(PoolStep(i)))
                             /\ WF_allVars(InTasks(EnterTask(i)))
    /\ \A t \in Threads : WF_allVars(InLocks(MonitorStep(t)))

\* A task runs again and again, in the behaviours that are about tasks.
TasksRun == side = "tasks" => TaskRuns
=============================================================================
