----------------------------- MODULE KprProofs -----------------------------
(***************************************************************************)
(* Proofs about the locks, timers and pools of kpr: a Monitor excludes,    *)
(* for any number of threads, depth of nesting and number of calls; a      *)
(* one-shot timer of a TimerThread fires at most once, for any timers and  *)
(* delays; a task of a TimerTaskManager is never twice in the pool; a      *)
(* ThreadPool counts its threads and neither loses nor doubles work, for   *)
(* any number of workers, works and bounds of the pool.                    *)
(***************************************************************************)
EXTENDS Monitor, TimerTaskManager, ThreadPool, FiniteSetTheorems, SequenceTheorems, TLAPS

-----------------------------------------------------------------------------
(* Monitor. *)

Places ==
    {"out", "lock", "take", "contend", "retry", "in", "unlock", "reset", "sleep", "asleep",
     "awake", "helper"}

MonitorTypeOK ==
    /\ internal \in SUBSET Threads /\ mutex \in SUBSET Threads /\ owner \in SUBSET Threads
    /\ lockCount \in Nat /\ notifyCount \in Int /\ asked \in Int
    /\ at \in [Threads -> Places] /\ arg \in [Threads -> Nat] /\ depth \in [Threads -> Nat]

\* A caller of lock that owns the mutex already.
Nested(t) == at[t] = "lock" /\ t \in owner

\* m_internal is kept across a step only by a thread that waits for m_mutex.
InternalOK ==
    /\ \A t \in Threads : t \in internal <=> at[t] = "take"
    /\ \A t, u \in internal : t = u

\* Who holds m_mutex: the owner, once it is inside, a thread on its way to sleep,
\* one that has just woken up, and a contender that looks whether it is free.
MutexOK ==
    /\ \A t \in Threads :
          t \in mutex <=> \/ at[t] \in {"in", "unlock", "reset", "sleep", "helper", "retry"}
                          \/ Nested(t)
    /\ \A t, u \in mutex : t = u

\* Who is the owner, and that there is one exactly while the count is positive.
OwnerOK ==
    /\ \A t \in Threads :
          /\ at[t] \in {"in", "unlock", "reset", "take"} => t \in owner
          /\ t \in owner => at[t] \in {"in", "unlock", "reset", "take", "lock"}
    /\ \A t, u \in owner : t = u
    /\ lockCount = 0 <=> owner = {}

\* The count is the depth of the owner's calls, the one on its way excepted; anyone
\* else who is not outside asks, or will ask, for the depth it had.
DepthOK ==
    \A t \in Threads :
       /\ at[t] \in {"in", "unlock", "reset", "take"} => lockCount = depth[t]
       /\ Nested(t) => lockCount + arg[t] = depth[t]
       /\ at[t] \in {"lock", "contend", "retry", "sleep", "asleep", "awake", "helper"} /\ ~Nested(t)
             => arg[t] = depth[t]
       /\ at[t] = "out" => depth[t] = 0
       /\ at[t] # "out" => depth[t] # 0
       /\ at[t] = "lock" => arg[t] # 0

MonitorInv ==
    MonitorTypeOK /\ InternalOK /\ MutexOK /\ OwnerOK /\ DepthOK /\ notifyCount = asked

\* The inductive invariant says what MonitorExclusive promises.
LEMMA MonitorInvExclusive == MonitorInv => MonitorExclusive
<1> SUFFICES ASSUME MonitorInv, NEW t \in Threads, Inside(t)
             PROVE  /\ \A u \in Threads \ {t} : ~Inside(u)
                    /\ owner = {t} /\ mutex = {t} /\ lockCount = depth[t] /\ notifyCount = asked
  BY DEF MonitorExclusive
<1>1. t \in owner /\ t \in mutex
  BY DEF MonitorInv, Inside, OwnerOK, MutexOK
<1>2. owner = {t} /\ mutex = {t}
  BY <1>1 DEF MonitorInv, MonitorTypeOK, OwnerOK, MutexOK
<1>3. \A u \in Threads \ {t} : ~Inside(u)
  BY <1>2 DEF MonitorInv, Inside, OwnerOK
<1>4. QED
  BY <1>2, <1>3 DEF MonitorInv, Inside, DepthOK

\* A monitor starts free, with nobody inside.
LEMMA MonitorInitInv == MonitorInit => MonitorInv
BY DEF MonitorInit, MonitorInv, MonitorTypeOK, InternalOK, MutexOK, OwnerOK, DepthOK, Nested, Places

\* The steps of RecursiveMutex::lock.
LEMMA LockSteps ==
    ASSUME MonitorInv, NEW t \in Threads,
           \/ Lock(t) \/ LockFree(t) \/ LockTakes(t) \/ LockAgain(t) \/ LockContended(t)
           \/ ContenderLocks(t) \/ ContenderUnlocks(t)
    PROVE  MonitorInv'
<1> USE DEF MonitorInv, MonitorTypeOK, InternalOK, MutexOK, OwnerOK, DepthOK, Nested, Places, At, GoTo, Call,
            recursive, history
<1>1. CASE Lock(t)              BY <1>1 DEF Lock
<1>2. CASE LockFree(t)          BY <1>2 DEF LockFree
<1>3. CASE LockTakes(t)         BY <1>3 DEF LockTakes
<1>4. CASE LockAgain(t)         BY <1>4 DEF LockAgain
<1>5. CASE LockContended(t)     BY <1>5 DEF LockContended
<1>6. CASE ContenderLocks(t)    BY <1>6 DEF ContenderLocks
<1>7. CASE ContenderUnlocks(t)  BY <1>7 DEF ContenderUnlocks
<1>8. QED BY <1>1, <1>2, <1>3, <1>4, <1>5, <1>6, <1>7

\* Notify, NotifyAll and Unlock.
LEMMA NotifySteps ==
    ASSUME MonitorInv, NEW t \in Threads,
           Notify(t) \/ NotifyAll(t) \/ Unlock(t) \/ UnlockEnds(t)
    PROVE  MonitorInv'
<1> USE DEF MonitorInv, MonitorTypeOK, InternalOK, MutexOK, OwnerOK, DepthOK, Nested, Places, At, GoTo, Call,
            recursive, history
<1>1. CASE Notify(t)      BY <1>1 DEF Notify, NotifyAdds
<1>2. CASE NotifyAll(t)   BY <1>2 DEF NotifyAll, NotifyAdds
<1>3. CASE Unlock(t)
  <2>1. PICK S \in SUBSET Sleepers : Signal(t, S, "unlock")
    BY <1>3 DEF Unlock, Wakes
  <2>2. QED BY <1>3, <2>1 DEF Unlock, Signal, Sleepers
<1>4. CASE UnlockEnds(t)  BY <1>4 DEF UnlockEnds
<1>5. QED BY <1>1, <1>2, <1>3, <1>4

\* The steps of Wait.
LEMMA WaitSteps ==
    ASSUME MonitorInv, NEW t \in Threads,
           \/ Wait(t) \/ Reset4Condvar(t) \/ CondWait(t) \/ WakesUnasked(t) \/ CondWaitReturns(t)
           \/ ConditionHelper(t)
    PROVE  MonitorInv'
<1> USE DEF MonitorInv, MonitorTypeOK, InternalOK, MutexOK, OwnerOK, DepthOK, Nested, Places, At, GoTo, Call,
            recursive, history
<1>1. CASE Wait(t)
  <2>1. PICK S \in SUBSET Sleepers : Signal(t, S, "reset")
    BY <1>1 DEF Wait, Wakes
  <2>2. QED BY <1>1, <2>1 DEF Wait, Signal, Sleepers
<1>2. CASE Reset4Condvar(t)    BY <1>2 DEF Reset4Condvar
<1>3. CASE CondWait(t)         BY <1>3 DEF CondWait
<1>4. CASE WakesUnasked(t)     BY <1>4 DEF WakesUnasked
<1>5. CASE CondWaitReturns(t)  BY <1>5 DEF CondWaitReturns
<1>6. CASE ConditionHelper(t)  BY <1>6 DEF ConditionHelper
<1>7. QED BY <1>1, <1>2, <1>3, <1>4, <1>5, <1>6

\* Every step of lock, unlock, wait and notify keeps the monitor's invariant.
LEMMA MonitorNextInv == MonitorInv /\ [MonitorNext]_monitorVars => MonitorInv'
<1> SUFFICES ASSUME MonitorInv, [MonitorNext]_monitorVars PROVE MonitorInv'
  OBVIOUS
<1>1. CASE MonitorNext
  BY <1>1, LockSteps, NotifySteps, WaitSteps DEF MonitorNext, MonitorStep
<1>2. CASE UNCHANGED monitorVars
  BY <1>2 DEF monitorVars, recursive, history, MonitorInv, MonitorTypeOK, InternalOK, MutexOK, OwnerOK, DepthOK, Nested
<1>3. QED BY <1>1, <1>2

\* At any time at most one thread is inside a monitor, as its owner, with the depth
\* of its calls of Lock and with its own notifications, whoever wakes up, contends
\* or goes to sleep meanwhile.
THEOREM MonitorExclusiveHolds == MonitorSpec => []MonitorExclusive
<1>1. MonitorInit => MonitorInv
  BY MonitorInitInv
<1>2. MonitorInv /\ [MonitorNext]_monitorVars => MonitorInv'
  BY MonitorNextInv
<1>3. QED BY <1>1, <1>2, MonitorInvExclusive, PTL DEF MonitorSpec

-----------------------------------------------------------------------------
(* TimerThread.  A timer is new, then in m_timers, then, if it is one-shot *)
(* and due, only on the thread's own list, and then nowhere.               *)

OneShotInv ==
    /\ fires \in [Timers -> 0 .. 2] /\ known \in [Timers -> {"new", "known", "cancelled"}]
    /\ \A i \in Timers \ Persistent :
          /\ fires[i] <= 1
          /\ known[i] = "new" => i \notin timers /\ i \notin timeList /\ fires[i] = 0
          /\ i \in timers => i \notin timeList /\ fires[i] = 0
          /\ i \in timeList => fires[i] = 0
          /\ known[i] = "cancelled" => i \notin timers /\ i \notin timeList /\ fires[i] = 0

\* The callers' steps and the thread's keep a one-shot timer in one place.
LEMMA TimerNextInv == OneShotInv /\ [TimerNext]_timerVars => OneShotInv'
<1> SUFFICES ASSUME OneShotInv, [TimerNext]_timerVars PROVE OneShotInv'
  OBVIOUS
<1> USE DEF OneShotInv, clock
<1>1. CASE Tick \/ Close \/ ReadClock \/ EndRun \/ Sleep
  BY <1>1 DEF Tick, Close, ReadClock, EndRun, Sleep
<1>2. CASE CheckTimeOut
  <2>1. /\ timeList' = TimedOut /\ timers' = timers \ (TimedOut \ Persistent)
        /\ UNCHANGED <<fires, known>> /\ TimedOut \subseteq timers
    BY <1>2 DEF CheckTimeOut, KeptTimers, TimedOut
  <2>2. QED BY <2>1
<1>3. ASSUME NEW i \in Timers, OnTimeOut(i) PROVE OneShotInv'
  <2>1. /\ i \in timeList /\ timeList' = timeList \ {i} /\ UNCHANGED <<timers, known>>
        /\ fires' = [fires EXCEPT ![i] = IF fires[i] < 2 THEN fires[i] + 1 ELSE 2]
    BY <1>3 DEF OnTimeOut
  <2>2. QED BY <2>1
<1>4. ASSUME NEW i \in Timers, RegisterTimer(i) PROVE OneShotInv'
  BY <1>4 DEF RegisterTimer
<1>5. ASSUME NEW i \in Timers, UnRegisterTimer(i) PROVE OneShotInv'
  BY <1>5 DEF UnRegisterTimer
<1>6. ASSUME NEW i \in Timers, ResetTimer(i) PROVE OneShotInv'
  BY <1>6 DEF ResetTimer
<1>7. CASE UNCHANGED timerVars
  BY <1>7 DEF timerVars
<1>8. QED BY <1>1, <1>2, <1>3, <1>4, <1>5, <1>6, <1>7 DEF TimerNext, Run

\* A one-shot timer, such as a consume service's retry, fires at most once, and
\* never once UnRegisterTimer has returned true, although TimerThread::Run works
\* through a copy of the timers that are due after it has released its lock.
THEOREM OneShotHolds == TimerSpec => []OneShot
<1>1. TimerInit => OneShotInv
  BY DEF TimerInit, OneShotInv
<1>2. OneShotInv => OneShot
  BY DEF OneShotInv, OneShot
<1>3. QED BY <1>1, <1>2, TimerNextInv, PTL DEF TimerSpec

-----------------------------------------------------------------------------
(* TimerTaskManager.  m_isProcessing is set for as long as the task is in  *)
(* the pool, except for a task that the destroyed pool refused.            *)

InPool(i) == queued[i] + running[i] + leaving[i]

TasksTypes ==
    /\ processing \in [Timers -> BOOLEAN]
    /\ queued \in [Timers -> Nat] /\ running \in [Timers -> Nat] /\ leaving \in [Timers -> Nat]

TasksInv ==
    /\ TasksTypes
    /\ \A i \in Timers : InPool(i) <= 1 /\ (InPool(i) = 1 => processing[i])

\* A step that concerns the pool's part of one task.
LEMMA OneTask ==
    ASSUME TasksInv, NEW i \in Timers, TasksTypes',
           \A j \in Timers \ {i} : /\ processing'[j] = processing[j] /\ queued'[j] = queued[j]
                                   /\ running'[j] = running[j] /\ leaving'[j] = leaving[j],
           InPool(i)' <= 1, InPool(i)' = 1 => processing'[i]
    PROVE  TasksInv'
<1>1. ASSUME NEW j \in Timers \ {i} PROVE InPool(j)' <= 1 /\ (InPool(j)' = 1 => processing'[j])
  BY <1>1 DEF TasksInv, TasksTypes, InPool
<1>2. QED BY <1>1 DEF TasksInv, TasksTypes

\* A task enters the pool only when OnTimeOut sets its flag, and clears it when
\* it leaves.
LEMMA TaskNextInv == TasksInv /\ [TaskNext]_managerVars => TasksInv'
<1> SUFFICES ASSUME TasksInv, [TaskNext]_managerVars PROVE TasksInv'
  OBVIOUS
<1> USE DEF poolVars
\* The timers' steps and the table of tasks.
<1>1. ASSUME UNCHANGED <<processing, queued, running, leaving>> PROVE TasksInv'
  BY <1>1 DEF TasksInv, TasksTypes, InPool
<1>2. CASE TimePasses \/ CloseTimers \/ UNCHANGED managerVars
  BY <1>1, <1>2 DEF TimePasses, CloseTimers, managerVars
<1>3. CASE (ReadClock \/ EndRun \/ CheckTimeOut \/ Sleep) /\ UNCHANGED poolVars
  BY <1>1, <1>3
<1>4. ASSUME NEW i \in Persistent,
             RegisterTask(i) \/ EnterTask(i) \/ UnRegisterTask(i) \/ EraseTask(i) \/ ResetTask(i)
      PROVE  TasksInv'
  BY <1>1, <1>4 DEF RegisterTask, EnterTask, UnRegisterTask, EraseTask, ResetTask
<1>5. CASE DestroyPool
  <2>1. queued' = [i \in Timers |-> 0] /\ UNCHANGED <<processing, running, leaving>>
    BY <1>5 DEF DestroyPool, Zero
  <2>2. ASSUME NEW i \in Timers PROVE InPool(i)' <= 1 /\ (InPool(i)' = 1 => processing'[i])
    BY <2>1 DEF TasksInv, TasksTypes, InPool
  <2>3. QED BY <2>1, <2>2 DEF TasksInv, TasksTypes
\* The steps that move a task i of the manager; a step of any other i moves nothing.
<1>6. ASSUME NEW i \in Persistent, i \notin Timers, OnTimeOutTask(i) \/ PoolStep(i) PROVE TasksInv'
  <2>1. UNCHANGED <<processing, queued, running, leaving>>
    BY <1>6 DEF OnTimeOutTask, PoolStep, DoTask, DoTaskEnds, ClearProcessing, TasksInv, TasksTypes
  <2>2. QED BY <1>1, <2>1
<1>7. ASSUME NEW i \in Timers, OnTimeOutTask(i) \/ PoolStep(i) PROVE TasksInv'
  <2>1. /\ processing[i] \in BOOLEAN /\ queued[i] \in Nat /\ running[i] \in Nat /\ leaving[i] \in Nat
        /\ queued[i] + running[i] + leaving[i] <= 1
        /\ queued[i] + running[i] + leaving[i] = 1 => processing[i]
    BY DEF TasksInv, TasksTypes, InPool
  <2>2. TasksTypes
    BY DEF TasksInv, TasksTypes
  <2>3. CASE OnTimeOutTask(i)
    <3>1. /\ processing' = [processing EXCEPT ![i] = processing[i] \/ RunsTask(i)]
          /\ UNCHANGED <<running, leaving>>
          /\ queued' = [queued EXCEPT ![i] = IF RunsTask(i) /\ ~destroyed THEN queued[i] + 1 ELSE queued[i]]
      BY <2>3 DEF OnTimeOutTask
    <3>2. (processing[i] \/ RunsTask(i)) \in BOOLEAN
      OBVIOUS
    <3>3. processing' \in [Timers -> BOOLEAN]
      BY <2>2, <3>1, <3>2 DEF TasksTypes
    <3>4. queued' \in [Timers -> Nat]
      BY <2>1, <2>2, <3>1 DEF TasksTypes
    <3>5. TasksTypes'
      BY <2>2, <3>1, <3>3, <3>4 DEF TasksTypes
    <3>6. /\ processing'[i] = (processing[i] \/ RunsTask(i))
          /\ queued'[i] = IF RunsTask(i) /\ ~destroyed THEN queued[i] + 1 ELSE queued[i]
          /\ \A j \in Timers \ {i} : processing'[j] = processing[j] /\ queued'[j] = queued[j]
      BY <2>2, <3>1 DEF TasksTypes
    <3>7. RunsTask(i) => ~processing[i]
      BY DEF RunsTask
    <3>8. InPool(i)' <= 1 /\ (InPool(i)' = 1 => processing'[i])
      <4>1. CASE RunsTask(i)
        <5>1. processing'[i] /\ ~processing[i]
          BY <3>6, <3>7, <4>1
        <5>2. queued[i] + running[i] + leaving[i] = 0 /\ queued'[i] \in {queued[i], queued[i] + 1}
          BY <2>1, <3>6, <5>1
        <5>3. InPool(i)' <= 1
          BY <2>1, <3>1, <5>2 DEF InPool
        <5>4. QED BY <5>1, <5>3
      <4>2. CASE ~RunsTask(i)
        BY <2>1, <3>1, <3>6, <4>2 DEF InPool
      <4>3. QED BY <4>1, <4>2
    <3>9. QED BY <3>1, <3>5, <3>6, <3>8, OneTask
  <2>4. CASE DoTask(i)
    <3>1. /\ queued[i] > 0 /\ queued' = [queued EXCEPT ![i] = queued[i] - 1]
          /\ running' = [running EXCEPT ![i] = running[i] + 1] /\ UNCHANGED <<processing, leaving>>
      BY <2>4 DEF DoTask
    <3>2. TasksTypes' /\ queued'[i] = queued[i] - 1 /\ running'[i] = running[i] + 1
      BY <2>1, <2>2, <3>1 DEF TasksTypes
    <3>3. \A j \in Timers \ {i} : queued'[j] = queued[j] /\ running'[j] = running[j]
      BY <2>2, <3>1 DEF TasksTypes
    <3>4. InPool(i)' = InPool(i) /\ processing'[i] = processing[i]
      BY <2>1, <3>1, <3>2 DEF InPool
    <3>5. QED BY <2>1, <3>1, <3>2, <3>3, <3>4, OneTask DEF InPool
  <2>5. CASE DoTaskEnds(i)
    <3>1. /\ running[i] > 0 /\ running' = [running EXCEPT ![i] = running[i] - 1]
          /\ leaving' = [leaving EXCEPT ![i] = leaving[i] + 1] /\ UNCHANGED <<processing, queued>>
      BY <2>5 DEF DoTaskEnds
    <3>2. TasksTypes' /\ running'[i] = running[i] - 1 /\ leaving'[i] = leaving[i] + 1
      BY <2>1, <2>2, <3>1 DEF TasksTypes
    <3>3. \A j \in Timers \ {i} : running'[j] = running[j] /\ leaving'[j] = leaving[j]
      BY <2>2, <3>1 DEF TasksTypes
    <3>4. InPool(i)' = InPool(i) /\ processing'[i] = processing[i]
      BY <2>1, <3>1, <3>2 DEF InPool
    <3>5. QED BY <2>1, <3>1, <3>2, <3>3, <3>4, OneTask DEF InPool
  <2>6. CASE ClearProcessing(i)
    <3>1. /\ leaving[i] > 0 /\ leaving' = [leaving EXCEPT ![i] = leaving[i] - 1]
          /\ processing' = [processing EXCEPT ![i] = FALSE] /\ UNCHANGED <<queued, running>>
      BY <2>6 DEF ClearProcessing
    <3>2. leaving' \in [Timers -> Nat] /\ leaving'[i] = leaving[i] - 1
      BY <2>1, <2>2, <3>1 DEF TasksTypes
    <3>3. processing' \in [Timers -> BOOLEAN]
      BY <2>2, <3>1 DEF TasksTypes
    <3>4. \A j \in Timers \ {i} : leaving'[j] = leaving[j] /\ processing'[j] = processing[j]
      BY <2>2, <3>1 DEF TasksTypes
    <3>5. InPool(i)' = 0
      BY <2>1, <3>1, <3>2 DEF InPool
    <3>6. TasksTypes'
      BY <2>2, <3>1, <3>2, <3>3 DEF TasksTypes
    <3>7. InPool(i)' <= 1 /\ (InPool(i)' = 1 => processing'[i])
      BY <3>5
    <3>8. \A j \in Timers \ {i} : /\ processing'[j] = processing[j] /\ queued'[j] = queued[j]
                                  /\ running'[j] = running[j] /\ leaving'[j] = leaving[j]
      BY <3>1, <3>4
    <3>9. QED BY <3>6, <3>7, <3>8, OneTask
  <2>7. QED BY <1>7, <2>3, <2>4, <2>5, <2>6 DEF PoolStep
<1>8. QED BY <1>2, <1>3, <1>4, <1>5, <1>6, <1>7 DEF TaskNext, TimerThreadStep

\* A periodic task never runs in two threads at once and never waits in the pool's
\* queue while it runs, for any timers, periods and duration of the runs: the
\* flag m_isProcessing is cleared only when the run is over.
THEOREM TaskNotTwiceHolds == TaskSpec => []TaskNotTwice
<1>1. TaskInit => TasksInv
  BY DEF TaskInit, Zero, TasksInv, TasksTypes, InPool
<1>2. TasksInv => TaskNotTwice
  BY DEF TasksInv, TasksTypes, InPool, TaskNotTwice
<1>3. QED BY <1>1, <1>2, TaskNextInv, PTL DEF TaskSpec

-----------------------------------------------------------------------------
(* Lists without repetitions. *)

Distinct(s) == \A i, j \in DOMAIN s : s[i] = s[j] => i = j

\* A list with as many different elements as places repeats none.
LEMMA DistinctIfAllDiffer ==
    ASSUME NEW S, NEW k \in Nat, NEW s \in [1 .. k -> S], Cardinality(Range(s)) = k
    PROVE  Distinct(s)
<1>1. IsFiniteSet(1 .. k) /\ Cardinality(1 .. k) = k
  BY FS_Interval
<1>2. s \in Surjection(1 .. k, Range(s))
  BY DEF Surjection, Range
<1>3. s \in Injection(1 .. k, Range(s))
  BY <1>1, <1>2, FS_SurjSameCardinalityImpliesInj
<1>4. QED
  BY <1>3 DEF Injection, IsInjective, Distinct

\* Appending something new.
LEMMA AppendDistinct ==
    ASSUME NEW S, NEW s \in Seq(S), Distinct(s), NEW x \in S, x \notin Range(s)
    PROVE  /\ Append(s, x) \in Seq(S) /\ Distinct(Append(s, x))
           /\ Range(Append(s, x)) = Range(s) \cup {x}
<1>1. /\ Append(s, x) \in Seq(S) /\ Len(Append(s, x)) = Len(s) + 1
      /\ \A i \in 1 .. Len(s) : Append(s, x)[i] = s[i]
      /\ Append(s, x)[Len(s) + 1] = x
  BY AppendProperties
<1>2. DOMAIN s = 1 .. Len(s) /\ DOMAIN Append(s, x) = 1 .. Len(s) + 1 /\ Len(s) \in Nat
  BY <1>1, LenProperties
<1>3. Range(Append(s, x)) = Range(s) \cup {x}
  BY <1>1, <1>2 DEF Range
<1>4. Distinct(Append(s, x))
  BY <1>1, <1>2 DEF Range, Distinct
<1>5. QED BY <1>1, <1>3, <1>4

\* Taking the first.
LEMMA TailDistinct ==
    ASSUME NEW S, NEW s \in Seq(S), Distinct(s), s # <<>>
    PROVE  /\ Head(s) \in Range(s) /\ Tail(s) \in Seq(S) /\ Distinct(Tail(s))
           /\ Range(Tail(s)) = Range(s) \ {Head(s)}
<1>1. /\ Tail(s) \in Seq(S) /\ Len(Tail(s)) = Len(s) - 1
      /\ \A i \in 1 .. Len(Tail(s)) : Tail(s)[i] = s[i + 1]
  BY HeadTailProperties
<1>2. /\ DOMAIN s = 1 .. Len(s) /\ DOMAIN Tail(s) = 1 .. Len(s) - 1 /\ Len(s) \in Nat \ {0}
      /\ Head(s) = s[1]
  BY <1>1, LenProperties, EmptySeq
<1>3. Distinct(Tail(s))
  BY <1>1, <1>2 DEF Distinct
<1>4. Range(Tail(s)) = Range(s) \ {Head(s)}
  <2>1. ASSUME NEW i \in DOMAIN Tail(s) PROVE Tail(s)[i] \in Range(s) \ {Head(s)}
    BY <1>1, <1>2 DEF Distinct, Range
  <2>2. ASSUME NEW i \in DOMAIN s, s[i] # Head(s) PROVE s[i] \in Range(Tail(s))
    <3>1. i - 1 \in DOMAIN Tail(s) /\ Tail(s)[i - 1] = s[i]
      BY <1>1, <1>2, <2>2
    <3>2. QED BY <3>1 DEF Range
  <2>3. QED BY <2>1, <2>2 DEF Range
<1>5. Head(s) \in Range(s)
  BY <1>2 DEF Range
<1>6. QED BY <1>1, <1>3, <1>4, <1>5

\* Appending a list of others.
LEMMA ConcatDistinct ==
    ASSUME NEW S, NEW s \in Seq(S), NEW t \in Seq(S), Distinct(s), Distinct(t),
           Range(s) \cap Range(t) = {}
    PROVE  /\ s \o t \in Seq(S) /\ Distinct(s \o t) /\ Len(s \o t) = Len(s) + Len(t)
           /\ Range(s \o t) = Range(s) \cup Range(t)
<1>1. /\ s \o t \in Seq(S) /\ Len(s \o t) = Len(s) + Len(t)
      /\ \A i \in 1 .. Len(s) + Len(t) :
            (s \o t)[i] = IF i <= Len(s) THEN s[i] ELSE t[i - Len(s)]
  BY ConcatProperties
<1>2. /\ DOMAIN s = 1 .. Len(s) /\ DOMAIN t = 1 .. Len(t) /\ DOMAIN (s \o t) = 1 .. Len(s) + Len(t)
      /\ Len(s) \in Nat /\ Len(t) \in Nat
  BY <1>1, LenProperties
<1>3. ASSUME NEW i \in DOMAIN (s \o t), NEW j \in DOMAIN (s \o t), (s \o t)[i] = (s \o t)[j]
      PROVE  i = j
  <2>1. CASE i <= Len(s) /\ j <= Len(s)
    BY <1>1, <1>2, <1>3, <2>1 DEF Distinct
  <2>2. CASE i > Len(s) /\ j > Len(s)
    <3>1. i - Len(s) \in DOMAIN t /\ j - Len(s) \in DOMAIN t /\ t[i - Len(s)] = t[j - Len(s)]
      BY <1>1, <1>2, <1>3, <2>2
    <3>2. QED BY <3>1, <1>2 DEF Distinct
  <2>3. CASE i <= Len(s) /\ j > Len(s)
    <3>1. (s \o t)[i] \in Range(s) /\ (s \o t)[j] \in Range(t)
      <4>1. i \in DOMAIN s /\ (s \o t)[i] = s[i]
        BY <1>1, <1>2, <2>3
      <4>2. j - Len(s) \in DOMAIN t /\ (s \o t)[j] = t[j - Len(s)]
        BY <1>1, <1>2, <2>3
      <4>3. QED BY <4>1, <4>2 DEF Range
    <3>2. QED BY <3>1, <1>3
  <2>4. CASE i > Len(s) /\ j <= Len(s)
    <3>1. (s \o t)[j] \in Range(s) /\ (s \o t)[i] \in Range(t)
      <4>1. j \in DOMAIN s /\ (s \o t)[j] = s[j]
        BY <1>1, <1>2, <2>4
      <4>2. i - Len(s) \in DOMAIN t /\ (s \o t)[i] = t[i - Len(s)]
        BY <1>1, <1>2, <2>4
      <4>3. QED BY <4>1, <4>2 DEF Range
    <3>2. QED BY <3>1, <1>3
  <2>5. QED BY <2>1, <2>2, <2>3, <2>4, <1>2
<1>4. QED BY <1>1, <1>3, RangeConcatenation DEF Distinct

\* What RemoveThread leaves of the list when it erases place i.
Erased(s, i) == SubSeq(s, 1, i - 1) \o SubSeq(s, i + 1, Len(s))

\* Erasing one.
LEMMA ErasedDistinct ==
    ASSUME NEW S, NEW s \in Seq(S), Distinct(s), NEW i \in DOMAIN s
    PROVE  /\ Erased(s, i) \in Seq(S) /\ Distinct(Erased(s, i)) /\ Len(Erased(s, i)) = Len(s) - 1
           /\ Range(Erased(s, i)) = Range(s) \ {s[i]}
<1> DEFINE a == SubSeq(s, 1, i - 1)
           b == SubSeq(s, i + 1, Len(s))
<1> HIDE DEF a, b
<1>1. DOMAIN s = 1 .. Len(s) /\ Len(s) \in Nat /\ i \in 1 .. Len(s) /\ \A j \in 1 .. Len(s) : s[j] \in S
  BY LenProperties, ElementOfSeq
<1>2. a \in Seq(S) /\ Len(a) = i - 1 /\ \A j \in 1 .. i - 1 : a[j] = s[j]
  <2>1. \A j \in 1 .. i - 1 : s[j] \in S
    BY <1>1
  <2>2. /\ a \in Seq(S) /\ Len(a) = IF 1 <= i - 1 THEN i - 1 - 1 + 1 ELSE 0
        /\ \A j \in 1 .. i - 1 - 1 + 1 : a[j] = s[1 + j - 1]
    BY <1>1, <2>1, SubSeqProperties DEF a
  <2>3. QED BY <1>1, <2>2
<1>3. b \in Seq(S) /\ Len(b) = Len(s) - i /\ \A j \in 1 .. Len(s) - i : b[j] = s[i + j]
  <2>1. \A j \in i + 1 .. Len(s) : s[j] \in S
    BY <1>1
  <2>2. /\ b \in Seq(S) /\ Len(b) = IF i + 1 <= Len(s) THEN Len(s) - (i + 1) + 1 ELSE 0
        /\ \A j \in 1 .. Len(s) - (i + 1) + 1 : b[j] = s[i + 1 + j - 1]
    BY <1>1, <2>1, SubSeqProperties DEF b
  <2>3. \A j \in 1 .. Len(s) - i : j \in 1 .. Len(s) - (i + 1) + 1 /\ i + 1 + j - 1 = i + j
    BY <1>1
  <2>4. Len(b) = Len(s) - i
    BY <1>1, <2>2
  <2>5. QED BY <2>2, <2>3, <2>4
<1>4. DOMAIN a = 1 .. i - 1 /\ DOMAIN b = 1 .. Len(s) - i
  BY <1>2, <1>3, LenProperties
<1>5. Distinct(a) /\ Distinct(b) /\ Range(a) \cap Range(b) = {}
  <2>1. Distinct(a)
    BY <1>1, <1>2, <1>4 DEF Distinct
  <2>2. Distinct(b)
    <3>1. ASSUME NEW j \in DOMAIN b, NEW k \in DOMAIN b, b[j] = b[k] PROVE j = k
      <4>1. i + j \in 1 .. Len(s) /\ i + k \in 1 .. Len(s)
        BY <1>1, <1>4
      <4>2. s[i + j] = s[i + k]
        BY <1>3, <1>4, <3>1
      <4>3. i + j = i + k
        BY <4>1, <4>2, <1>1 DEF Distinct
      <4>4. QED BY <4>3, <1>1, <1>4
    <3>2. QED BY <3>1 DEF Distinct
  <2>3. ASSUME NEW j \in DOMAIN a, NEW k \in DOMAIN b PROVE a[j] # b[k]
    <3>1. j \in 1 .. Len(s) /\ i + k \in 1 .. Len(s) /\ j # i + k
      BY <1>1, <1>4
    <3>2. a[j] = s[j] /\ b[k] = s[i + k]
      BY <1>2, <1>3, <1>4
    <3>3. QED BY <3>1, <3>2, <1>1 DEF Distinct
  <2>4. QED BY <2>1, <2>2, <2>3 DEF Range
<1>6. Range(a) \cup Range(b) = Range(s) \ {s[i]}
  <2>1. ASSUME NEW j \in DOMAIN a PROVE a[j] \in Range(s) \ {s[i]}
    BY <1>1, <1>2, <1>4 DEF Distinct, Range
  <2>2. ASSUME NEW j \in DOMAIN b PROVE b[j] \in Range(s) \ {s[i]}
    BY <1>1, <1>3, <1>4 DEF Distinct, Range
  <2>3. ASSUME NEW j \in DOMAIN s, s[j] # s[i] PROVE s[j] \in Range(a) \cup Range(b)
    <3>1. CASE j < i
      <4>1. j \in DOMAIN a /\ a[j] = s[j]
        BY <3>1, <1>1, <1>2, <1>4
      <4>2. QED BY <4>1 DEF Range
    <3>2. CASE j > i
      <4>1. j - i \in DOMAIN b /\ b[j - i] = s[j]
        <5>1. j - i \in 1 .. Len(s) - i /\ i + (j - i) = j
          BY <3>2, <1>1
        <5>2. QED BY <5>1, <1>3, <1>4
      <4>2. QED BY <4>1 DEF Range
    <3>3. QED BY <2>3, <3>1, <3>2, <1>1
  <2>4. QED BY <2>1, <2>2, <2>3 DEF Range
<1>7. /\ a \o b \in Seq(S) /\ Distinct(a \o b) /\ Len(a \o b) = Len(a) + Len(b)
      /\ Range(a \o b) = Range(a) \cup Range(b)
  BY <1>2, <1>3, <1>5, ConcatDistinct
<1>8. Len(a) + Len(b) = Len(s) - 1
  BY <1>1, <1>2, <1>3
<1>9. Erased(s, i) = a \o b
  BY DEF Erased, a, b
<1>10. QED BY <1>6, <1>7, <1>8, <1>9
-----------------------------------------------------------------------------
(* The inductive invariant. *)

PoolTypeOK ==
    /\ destroy \in BOOLEAN /\ joined \in BOOLEAN
    /\ works \in Seq(Works) /\ members \in Seq(Workers) /\ count \in Int
    /\ pc \in [Workers -> {"none", "top", "wait", "get", "do", "leave", "remove"}]
    /\ job \in [Workers -> Seq(Works)]
    /\ canWork \in [Workers -> BOOLEAN] /\ stop \in [Workers -> BOOLEAN]
    /\ idle \in [Workers -> BOOLEAN]
    /\ added \in SUBSET Works /\ done \in SUBSET Works

\* The list has every running thread once.
ThreadsOK == Distinct(members) /\ CountOK

\* A worker has a job only while it runs it, and is not idle then, so that the
\* manager does not stop it.
JobsOK ==
    \A w \in Workers : /\ pc[w] # "do" => job[w] = <<>>
                       /\ pc[w] = "do" => ~idle[w] /\ (stop[w] => destroy)

Jobs == UNION {Range(job[w]) : w \in Workers}

\* The places of the works do not overlap, and only Destroy takes any away.
WorksOK ==
    /\ Distinct(works) /\ Range(works) \cap done = {}
    /\ \A w \in Workers : Range(job[w]) \cap (Range(works) \cup done) = {}
    /\ \A v, w \in Workers : Range(job[v]) \cap Range(job[w]) # {} => v = w
    /\ Range(works) \cup done \cup Jobs \subseteq added
    /\ ~joined => added \subseteq Range(works) \cup done \cup Jobs
    /\ joined => destroy /\ works = <<>> /\ \A w \in Workers : pc[w] = "none"

PoolInv == PoolTypeOK /\ ThreadsOK /\ JobsOK /\ WorksOK

\* The inductive invariant says what the two properties promise.
LEMMA PoolInvImplies == PoolInv => CountOK /\ WorkInOnePlace
BY DEF PoolInv, ThreadsOK, JobsOK, WorksOK, Jobs, WorkInOnePlace

\* A list of up to k members of a set, all different.
LEMMA ListsOK ==
    ASSUME NEW S, NEW k \in Nat, NEW s \in Lists(k, S)
    PROVE  s \in Seq(S) /\ Len(s) \in 0 .. k /\ Distinct(s) /\ Range(s) \subseteq S
<1>1. PICK j \in 0 .. k : s \in [1 .. j -> S] /\ Cardinality(Range(s)) = j
  BY DEF Lists
<1>2. Distinct(s)
  <2>1. j \in Nat
    OBVIOUS
  <2>2. QED BY <1>1, <2>1, DistinctIfAllDiffer
<1>3. s \in Seq(S) /\ Len(s) = j
  BY <1>1, IsASeq, LenProperties
<1>4. QED BY <1>1, <1>2, <1>3 DEF Range

\* The threads AddThreads makes.
LEMMA NewWorkersOK ==
    ASSUME PoolTypeOK, NEW k \in Nat, NEW new \in NewWorkers(k)
    PROVE  /\ new \in Seq(Workers) /\ Len(new) \in 0 .. k /\ Distinct(new)
           /\ \A w \in Range(new) : w \in Workers /\ pc[w] = "none"
<1> DEFINE Free == {w \in Workers : pc[w] = "none"}
<1>1. new \in Lists(k, Free)
  BY DEF NewWorkers
<1>2. new \in Seq(Free) /\ Len(new) \in 0 .. k /\ Distinct(new) /\ Range(new) \subseteq Free
  BY <1>1, ListsOK
<1>3. new \in Seq(Workers)
  BY <1>2, SeqMonotonic
<1>4. QED BY <1>2, <1>3

\* The constructor's initial count is within the maximum.
LEMMA AdjustedCountOK == AdjustedCount \in Nat /\ (MaxCount # 0 => AdjustedCount <= MaxCount)
BY PoolAssumption DEF AdjustedCount

\* The pool starts with its initial threads and no work.
LEMMA PoolInitInv == Init => PoolInv
<1> SUFFICES ASSUME Init PROVE PoolInv
  OBVIOUS
<1>1. members \in Lists(AdjustedCount, Workers) /\ count = Len(members)
  BY DEF Init
<1>2. members \in Seq(Workers) /\ Len(members) \in 0 .. AdjustedCount /\ Distinct(members)
  BY <1>1, AdjustedCountOK, ListsOK
<1>3. Range(members) \subseteq Workers
  BY <1>1, AdjustedCountOK, ListsOK
<1>4. PoolTypeOK
  <2>1. works \in Seq(Works) /\ job \in [Workers -> Seq(Works)]
    BY EmptySeq DEF Init
  <2>2. /\ canWork \in [Workers -> BOOLEAN] /\ stop \in [Workers -> BOOLEAN]
        /\ idle \in [Workers -> BOOLEAN] /\ destroy \in BOOLEAN /\ joined \in BOOLEAN
    <3>1. idle = [w \in Workers |-> w \in Range(members)]
      BY DEF Init
    <3>2. \A w \in Workers : (w \in Range(members)) \in BOOLEAN
      OBVIOUS
    <3> DEFINE IsMember(w) == w \in Range(members)
    <3> HIDE DEF IsMember
    <3>3. idle = [w \in Workers |-> IsMember(w)] /\ \A w \in Workers : IsMember(w) \in BOOLEAN
      BY <3>1, <3>2 DEF IsMember
    <3>4. idle \in [Workers -> BOOLEAN]
      BY <3>3
    <3>5. QED BY <3>4 DEF Init
  <2>3. /\ pc \in [Workers -> {"none", "top", "wait", "get", "do", "leave", "remove"}]
        /\ added \in SUBSET Works /\ done \in SUBSET Works /\ count \in Int
    BY <1>1, <1>2 DEF Init
  <2>4. QED BY <2>1, <2>2, <2>3, <1>2 DEF PoolTypeOK
<1>5. ThreadsOK
  <2>1. count = Len(members) /\ (MaxCount # 0 => count <= MaxCount)
    BY <1>1, <1>2, AdjustedCountOK, PoolAssumption
  <2>2. Range(members) = {w \in Workers : pc[w] # "none"}
    BY <1>3 DEF Init
  <2>3. QED BY <1>2, <2>1, <2>2 DEF ThreadsOK, CountOK
<1>6. JobsOK
  BY DEF JobsOK, Init
<1>7. WorksOK
  <2>1. Range(<<>>) = {} /\ Distinct(<<>>)
    BY DEF Range, Distinct
  <2>2. \A w \in Workers : Range(job[w]) = {}
    BY <2>1 DEF Init
  <2>3. QED BY <2>1, <2>2 DEF WorksOK, Jobs, Init
<1>8. QED BY <1>4, <1>5, <1>6, <1>7 DEF PoolInv
-----------------------------------------------------------------------------
(* The callers. *)

\* The pool grows within its maximum.
LEMMA RoomOK ==
    ASSUME PoolTypeOK, ThreadsOK
    PROVE  count \in Nat /\ Room \in Nat /\ (MaxCount # 0 => count + Room <= MaxCount)
<1>1. count \in Nat
  BY LenProperties DEF PoolTypeOK, ThreadsOK, CountOK
<1>2. QED BY <1>1, PoolAssumption DEF Room, ThreadsOK, CountOK

\* AddWork queues a new work and grows by as many threads as there is room for.
LEMMA AddWorkStep ==
    ASSUME PoolInv, NEW x \in Works, AddWork(x)
    PROVE  PoolInv'
<1> DEFINE k == IF FirstIdle(members, idle) = {} THEN Room ELSE 0
<1>1. k \in Nat /\ count \in Nat /\ (MaxCount # 0 => count + k <= MaxCount)
  BY RoomOK DEF PoolInv, ThreadsOK, CountOK
<1> HIDE DEF k
<1>2. PICK new \in NewWorkers(k) :
         LET asleep == [w \in Workers |-> w \in Range(new) \/ idle[w]]
             woken  == FirstIdle(members \o new, asleep)
         IN  /\ AddThreads(new)
             /\ canWork' = [w \in Workers |-> w \in woken \/ canWork[w]]
             /\ idle' = [w \in Workers |-> asleep[w] /\ w \notin woken]
             /\ stop' = [w \in Workers |-> w \notin Range(new) /\ stop[w]]
  BY DEF AddWork, k
<1>3. /\ ~destroy /\ x \notin added /\ works' = Append(works, x) /\ added' = added \cup {x}
      /\ UNCHANGED <<destroy, joined, job, done>>
  BY DEF AddWork
<1>4. /\ new \in Seq(Workers) /\ Len(new) \in 0 .. k /\ Distinct(new)
      /\ \A w \in Range(new) : w \in Workers /\ pc[w] = "none"
  BY <1>1, <1>2, NewWorkersOK DEF PoolInv
<1>5. /\ members' = members \o new /\ count' = count + Len(new)
      /\ pc' = [w \in Workers |-> IF w \in Range(new) THEN "wait" ELSE pc[w]]
  BY <1>2, <1>4 DEF AddThreads
<1>6. /\ members' \in Seq(Workers) /\ Distinct(members') /\ Len(members') = Len(members) + Len(new)
      /\ Range(members') = Range(members) \cup Range(new)
  <2>1. Range(members) \cap Range(new) = {}
    BY <1>4 DEF PoolInv, ThreadsOK, CountOK
  <2>2. members \in Seq(Workers) /\ Distinct(members)
    BY DEF PoolInv, PoolTypeOK, ThreadsOK
  <2>3. /\ members \o new \in Seq(Workers) /\ Distinct(members \o new)
        /\ Len(members \o new) = Len(members) + Len(new)
        /\ Range(members \o new) = Range(members) \cup Range(new)
    BY <1>4, <2>1, <2>2, ConcatDistinct
  <2>4. QED BY <1>4, <1>5, <2>3
<1>7. /\ works' \in Seq(Works) /\ Distinct(works') /\ Range(works') = Range(works) \cup {x}
  BY <1>3, AppendDistinct DEF PoolInv, PoolTypeOK, WorksOK
<1>8. /\ canWork' \in [Workers -> BOOLEAN] /\ idle' \in [Workers -> BOOLEAN]
      /\ stop' \in [Workers -> BOOLEAN]
  BY <1>2, Zenon
<1>9. PoolTypeOK'
  BY <1>1, <1>3, <1>5, <1>6, <1>7, <1>8 DEF PoolInv, PoolTypeOK
<1>10. ThreadsOK'
  <2>1. count' = Len(members') /\ (MaxCount # 0 => count' <= MaxCount)
    BY <1>1, <1>4, <1>5, <1>6, PoolAssumption DEF PoolInv, ThreadsOK, CountOK
  <2>2. Range(members') = {w \in Workers : pc'[w] # "none"}
    BY <1>4, <1>5, <1>6 DEF PoolInv, PoolTypeOK, ThreadsOK, CountOK
  <2>3. QED BY <1>6, <2>1, <2>2 DEF ThreadsOK, CountOK
<1>11. JobsOK'
  <2> SUFFICES ASSUME NEW w \in Workers
               PROVE  /\ pc'[w] # "do" => job'[w] = <<>>
                      /\ pc'[w] = "do" => ~idle'[w] /\ (stop'[w] => destroy')
    BY DEF JobsOK
  <2>1. pc'[w] = "do" => pc[w] = "do" /\ w \notin Range(new)
    BY <1>5
  <2>2. pc'[w] # "do" => pc[w] # "do"
    BY <1>4, <1>5
  <2>3. w \notin Range(new) => (idle'[w] => idle[w]) /\ (stop'[w] => stop[w])
    BY <1>2
  <2>4. QED BY <2>1, <2>2, <2>3, <1>3 DEF PoolInv, JobsOK
<1>12. WorksOK'
  BY <1>3, <1>7 DEF PoolInv, PoolTypeOK, WorksOK, Jobs
<1>13. QED BY <1>9, <1>10, <1>11, <1>12 DEF PoolInv

\* Destroy stops every thread and returns when all have left.
LEMMA DestroySteps ==
    ASSUME PoolInv, Destroy \/ DestroyReturns
    PROVE  PoolInv'
<1>1. CASE Destroy
  <2>1. /\ destroy' /\ stop' \in [Workers -> BOOLEAN] /\ canWork' \in [Workers -> BOOLEAN]
        /\ UNCHANGED <<joined, pool, pc, job, idle, added, done>>
    BY <1>1, Zenon DEF Destroy, StopAll
  <2>2. PoolTypeOK' /\ ThreadsOK'
    BY <1>1, <2>1 DEF PoolInv, PoolTypeOK, ThreadsOK, CountOK, pool, Destroy
  <2>3. JobsOK' /\ WorksOK'
    BY <2>1 DEF PoolInv, JobsOK, WorksOK, Jobs, pool
  <2>4. QED BY <2>2, <2>3 DEF PoolInv
<1>2. CASE DestroyReturns
  <2>1. Range(<<>>) = {} /\ Distinct(<<>>) /\ <<>> \in Seq(Works)
    BY EmptySeq DEF Range, Distinct
  <2>2. PoolTypeOK'
    BY <1>2, <2>1 DEF PoolInv, PoolTypeOK, DestroyReturns, flags
  <2>3. ThreadsOK' /\ JobsOK'
    BY <1>2 DEF PoolInv, ThreadsOK, CountOK, JobsOK, DestroyReturns, flags
  <2>4. WorksOK'
    BY <1>2, <2>1 DEF PoolInv, WorksOK, Jobs, DestroyReturns, flags
  <2>5. QED BY <2>2, <2>3, <2>4 DEF PoolInv
<1>3. QED BY <1>1, <1>2

\* RemoveIdleThreads stops idle workers only, and none that has a job is idle.
LEMMA RemoveIdleStep ==
    ASSUME PoolInv, NEW S \in SUBSET Workers, RemoveIdleThreads(S)
    PROVE  PoolInv'
<1>1. /\ stop' = [w \in Workers |-> w \in S \/ stop[w]] /\ canWork' \in [Workers -> BOOLEAN]
      /\ stop' \in [Workers -> BOOLEAN]
  BY Zenon DEF RemoveIdleThreads, StopAll
<1>2. /\ \A w \in S : idle[w]
      /\ UNCHANGED <<destroy, joined, works, members, count, pc, job, idle, added, done>>
  BY DEF RemoveIdleThreads, IdleTooLong, pool
<1>3. PoolTypeOK' /\ ThreadsOK'
  BY <1>1, <1>2 DEF PoolInv, PoolTypeOK, ThreadsOK, CountOK
<1>4. JobsOK'
  <2> SUFFICES ASSUME NEW w \in Workers, pc[w] = "do" PROVE stop'[w] => destroy
    BY <1>2 DEF PoolInv, JobsOK
  <2>1. w \notin S
    BY <1>2 DEF PoolInv, JobsOK
  <2>2. stop'[w] => stop[w]
    BY <2>1, <1>1
  <2>3. QED BY <2>2 DEF PoolInv, JobsOK
<1>5. WorksOK'
  BY <1>2 DEF PoolInv, WorksOK, Jobs
<1>6. QED BY <1>3, <1>4, <1>5 DEF PoolInv
-----------------------------------------------------------------------------
(* A worker. *)

\* Steps that only move a worker between places other than "do", and set flags.
LEMMA MoveSteps ==
    ASSUME PoolInv, NEW w \in Workers,
           SetIdle(w) \/ LoopEnds(w) \/ Wake(w) \/ GetNoWork(w) \/ LeaveOrStay(w)
    PROVE  PoolInv'
<1>1. PICK l \in {"remove", "wait", "get", "leave", "top"} :
         /\ pc[w] \in {"top", "wait", "get", "leave"} /\ pc' = [pc EXCEPT ![w] = l]
         /\ UNCHANGED <<destroy, joined, works, members, count, job, stop, added, done>>
         /\ idle' = [idle EXCEPT ![w] = TRUE] \/ idle' = idle
         /\ canWork' = [canWork EXCEPT ![w] = FALSE] \/ canWork' = canWork
  BY DEF SetIdle, LoopEnds, Wake, GetNoWork, LeaveOrStay, Goto, pool, flags
<1>2. PoolTypeOK'
  BY <1>1 DEF PoolInv, PoolTypeOK
<1>3. ThreadsOK'
  BY <1>1 DEF PoolInv, PoolTypeOK, ThreadsOK, CountOK
<1>4. JobsOK'
  BY <1>1 DEF PoolInv, PoolTypeOK, JobsOK
<1>5. WorksOK'
  BY <1>1 DEF PoolInv, PoolTypeOK, WorksOK, Jobs
<1>6. QED BY <1>2, <1>3, <1>4, <1>5 DEF PoolInv

\* A worker takes the first work, and is not idle from then on.
LEMMA GetWorkStep ==
    ASSUME PoolInv, NEW w \in Workers, GetWork(w)
    PROVE  PoolInv'
<1>1. /\ pc[w] = "get" /\ ~stop[w] /\ ~destroy /\ works # <<>>
      /\ job' = [job EXCEPT ![w] = <<Head(works)>>] /\ works' = Tail(works)
      /\ idle' = [idle EXCEPT ![w] = FALSE] /\ pc' = [pc EXCEPT ![w] = "do"]
      /\ UNCHANGED <<destroy, joined, members, count, canWork, stop, added, done>>
  BY DEF GetWork, Goto
<1>2. /\ Head(works) \in Range(works) /\ works' \in Seq(Works) /\ Distinct(works')
      /\ Range(works') = Range(works) \ {Head(works)}
  BY <1>1, TailDistinct DEF PoolInv, PoolTypeOK, WorksOK
<1>3. <<Head(works)>> \in Seq(Works) /\ Range(<<Head(works)>>) = {Head(works)}
  <2>1. Head(works) \in Works
    BY <1>1, HeadTailProperties DEF PoolInv, PoolTypeOK
  <2>2. QED BY <2>1 DEF Range
<1>4. PoolTypeOK'
  BY <1>1, <1>2, <1>3 DEF PoolInv, PoolTypeOK
<1>5. ThreadsOK'
  BY <1>1 DEF PoolInv, PoolTypeOK, ThreadsOK, CountOK
<1>6. JobsOK'
  BY <1>1 DEF PoolInv, PoolTypeOK, JobsOK
<1>7. WorksOK'
  <2>1. Range(job[w]) = {}
    BY <1>1 DEF PoolInv, JobsOK, Range
  <2>2. \A v \in Workers : Range(job'[v]) = IF v = w THEN {Head(works)} ELSE Range(job[v])
    BY <1>1, <1>3 DEF PoolInv, PoolTypeOK
  <2>3. Jobs' = Jobs \cup {Head(works)}
    BY <2>1, <2>2 DEF Jobs
  <2>4. Head(works) \notin done /\ \A v \in Workers : Head(works) \notin Range(job[v])
    BY <1>2 DEF PoolInv, WorksOK
  <2>5. ~joined
    BY <1>1 DEF PoolInv, WorksOK
  <2>6. Distinct(works') /\ Range(works') \cap done' = {}
    BY <1>1, <1>2 DEF PoolInv, WorksOK
  <2>7. /\ \A v \in Workers : Range(job'[v]) \cap (Range(works') \cup done') = {}
        /\ \A u, v \in Workers : Range(job'[u]) \cap Range(job'[v]) # {} => u = v
    <3>1. ASSUME NEW v \in Workers PROVE Range(job'[v]) \cap (Range(works') \cup done') = {}
      <4>1. CASE v = w
        BY <1>1, <1>2, <2>2, <2>4, <4>1
      <4>2. CASE v # w
        <5>1. Range(job'[v]) = Range(job[v])
          BY <2>2, <4>2
        <5>2. Range(job[v]) \cap (Range(works) \cup done) = {}
          BY DEF PoolInv, WorksOK
        <5>3. QED BY <1>1, <1>2, <5>1, <5>2
      <4>3. QED BY <4>1, <4>2
    <3>2. ASSUME NEW u \in Workers, NEW v \in Workers, u # v
          PROVE  Range(job'[u]) \cap Range(job'[v]) = {}
      <4>1. Range(job[u]) \cap Range(job[v]) = {}
        BY <3>2 DEF PoolInv, WorksOK
      <4>2. QED BY <3>2, <4>1, <2>2, <2>4
    <3>3. QED BY <3>1, <3>2
  <2>8. Range(works') \cup done' \cup Jobs' = Range(works) \cup done \cup Jobs
    BY <1>1, <1>2, <2>3
  <2>9. QED BY <1>1, <2>5, <2>6, <2>7, <2>8 DEF PoolInv, WorksOK
<1>8. QED BY <1>4, <1>5, <1>6, <1>7 DEF PoolInv

\* A work that was run is done.
LEMMA DoStep ==
    ASSUME PoolInv, NEW w \in Workers, Do(w)
    PROVE  PoolInv'
<1>1. /\ pc[w] = "do" /\ done' = done \cup Range(job[w]) /\ job' = [job EXCEPT ![w] = <<>>]
      /\ pc' = [pc EXCEPT ![w] = "get"]
      /\ UNCHANGED <<destroy, joined, works, members, count, canWork, stop, idle, added>>
  BY DEF Do, Goto, pool, flags
<1>2. Range(job[w]) \subseteq Works /\ Range(<<>>) = {} /\ <<>> \in Seq(Works)
  BY RangeOfSeq, EmptySeq DEF PoolInv, PoolTypeOK, Range
<1>3. PoolTypeOK'
  BY <1>1, <1>2 DEF PoolInv, PoolTypeOK
<1>4. ThreadsOK'
  BY <1>1 DEF PoolInv, PoolTypeOK, ThreadsOK, CountOK
<1>5. JobsOK'
  BY <1>1 DEF PoolInv, PoolTypeOK, JobsOK
<1>6. WorksOK'
  <2>1. \A v \in Workers : Range(job'[v]) = IF v = w THEN {} ELSE Range(job[v])
    BY <1>1, <1>2 DEF PoolInv, PoolTypeOK
  <2>2. Jobs' \cup Range(job[w]) = Jobs
    BY <2>1 DEF Jobs
  <2>3. ~joined
    BY <1>1 DEF PoolInv, WorksOK
  <2>4. Range(works') \cap done' = {}
    BY <1>1 DEF PoolInv, WorksOK
  <2>5. /\ \A v \in Workers : Range(job'[v]) \cap (Range(works') \cup done') = {}
        /\ \A u, v \in Workers : Range(job'[u]) \cap Range(job'[v]) # {} => u = v
    <3>1. ASSUME NEW v \in Workers PROVE Range(job'[v]) \cap (Range(works') \cup done') = {}
      <4>1. CASE v = w
        BY <2>1, <4>1
      <4>2. CASE v # w
        <5>1. Range(job'[v]) = Range(job[v])
          BY <2>1, <4>2
        <5>2. Range(job[v]) \cap (Range(works) \cup done) = {} /\ Range(job[v]) \cap Range(job[w]) = {}
          BY <4>2 DEF PoolInv, WorksOK
        <5>3. QED BY <1>1, <5>1, <5>2
      <4>3. QED BY <4>1, <4>2
    <3>2. ASSUME NEW u \in Workers, NEW v \in Workers, u # v
          PROVE  Range(job'[u]) \cap Range(job'[v]) = {}
      <4>1. Range(job[u]) \cap Range(job[v]) = {}
        BY <3>2 DEF PoolInv, WorksOK
      <4>2. QED BY <4>1, <2>1
    <3>3. QED BY <3>1, <3>2
  <2>6. Range(works') \cup done' \cup Jobs' = Range(works) \cup done \cup Jobs
    BY <1>1, <2>2
  <2>7. QED BY <1>1, <2>3, <2>4, <2>5, <2>6 DEF PoolInv, WorksOK
<1>7. QED BY <1>3, <1>4, <1>5, <1>6 DEF PoolInv

\* A worker that leaves takes itself, and only itself, off the list.
LEMMA RemoveThreadStep ==
    ASSUME PoolInv, NEW w \in Workers, RemoveThread(w)
    PROVE  PoolInv'
<1>1. /\ pc[w] = "remove" /\ count' = count - 1 /\ pc' = [pc EXCEPT ![w] = "none"]
      /\ idle' = [idle EXCEPT ![w] = FALSE] /\ canWork' = [canWork EXCEPT ![w] = FALSE]
      /\ UNCHANGED <<destroy, joined, works, job, stop, added, done>>
  BY DEF RemoveThread, Goto
<1>2. PICK i \in DOMAIN members : members[i] = w /\ members' = Erased(members, i)
  BY DEF RemoveThread, Erased
<1>3. /\ members' \in Seq(Workers) /\ Distinct(members') /\ Len(members') = Len(members) - 1
      /\ Range(members') = Range(members) \ {w}
  BY <1>2, ErasedDistinct DEF PoolInv, PoolTypeOK, ThreadsOK
<1>4. PoolTypeOK'
  BY <1>1, <1>3 DEF PoolInv, PoolTypeOK
<1>5. ThreadsOK'
  <2>1. count' = Len(members')
    BY <1>1, <1>3 DEF PoolInv, ThreadsOK, CountOK
  <2>2. Range(members') = {v \in Workers : pc'[v] # "none"}
    BY <1>1, <1>3 DEF PoolInv, PoolTypeOK, ThreadsOK, CountOK
  <2>3. MaxCount # 0 => count' <= MaxCount
    BY <1>1, PoolAssumption DEF PoolInv, PoolTypeOK, ThreadsOK, CountOK
  <2>4. QED BY <1>3, <2>1, <2>2, <2>3 DEF ThreadsOK, CountOK
<1>6. JobsOK'
  BY <1>1 DEF PoolInv, PoolTypeOK, JobsOK
<1>7. WorksOK'
  BY <1>1 DEF PoolInv, PoolTypeOK, WorksOK, Jobs
<1>8. QED BY <1>4, <1>5, <1>6, <1>7 DEF PoolInv
-----------------------------------------------------------------------------

\* Every step keeps the invariant.
LEMMA PoolNextInv == PoolInv /\ [Next]_vars => PoolInv'
<1> SUFFICES ASSUME PoolInv, [Next]_vars PROVE PoolInv'
  OBVIOUS
<1>1. CASE UNCHANGED vars
  BY <1>1 DEF vars, pool, flags, PoolInv, PoolTypeOK, ThreadsOK, CountOK, JobsOK, WorksOK, Jobs
<1>2. QED
  BY <1>1, AddWorkStep, DestroySteps, RemoveIdleStep, MoveSteps, GetWorkStep, DoStep,
     RemoveThreadStep DEF Next, WorkerStep

\* For any number of workers and works and any bounds of the pool: m_count is the
\* length of the list of running threads and stays within the maximum.
THEOREM CountOKHolds == Spec => []CountOK
<1>1. PoolInv => CountOK
  BY PoolInvImplies
<1>2. QED BY <1>1, PoolInitInv, PoolNextInv, PTL DEF Spec

\* Work that was added is queued, running in one thread or done, and never in two
\* of these; only Destroy takes work away or stops a thread that has some.
THEOREM WorkInOnePlaceHolds == Spec => []WorkInOnePlace
<1>1. PoolInv => WorkInOnePlace
  BY PoolInvImplies
<1>2. QED BY <1>1, PoolInitInv, PoolNextInv, PTL DEF Spec
=============================================================================
