----------------------------- MODULE TimerThread -----------------------------
(***************************************************************************)
(* kpr::TimerThread.  The thread reads the clock, adds the time since its  *)
(* previous reading to every timer, runs the handlers of those that are    *)
(* due, and sleeps.  Callers register, unregister and reset timers at any  *)
(* moment.  Time is relative, which keeps the state finite.                *)
(***************************************************************************)
EXTENDS Integers, FiniteSets

CONSTANTS
    Timers,       \* ids, natural numbers; every registration gets a new one
    Persistent,   \* the timers registered with persistent = true
    InitialDelay, Elapse,  \* arguments of RegisterTimer, by timer
    MaxGap,       \* bound: most ticks between two readings of the clock
    MaxResets     \* bound: calls of ResetTimer

VARIABLES
    timers,       \* the ids in m_timers
    outTime,      \* id -> TimerInfo.outTime
    sinceRead,    \* ticks since the clock was last read
    elapse,       \* Run's elapse
    thread,       \* where Run stands
    timeList,     \* Run's timeList
    closed,       \* m_closed
    resets,
    fires,        \* history: id -> how often its handler ran, counted to 2
    known         \* history: "new", "known" to its caller, or "cancelled" in time

clock == <<sinceRead, elapse>>
timerVars == <<timers, outTime, clock, thread, timeList, closed, resets, fires, known>>

TimerInit ==
    /\ timers = {} /\ outTime = [i \in Timers |-> 0]
    /\ sinceRead = 0 /\ elapse = 0 /\ thread = "read" /\ timeList = {}
    /\ closed = FALSE /\ resets = 0
    /\ fires = [i \in Timers |-> 0] /\ known = [i \in Timers |-> "new"]

Tick ==
    /\ sinceRead < MaxGap /\ thread # "ended"
    /\ sinceRead' = sinceRead + 1
    /\ UNCHANGED <<timers, outTime, elapse, thread, timeList, closed, resets, fires, known>>

(***************************************************************************)
(* The callers.                                                            *)
(***************************************************************************)

RegisterTimer(i) ==
    /\ known[i] = "new" /\ known' = [known EXCEPT ![i] = "known"]
    /\ timers' = timers \cup {i}
    /\ outTime' = [outTime EXCEPT ![i] = 0 - InitialDelay[i]]
    /\ UNCHANGED <<clock, thread, timeList, closed, resets, fires>>

UnRegisterTimer(i) ==
    /\ known[i] = "known" /\ i \in timers
    /\ timers' = timers \ {i} /\ known' = [known EXCEPT ![i] = "cancelled"]
    /\ UNCHANGED <<outTime, clock, thread, timeList, closed, resets, fires>>

\* A persistent timer becomes due at the next check, a one-shot one starts anew
\* without its initial delay.
ResetTimer(i) ==
    /\ resets < MaxResets /\ resets' = resets + 1
    /\ known[i] = "known" /\ i \in timers
    /\ outTime' = [outTime EXCEPT ![i] = IF i \in Persistent THEN Elapse[i] ELSE 0]
    /\ UNCHANGED <<timers, clock, thread, timeList, closed, fires, known>>

Close ==
    /\ ~closed /\ closed' = TRUE
    /\ UNCHANGED <<timers, outTime, clock, thread, timeList, resets, fires, known>>

(***************************************************************************)
(* The thread.                                                             *)
(***************************************************************************)
ReadClock ==
    /\ thread = "read" /\ ~closed /\ thread' = "check"
    /\ elapse' = sinceRead /\ sinceRead' = 0
    /\ UNCHANGED <<timers, outTime, timeList, closed, resets, fires, known>>

EndRun ==
    /\ thread = "read" /\ closed /\ thread' = "ended"
    /\ UNCHANGED <<timers, outTime, clock, timeList, closed, resets, fires, known>>

\* The timers that are due once elapse is added.
TimedOut == {i \in timers : outTime[i] + elapse >= Elapse[i]}

\* Mutant: one-shot timers stay in m_timers.
KeptTimersAll == timers

\* CheckTimeOut erases the one-shot timers that are due.
KeptTimers == timers \ (TimedOut \ Persistent)

CheckedOutTime ==
    [i \in Timers |-> IF i \in TimedOut THEN 0
                      ELSE IF i \in timers THEN outTime[i] + elapse ELSE outTime[i]]

CheckTimeOut ==
    /\ thread = "check" /\ thread' = "fire"
    /\ timeList' = TimedOut /\ timers' = KeptTimers /\ outTime' = CheckedOutTime
    /\ UNCHANGED <<clock, closed, resets, fires, known>>

\* The handlers run in the order of the ids.
OnTimeOut(i) ==
    /\ thread = "fire" /\ i \in timeList /\ \A j \in timeList : i <= j
    /\ timeList' = timeList \ {i}
    /\ fires' = [fires EXCEPT ![i] = IF fires[i] < 2 THEN fires[i] + 1 ELSE 2]
    /\ UNCHANGED <<timers, outTime, clock, thread, closed, resets, known>>

\* The list is done; Wait ends with its timeout at the latest.
Sleep ==
    /\ thread = "fire" /\ timeList = {} /\ thread' = "read"
    /\ UNCHANGED <<timers, outTime, clock, timeList, closed, resets, fires, known>>

Run == ReadClock \/ EndRun \/ CheckTimeOut \/ Sleep \/ \E i \in Timers : OnTimeOut(i)

TimerNext ==
    \/ Tick \/ Run \/ Close
    \/ \E i \in Timers : RegisterTimer(i) \/ UnRegisterTimer(i) \/ ResetTimer(i)

TimerSpec == TimerInit /\ [][TimerNext]_timerVars

-----------------------------------------------------------------------------
\* A one-shot timer fires once, and not at all once UnRegisterTimer has returned
\* true, although the thread works on a copy of the timers that are due.
OneShot ==
    \A i \in Timers \ Persistent :
        /\ fires[i] <= 1
        /\ known[i] = "cancelled" => fires[i] = 0 /\ i \notin timeList
=============================================================================
