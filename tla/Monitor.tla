------------------------------ MODULE Monitor ------------------------------
(***************************************************************************)
(* kpr::Monitor, the lock and condition of every service, over             *)
(* kpr::RecursiveMutex and kpr::Condition.  A recursive mutex is made of   *)
(* two pthread mutexes: m_internal guards the owner and the count, m_mutex *)
(* is held while the count is positive and is what contenders and the      *)
(* condition variable wait for.  A monitor defers its notifications to     *)
(* the outermost Unlock or to Wait.                                        *)
(***************************************************************************)
EXTENDS Integers, FiniteSets

CONSTANTS
    Threads,
    MaxDepth,     \* bound: how deep the calls of Lock nest
    MaxCalls      \* bound: calls of Lock, Wait, Notify and NotifyAll

VARIABLES
    internal, mutex,  \* the threads that hold m_internal and m_mutex, one or none
    owner,        \* m_owner, as a set of one thread or none
    lockCount,    \* m_count
    notifyCount,  \* m_notifyCount, -1 meaning all
    at,           \* thread -> where it stands
    arg,          \* thread -> the count it asks lock for
    calls,
    depth,        \* history: thread -> calls of Lock not yet undone
    asked         \* history: what was notified since the monitor was entered, as notifyCount

recursive == <<internal, mutex, owner, lockCount>>
history == <<depth, asked>>
monitorVars == <<recursive, notifyCount, at, arg, calls, history>>

MonitorInit ==
    /\ internal = {} /\ mutex = {} /\ owner = {} /\ lockCount = 0 /\ notifyCount = 0
    /\ at = [t \in Threads |-> "out"] /\ arg = [t \in Threads |-> 0] /\ calls = 0
    /\ depth = [t \in Threads |-> 0] /\ asked = 0

At(t, place) == at[t] = place

GoTo(t, place) == at' = [at EXCEPT ![t] = place]

Call(t, places) == at[t] \in places /\ calls < MaxCalls /\ calls' = calls + 1

(***************************************************************************)
(* RecursiveMutex::lock.                                                   *)
(***************************************************************************)
Lock(t) ==
    /\ Call(t, {"out", "in"}) /\ depth[t] < MaxDepth /\ GoTo(t, "lock")
    /\ arg' = [arg EXCEPT ![t] = 1] /\ depth' = [depth EXCEPT ![t] = @ + 1]
    /\ UNCHANGED <<recursive, notifyCount, asked>>

\* A free mutex gets its owner and count at once; m_internal is kept until
\* m_mutex is held too.
LockFree(t) ==
    /\ At(t, "lock") /\ internal = {} /\ lockCount = 0
    /\ lockCount' = arg[t] /\ owner' = {t} /\ internal' = {t} /\ GoTo(t, "take")
    /\ UNCHANGED <<mutex, notifyCount, arg, calls, history>>

\* Monitor::Lock and Wait clear m_notifyCount once lock has returned.
LockTakes(t) ==
    /\ At(t, "take") /\ mutex = {}
    /\ mutex' = {t} /\ internal' = {} /\ GoTo(t, "in")
    /\ notifyCount' = 0 /\ asked' = 0
    /\ UNCHANGED <<owner, lockCount, arg, calls, depth>>

LockAgain(t) ==
    /\ At(t, "lock") /\ internal = {} /\ lockCount # 0 /\ owner = {t}
    /\ lockCount' = lockCount + arg[t] /\ GoTo(t, "in")
    /\ UNCHANGED <<internal, mutex, owner, notifyCount, arg, calls, history>>

\* Mutant: a contender keeps m_internal while it waits for m_mutex.
LockContendedInside(t) ==
    /\ At(t, "lock") /\ internal = {} /\ lockCount # 0 /\ owner # {t}
    /\ internal' = {t} /\ GoTo(t, "contend")
    /\ UNCHANGED <<mutex, owner, lockCount, notifyCount, arg, calls, history>>

LockContended(t) ==
    /\ At(t, "lock") /\ internal = {} /\ lockCount # 0 /\ owner # {t}
    /\ GoTo(t, "contend")
    /\ UNCHANGED <<recursive, notifyCount, arg, calls, history>>

\* It locks and unlocks m_mutex to learn that it was free, and tries again.
ContenderLocks(t) ==
    /\ At(t, "contend") /\ mutex = {} /\ mutex' = {t} /\ GoTo(t, "retry")
    /\ UNCHANGED <<internal, owner, lockCount, notifyCount, arg, calls, history>>

ContenderUnlocks(t) ==
    /\ At(t, "retry") /\ mutex' = {} /\ GoTo(t, "lock")
    /\ UNCHANGED <<internal, owner, lockCount, notifyCount, arg, calls, history>>

(***************************************************************************)
(* Monitor::Notify, NotifyAll and Unlock.  validateOwner passes through    *)
(* m_internal.                                                             *)
(***************************************************************************)
NotifyAdds(n) ==
    /\ notifyCount' = n /\ UNCHANGED <<recursive, at, arg, depth>>

Notify(t) ==
    /\ Call(t, {"in"}) /\ internal = {}
    /\ NotifyAdds(IF notifyCount # -1 THEN notifyCount + 1 ELSE -1)
    /\ asked' = IF asked # -1 THEN asked + 1 ELSE -1

NotifyAll(t) ==
    /\ Call(t, {"in"}) /\ internal = {} /\ NotifyAdds(-1) /\ asked' = -1

Sleepers == {u \in Threads : At(u, "asleep")}

\* The sleepers that n signals, or a broadcast, may wake.
Wakes(n) ==
    {S \in SUBSET Sleepers : IF n = -1 \/ n > Cardinality(Sleepers) THEN S = Sleepers
                                                                    ELSE Cardinality(S) = n}

\* notify wakes the threads of S, and t goes on at place.
Signal(t, S, place) ==
    at' = [u \in Threads |-> IF u \in S THEN "awake" ELSE IF u = t THEN place ELSE at[u]]

Unlock(t) ==
    /\ At(t, "in")
    /\ \E S \in IF lockCount = 1 THEN Wakes(notifyCount) ELSE {{}} : Signal(t, S, "unlock")
    /\ UNCHANGED <<recursive, notifyCount, arg, calls, history>>

UnlockEnds(t) ==
    /\ At(t, "unlock") /\ internal = {} /\ lockCount' = lockCount - 1
    /\ owner' = IF lockCount = 1 THEN {} ELSE owner
    /\ mutex' = IF lockCount = 1 THEN {} ELSE mutex
    /\ GoTo(t, IF lockCount = 1 THEN "out" ELSE "in")
    /\ depth' = [depth EXCEPT ![t] = @ - 1]
    /\ UNCHANGED <<internal, notifyCount, arg, calls, asked>>

(***************************************************************************)
(* Monitor::Wait.                                                          *)
(***************************************************************************)
Wait(t) ==
    /\ Call(t, {"in"}) /\ internal = {}
    /\ \E S \in Wakes(notifyCount) : Signal(t, S, "reset")
    /\ UNCHANGED <<recursive, notifyCount, arg, history>>

\* The mutex looks free from here on, while m_mutex is still held.
Reset4Condvar(t) ==
    /\ At(t, "reset") /\ internal = {}
    /\ arg' = [arg EXCEPT ![t] = lockCount] /\ lockCount' = 0 /\ owner' = {} /\ GoTo(t, "sleep")
    /\ UNCHANGED <<internal, mutex, notifyCount, calls, history>>

CondWait(t) ==
    /\ At(t, "sleep") /\ mutex' = {} /\ GoTo(t, "asleep")
    /\ UNCHANGED <<internal, owner, lockCount, notifyCount, arg, calls, history>>

\* The time is over, or the thread wakes without a reason.
WakesUnasked(t) ==
    /\ At(t, "asleep") /\ GoTo(t, "awake")
    /\ UNCHANGED <<recursive, notifyCount, arg, calls, history>>

\* pthread_cond_wait returns with m_mutex held.
CondWaitReturns(t) ==
    /\ At(t, "awake") /\ mutex = {} /\ mutex' = {t} /\ GoTo(t, "helper")
    /\ UNCHANGED <<internal, owner, lockCount, notifyCount, arg, calls, history>>

\* Mutant: the lock is taken again once, however deep it was.
HelperLocksOnce(t) ==
    /\ At(t, "helper") /\ mutex' = {} /\ GoTo(t, "lock")
    /\ arg' = [arg EXCEPT ![t] = 1]
    /\ UNCHANGED <<internal, owner, lockCount, notifyCount, calls, history>>

\* ~ConditionHelper releases m_mutex and asks lock for the old count.
ConditionHelper(t) ==
    /\ At(t, "helper") /\ mutex' = {} /\ GoTo(t, "lock")
    /\ UNCHANGED <<internal, owner, lockCount, notifyCount, arg, calls, history>>

\* What a thread does once it has called; it leaves the monitor in the end.
MonitorStep(t) ==
    \/ LockFree(t) \/ LockTakes(t) \/ LockAgain(t) \/ LockContended(t)
    \/ ContenderLocks(t) \/ ContenderUnlocks(t) \/ Unlock(t) \/ UnlockEnds(t)
    \/ Reset4Condvar(t) \/ CondWait(t) \/ CondWaitReturns(t) \/ ConditionHelper(t)

MonitorNext ==
    \E t \in Threads : Lock(t) \/ Notify(t) \/ NotifyAll(t) \/ Wait(t) \/ WakesUnasked(t) \/ MonitorStep(t)

MonitorSpec == MonitorInit /\ [][MonitorNext]_monitorVars

\* Threads run, and who is in the monitor leaves it or waits.
MonitorFairSpec == MonitorSpec /\ \A t \in Threads : WF_monitorVars(MonitorStep(t))

-----------------------------------------------------------------------------
(* Properties. *)

\* A thread inside the monitor: it may use what the monitor guards.
Inside(t) == at[t] \in {"in", "unlock", "reset"}

\* At most one thread is inside the monitor, whatever wakes up, contends or is about
\* to sleep meanwhile; it is the owner that validateOwner asserts, with the depth
\* of its calls, also after a nested Wait; and no notification of its own is lost
\* or taken from another thread.
MonitorExclusive ==
    \A t \in Threads : Inside(t) =>
        /\ \A u \in Threads \ {t} : ~Inside(u)
        /\ owner = {t} /\ mutex = {t} /\ lockCount = depth[t] /\ notifyCount = asked

\* Who asks for the monitor, or for it again after a wait, gets it, although lock
\* waits for m_mutex inside m_internal while unlock and reset4Condvar take
\* m_internal inside m_mutex.
LockReturns == \A t \in Threads : at[t] \in {"lock", "awake"} ~> At(t, "in")
=============================================================================
