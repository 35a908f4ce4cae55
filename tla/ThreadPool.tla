----------------------------- MODULE ThreadPool -----------------------------
(***************************************************************************)
(* kpr::ThreadPool: the executor of the consume services and of the timer  *)
(* tasks.  Callers add work and destroy the pool, a manager thread stops   *)
(* workers that were idle too long, and each worker sleeps on its own      *)
(* monitor until it is woken or stopped.  The pool's monitor makes         *)
(* AddWork, GetWork, RemoveThread and RemoveIdleThreads atomic with        *)
(* respect to each other; a worker's flags have the worker's own monitor.  *)
(***************************************************************************)
EXTENDS Integers, Sequences, FiniteSets, Functions

CONSTANTS
    Workers,      \* identities of ThreadPoolWorker objects
    Works,        \* the work items added to the pool, each once
    InitCount,    \* the constructor's count
    MinCount, MaxCount,  \* m_minCount, and m_maxCount, 0 meaning no maximum
    Step,         \* m_step
    RemovesIdle,  \* m_maxIdleTime # 0
    MaxRefused    \* bound: the threads that cannot be created

ASSUME PoolAssumption ==
    /\ InitCount \in Nat /\ MinCount \in Nat \ {0} /\ MaxCount \in Nat /\ Step \in Nat \ {0}
    /\ InitCount <= Cardinality(Workers) /\ RemovesIdle \in BOOLEAN /\ MaxRefused \in Nat
    /\ MaxCount # 0 => MinCount <= MaxCount   \* the constructor sees to it

VARIABLES
    destroy,      \* m_destroy
    joined,       \* Destroy has returned
    works,        \* m_works
    members,      \* m_workers
    count,        \* m_count
    pc,           \* worker -> where it stands in Run, "none" if it does not run
    job,          \* worker -> the work it runs, as a sequence of at most one
    canWork, stop, idle,  \* a worker's flags
    added, done,  \* history: works added and finished
    refused       \* history: how many threads could not be created

flags == <<canWork, stop, idle>>
pool  == <<works, members, count>>
vars  == <<destroy, joined, pool, pc, job, flags, added, done, refused>>

\* The constructor's adjustment of count.
AdjustedCount ==
    IF (MaxCount # 0 /\ InitCount > MaxCount) \/ InitCount < MinCount THEN MinCount ELSE InitCount

\* Lists of distinct workers out of S, up to k of them.
Lists(k, S) == UNION {{s \in [1 .. j -> S] : Cardinality(Range(s)) = j} : j \in 0 .. k}

\* The workers that AddThreads makes of k: a thread that cannot be created throws,
\* and is left out.
NewWorkers(k) == Lists(k, {w \in Workers : pc[w] = "none"})

Init ==
    /\ destroy = FALSE /\ joined = FALSE
    /\ members \in Lists(AdjustedCount, Workers)
    /\ works = <<>> /\ count = Len(members)
    /\ refused = AdjustedCount - Len(members) /\ refused <= MaxRefused
    /\ pc = [w \in Workers |-> IF w \in Range(members) THEN "wait" ELSE "none"]
    /\ job = [w \in Workers |-> <<>>]
    /\ canWork = [w \in Workers |-> FALSE] /\ stop = [w \in Workers |-> FALSE]
    /\ idle = [w \in Workers |-> w \in Range(members)]
    /\ added = {} /\ done = {}

(***************************************************************************)
(* The callers.                                                            *)
(***************************************************************************)

\* WakeOneThread on the list ms with the idle flags f: the first idle worker,
\* which may have been stopped.
FirstIdle(ms, f) ==
    LET I == {i \in DOMAIN ms : f[ms[i]]}
    IN  IF I = {} THEN {} ELSE {ms[CHOOSE i \in I : \A j \in I : i <= j]}

\* How many threads AddWork adds when no worker is idle.
Room ==
    IF MaxCount = 0 THEN Step
    ELSE IF count + Step > MaxCount THEN MaxCount - count ELSE Step

\* Mutant: the new threads are not counted.
AddThreadsUncounted(new) ==
    /\ members' = members \o new
    /\ UNCHANGED count
    /\ pc' = [w \in Workers |-> IF w \in Range(new) THEN "wait" ELSE pc[w]]

\* AddThreads: each new worker sleeps before the next one is made.
AddThreads(new) ==
    /\ members' = members \o new
    /\ count' = count + Len(new)
    /\ pc' = [w \in Workers |-> IF w \in Range(new) THEN "wait" ELSE pc[w]]

\* Mutant: the threads that were added are not woken.
AddWorkOnlyAdds(x) ==
    LET k == IF FirstIdle(members, idle) = {} THEN Room ELSE 0
    IN  /\ ~destroy /\ x \notin added
        /\ works' = Append(works, x) /\ added' = added \cup {x}
        /\ \E new \in NewWorkers(k) :
              LET woken == FirstIdle(members, idle)
              IN  /\ AddThreads(new)
                  /\ canWork' = [w \in Workers |-> w \in woken \/ canWork[w]]
                  /\ idle' = [w \in Workers |-> (w \in Range(new) \/ idle[w]) /\ w \notin woken]
                  /\ stop' = [w \in Workers |-> w \notin Range(new) /\ stop[w]]
                  /\ refused' = refused + k - Len(new) /\ refused' <= MaxRefused
        /\ UNCHANGED <<destroy, joined, job, done>>

AddWork(x) ==
    LET k == IF FirstIdle(members, idle) = {} THEN Room ELSE 0
    IN  /\ ~destroy /\ x \notin added
        /\ works' = Append(works, x) /\ added' = added \cup {x}
        /\ \E new \in NewWorkers(k) :
              LET asleep == [w \in Workers |-> w \in Range(new) \/ idle[w]]
                  woken  == FirstIdle(members \o new, asleep)
              IN  /\ AddThreads(new)
                  /\ canWork' = [w \in Workers |-> w \in woken \/ canWork[w]]
                  /\ idle' = [w \in Workers |-> asleep[w] /\ w \notin woken]
                  /\ stop' = [w \in Workers |-> w \notin Range(new) /\ stop[w]]
                  /\ refused' = refused + k - Len(new) /\ refused' <= MaxRefused
        /\ UNCHANGED <<destroy, joined, job, done>>

\* Mutant: a sleeping worker is told to stop and not to wake up.
StopAllSleeping(S) ==
    /\ stop' = [w \in Workers |-> w \in S \/ stop[w]]
    /\ UNCHANGED canWork

\* Stop() on each worker of S.
StopAll(S) ==
    /\ stop' = [w \in Workers |-> w \in S \/ stop[w]]
    /\ canWork' = [w \in Workers |-> w \in S \/ canWork[w]]

Destroy ==
    /\ ~destroy /\ destroy' = TRUE
    /\ StopAll(Range(members))
    /\ UNCHANGED <<joined, pool, pc, job, idle, added, done, refused>>

\* Destroy has joined the manager and every worker, and clears the queue.
DestroyReturns ==
    /\ destroy /\ ~joined /\ \A w \in Workers : pc[w] = "none"
    /\ joined' = TRUE /\ works' = <<>>
    /\ UNCHANGED <<destroy, members, count, pc, job, flags, added, done, refused>>

(***************************************************************************)
(* The manager thread.                                                     *)
(***************************************************************************)

\* Mutant: a worker's time counts whether or not it is idle.
IdleTooLongAny == Range(members)

\* The workers whose idle time may exceed m_maxIdleTime.
IdleTooLong == {w \in Range(members) : idle[w]}

\* RemoveIdleThreads stops workers that were idle too long while the list,
\* stopped workers that did not leave yet included, is longer than m_minCount.
RemoveIdleThreads(S) ==
    /\ RemovesIdle
    /\ S \subseteq IdleTooLong /\ S # {} /\ Len(members) - Cardinality(S) >= MinCount
    /\ StopAll(S)
    /\ UNCHANGED <<destroy, joined, pool, pc, job, idle, added, done, refused>>

(***************************************************************************)
(* A worker.                                                               *)
(***************************************************************************)
Goto(w, l) == pc' = [pc EXCEPT ![w] = l]

\* The head of Run's outer loop.
SetIdle(w) ==
    /\ pc[w] = "top" /\ ~stop[w]
    /\ idle' = [idle EXCEPT ![w] = TRUE]
    /\ Goto(w, "wait")
    /\ UNCHANGED <<destroy, joined, pool, job, canWork, stop, added, done, refused>>

LoopEnds(w) ==
    /\ pc[w] = "top" /\ stop[w]
    /\ Goto(w, "remove")
    /\ UNCHANGED <<destroy, joined, pool, job, flags, added, done, refused>>

\* Wait returns once m_canWork is set.
Wake(w) ==
    /\ pc[w] = "wait" /\ canWork[w]
    /\ canWork' = [canWork EXCEPT ![w] = FALSE]
    /\ Goto(w, "get")
    /\ UNCHANGED <<destroy, joined, pool, job, stop, idle, added, done, refused>>

\* GetWork.  The worker that gets work is not idle: only WakeUp, which clears
\* the flag, lets a worker that is not stopped out of its wait.
GetWork(w) ==
    /\ pc[w] = "get" /\ ~stop[w] /\ ~destroy /\ works # <<>>
    /\ job' = [job EXCEPT ![w] = <<Head(works)>>]
    /\ works' = Tail(works)
    /\ idle' = [idle EXCEPT ![w] = FALSE]
    /\ Goto(w, "do")
    /\ UNCHANGED <<destroy, joined, members, count, canWork, stop, added, done, refused>>

GetNoWork(w) ==
    /\ pc[w] = "get" /\ (stop[w] \/ destroy \/ works = <<>>)
    /\ Goto(w, "leave")
    /\ UNCHANGED <<destroy, joined, pool, job, flags, added, done, refused>>

Do(w) ==
    /\ pc[w] = "do"
    /\ done' = done \cup Range(job[w])
    /\ job' = [job EXCEPT ![w] = <<>>]
    /\ Goto(w, "get")
    /\ UNCHANGED <<destroy, joined, pool, flags, added, refused>>

LeaveOrStay(w) ==
    /\ pc[w] = "leave"
    /\ Goto(w, IF stop[w] \/ destroy THEN "remove" ELSE "top")
    /\ UNCHANGED <<destroy, joined, pool, job, flags, added, done, refused>>

\* The worker's entry is erased, wherever it is in the list.
RemoveThread(w) ==
    /\ pc[w] = "remove"
    /\ \E i \in DOMAIN members :
          members[i] = w /\ members' = SubSeq(members, 1, i - 1) \o SubSeq(members, i + 1, Len(members))
    /\ count' = count - 1
    /\ Goto(w, "none")
    /\ idle' = [idle EXCEPT ![w] = FALSE] /\ canWork' = [canWork EXCEPT ![w] = FALSE]
    /\ UNCHANGED <<destroy, joined, works, job, stop, added, done, refused>>

WorkerStep(w) ==
    \/ SetIdle(w) \/ LoopEnds(w) \/ Wake(w) \/ GetWork(w) \/ GetNoWork(w) \/ Do(w)
    \/ LeaveOrStay(w) \/ RemoveThread(w)

Next ==
    \/ \E x \in Works : AddWork(x)
    \/ Destroy \/ DestroyReturns
    \/ \E S \in SUBSET Workers : RemoveIdleThreads(S)
    \/ \E w \in Workers : WorkerStep(w)

Spec == Init /\ [][Next]_vars

\* Workers run, a work's Do returns, and joins return.
Fairness == WF_vars(DestroyReturns) /\ \A w \in Workers : WF_vars(WorkerStep(w))

FairSpec == Spec /\ Fairness

-----------------------------------------------------------------------------
\* The pool's count is the number of its running threads and respects the
\* maximum, through growing by steps, workers that stop themselves and destruction.
CountOK ==
    /\ count = Len(members) /\ Range(members) = {w \in Workers : pc[w] # "none"}
    /\ MaxCount # 0 => count <= MaxCount

\* Work is queued, running or finished, in one place only, until the pool is
\* destroyed; a worker that runs one is stopped by nothing but Destroy.
WorkInOnePlace ==
    /\ ~joined => added = Range(works) \cup done \cup UNION {Range(job[w]) : w \in Workers}
    /\ \A w \in Workers : Range(job[w]) \cap (Range(works) \cup done) = {}
    /\ \A v, w \in Workers : Range(job[v]) \cap Range(job[w]) # {} => v = w
    /\ \A w \in Workers : pc[w] = "do" /\ stop[w] => destroy

\* Every work added is done while the pool may still grow: a worker that found
\* no work and is not idle yet is not woken, but a new one is.  Work may be left
\* waiting, until the next AddWork, if the manager has stopped the worker that
\* was woken for it, if the pool has its maximum of threads or if a thread could
\* not be created.
WorkDone ==
    \A x \in Works :
       x \in added ~> \/ x \in done \/ destroy \/ count = MaxCount \/ refused > 0
                      \/ \E w \in Workers : stop[w]

\* Destroy returns: no worker sleeps through it or is left behind.
DestroyEnds == destroy ~> joined
=============================================================================
