------------------------------ MODULE Services ------------------------------
(***************************************************************************)
(* The two service threads of a client: PullMessageService, which takes    *)
(* pull requests from a queue and pulls, and RebalanceService, which       *)
(* rebalances when asked and periodically, and hands new pull requests to  *)
(* the former.  Both sleep in ServiceThread::waitForRunning and are woken  *)
(* by ServiceThread::wakeup.                                               *)
(***************************************************************************)
EXTENDS Integers, Sequences

CONSTANTS
    Requests,     \* pull requests, one per message queue of the client
    MaxCallers    \* threads that run pull callbacks at the same time

ASSUME ServicesAssumption == MaxCallers \in Nat

Threads == {"pull", "rebalance"}

VARIABLES
    notified,     \* thread -> m_notified
    stoped,       \* thread -> m_stoped
    stopping,     \* thread -> stop() has set m_stoped and did not wake the thread yet
    pc,           \* thread -> where it stands
    queue,        \* m_pullRequestQueue
    where,        \* request -> who has it: "queue", "thread" (being pulled), "timer", or
                  \* "away": with the broker, a callback, the rebalance, or nobody
    callers,      \* callbacks that have queued a request and did not wake the thread yet
    asked         \* history: a wakeup of RebalanceService that no doRebalance has followed

threadVars == <<notified, stoped, stopping, pc>>
serviceVars == <<threadVars, queue, where, callers, asked>>

ServiceInit ==
    /\ notified = [t \in Threads |-> FALSE] /\ stoped = [t \in Threads |-> FALSE]
    /\ stopping = [t \in Threads |-> FALSE] /\ pc = [t \in Threads |-> "top"]
    /\ queue = <<>> /\ where = [r \in Requests |-> "away"]
    /\ callers = 0 /\ asked = FALSE

Goto(t, l) == pc' = [pc EXCEPT ![t] = l]

(***************************************************************************)
(* ServiceThread.                                                          *)
(***************************************************************************)

\* Mutant: the thread is signalled, which is not remembered.
WakeupSignals(t) ==
    /\ pc' = [pc EXCEPT ![t] = IF pc[t] = "waiting" THEN "signalled" ELSE pc[t]]
    /\ UNCHANGED notified

\* wakeup: the flag is remembered, and the thread is signalled if it was clear.
Wakeup(t) ==
    /\ notified' = [notified EXCEPT ![t] = TRUE]
    /\ pc' = [pc EXCEPT ![t] =
                 IF ~notified[t] /\ pc[t] = "waiting" THEN "signalled" ELSE pc[t]]

\* waitForRunning up to Wait.
WaitForRunning(t) ==
    /\ pc[t] = "wait"
    /\ Goto(t, IF notified[t] THEN "woken" ELSE "waiting")
    /\ notified' = [notified EXCEPT ![t] = FALSE]
    /\ UNCHANGED <<stoped, stopping, queue, where, callers, asked>>

\* Wait returns.  A wait that timed out throws when errno holds an old EINTR,
\* and the flag is cleared, even if the thread was signalled at the same time.
WaitReturns(t) ==
    /\ pc[t] = "signalled"
    /\ Goto(t, "woken")
    /\ \E n \in {TRUE, FALSE} : notified' = [notified EXCEPT ![t] = n /\ notified[t]]
    /\ UNCHANGED <<stoped, stopping, queue, where, callers, asked>>

WaitTimesOut(t) ==
    /\ pc[t] = "waiting"
    /\ Goto(t, "woken")
    /\ UNCHANGED <<notified, stoped, stopping, queue, where, callers, asked>>

Stop(t) ==
    /\ ~stoped[t]
    /\ stoped' = [stoped EXCEPT ![t] = TRUE] /\ stopping' = [stopping EXCEPT ![t] = TRUE]
    /\ UNCHANGED <<notified, pc, queue, where, callers, asked>>

StopWakes(t) ==
    /\ stopping[t]
    /\ Wakeup(t)
    /\ stopping' = [stopping EXCEPT ![t] = FALSE]
    /\ UNCHANGED <<stoped, queue, where, callers, asked>>

\* The head of both Run loops; PullMessageService then looks at its queue.
LoopHead(t) ==
    /\ pc[t] = "top"
    /\ Goto(t, CASE stoped[t] -> "ended"
                 [] ~stoped[t] /\ t = "pull" /\ queue # <<>> -> "woken"
                 [] ~stoped[t] /\ (t = "rebalance" \/ queue = <<>>) -> "wait")
    /\ UNCHANGED <<notified, stoped, stopping, queue, where, callers, asked>>

(***************************************************************************)
(* PullMessageService.                                                     *)
(***************************************************************************)

\* executePullRequestImmediately, called from a callback.
QueueRequest(r) ==
    /\ where[r] = "away" /\ callers < MaxCallers
    /\ queue' = Append(queue, r) /\ where' = [where EXCEPT ![r] = "queue"]
    /\ callers' = callers + 1
    /\ UNCHANGED <<threadVars, asked>>

WakePullThread ==
    /\ callers > 0 /\ callers' = callers - 1
    /\ Wakeup("pull")
    /\ UNCHANGED <<stoped, stopping, queue, where, asked>>

\* executePullRequestLater, called from a callback: the timer thread that would
\* fire is never started.
ExecutePullRequestLater(r) ==
    /\ where[r] = "away"
    /\ where' = [where EXCEPT ![r] = "timer"]
    /\ UNCHANGED <<threadVars, queue, callers, asked>>

TakeRequest ==
    /\ pc["pull"] = "woken"
    /\ IF queue = <<>>
       THEN Goto("pull", "top") /\ UNCHANGED <<queue, where>>
       ELSE /\ Goto("pull", "run")
            /\ queue' = Tail(queue) /\ where' = [where EXCEPT ![Head(queue)] = "thread"]
    /\ UNCHANGED <<notified, stoped, stopping, callers, asked>>

\* pullMessage sends the pull, drops the request or hands it to the timer.
PullMessage(r) ==
    /\ pc["pull"] = "run" /\ where[r] = "thread"
    /\ \E w \in {"away", "timer"} : where' = [where EXCEPT ![r] = w]
    /\ Goto("pull", "top")
    /\ UNCHANGED <<notified, stoped, stopping, queue, callers, asked>>

(***************************************************************************)
(* RebalanceService.                                                       *)
(***************************************************************************)
RebalanceImmediately ==
    /\ Wakeup("rebalance") /\ asked' = TRUE
    /\ UNCHANGED <<stoped, stopping, queue, where, callers>>

\* Mutant: a rebalance that was asked for meanwhile puts this one off.
DoRebalanceLatest ==
    /\ pc["rebalance"] = "woken"
    /\ Goto("rebalance", IF notified["rebalance"] THEN "top" ELSE "run")
    /\ asked' = (asked /\ notified["rebalance"])
    /\ UNCHANGED <<notified, stoped, stopping, queue, where, callers>>

DoRebalance ==
    /\ pc["rebalance"] = "woken"
    /\ Goto("rebalance", "run") /\ asked' = FALSE
    /\ UNCHANGED <<notified, stoped, stopping, queue, where, callers>>

\* dispatchPullRequest: executePullRequestImmediately from the rebalance thread.
DispatchPullRequest(r) ==
    /\ pc["rebalance"] = "run" /\ where[r] = "away"
    /\ queue' = Append(queue, r) /\ where' = [where EXCEPT ![r] = "queue"]
    /\ Goto("rebalance", "wakeup")
    /\ UNCHANGED <<notified, stoped, stopping, callers, asked>>

DispatchWakes ==
    /\ pc["rebalance"] = "wakeup"
    /\ notified' = [notified EXCEPT !["pull"] = TRUE]
    /\ pc' = [pc EXCEPT !["rebalance"] = "run",
                        !["pull"] = IF ~notified["pull"] /\ pc["pull"] = "waiting"
                                    THEN "signalled" ELSE pc["pull"]]
    /\ UNCHANGED <<stoped, stopping, queue, where, callers, asked>>

RebalanceEnds ==
    /\ pc["rebalance"] = "run"
    /\ Goto("rebalance", "top")
    /\ UNCHANGED <<notified, stoped, stopping, queue, where, callers, asked>>

-----------------------------------------------------------------------------
ThreadStep(t) == WaitForRunning(t) \/ WaitReturns(t) \/ LoopHead(t)

PullStep == ThreadStep("pull") \/ TakeRequest \/ \E r \in Requests : PullMessage(r)

RebalanceStep == ThreadStep("rebalance") \/ DoRebalance \/ DispatchWakes \/ RebalanceEnds

ServiceNext ==
    \/ PullStep \/ RebalanceStep \/ WakePullThread \/ RebalanceImmediately
    \/ \E t \in Threads : Stop(t) \/ StopWakes(t) \/ WaitTimesOut(t)
    \/ \E r \in Requests : QueueRequest(r) \/ ExecutePullRequestLater(r) \/ DispatchPullRequest(r)

ServiceSpec == ServiceInit /\ [][ServiceNext]_serviceVars

\* Threads run, and a rebalance, which goes once through the queues of the
\* client, ends.  Nothing is assumed of the timeouts of the waits: the
\* properties hold without the 5 s and the 10 s.
ServiceFairness ==
    /\ WF_serviceVars(PullStep) /\ WF_serviceVars(RebalanceStep) /\ WF_serviceVars(WakePullThread)
    /\ SF_serviceVars(RebalanceEnds)
    /\ \A t \in Threads : WF_serviceVars(StopWakes(t))

FairServiceSpec == ServiceSpec /\ ServiceFairness

-----------------------------------------------------------------------------
ServiceTypeOK ==
    /\ notified \in [Threads -> BOOLEAN] /\ stoped \in [Threads -> BOOLEAN]
    /\ stopping \in [Threads -> BOOLEAN]
    /\ pc \in [Threads -> {"top", "wait", "waiting", "signalled", "woken", "run", "wakeup",
                           "ended"}]
    /\ queue \in Seq(Requests) /\ where \in [Requests -> {"away", "queue", "thread", "timer"}]
    /\ callers \in 0 .. MaxCallers /\ asked \in BOOLEAN

\* No wakeup is lost: a service thread sleeps only if nothing is left for it to
\* do, or somebody who will wake it is on the way.
NoLostWakeup ==
    /\ pc["pull"] = "waiting" /\ queue # <<>> => callers > 0 \/ pc["rebalance"] = "wakeup"
    /\ pc["rebalance"] = "waiting" => ~asked
    /\ \A t \in Threads : pc[t] = "waiting" /\ stoped[t] => stopping[t]

\* The inductive invariant behind it.  The flag bridges the gap between a
\* thread's last look at what there is to do and its wait: a thread that is past
\* that look has the flag set, or the call that will set it is on the way, and
\* the flag is never set while the thread sleeps.
WakeupInv ==
    /\ \A t \in Threads : pc[t] = "waiting" => ~notified[t]
    /\ pc["pull"] \in {"wait", "waiting"} /\ queue # <<>>
          => notified["pull"] \/ callers > 0 \/ pc["rebalance"] = "wakeup"
    /\ asked /\ pc["rebalance"] \notin {"signalled", "woken"} => notified["rebalance"]
    /\ \A t \in Threads : pc[t] \in {"wait", "waiting"} /\ stoped[t] => stopping[t] \/ notified[t]

\* What a service thread was woken for is done although no wait ever times out: a
\* queued request is pulled, and a rebalance starts after it was asked for,
\* whatever the thread was doing at that time.
AskedIsDone ==
    /\ \A r \in Requests : where[r] = "queue" ~> where[r] # "queue" \/ stoped["pull"]
    /\ asked ~> ~asked \/ stoped["rebalance"]
=============================================================================
