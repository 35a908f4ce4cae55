--------------------------- MODULE OrderlyConsume ---------------------------
(***************************************************************************)
(* Orderly consumption of one message queue by one client:                 *)
(* ConsumeMessageOrderlyService, the orderly operations of ProcessQueue    *)
(* and the locks of RebalanceImpl.  The queue may be given up and acquired *)
(* again, as a new ProcessQueue, while requests of the old one are alive.  *)
(* The service's one timer thread runs the periodic lockAll, the retries   *)
(* of the lock and the delayed requests.                                   *)
(***************************************************************************)
EXTENDS Integers, FiniteSets

CONSTANTS
    PQs,            \* identities of the ProcessQueue objects made for the queue
    Workers,        \* threads of the consume executor
    NoPQ, NoWorker, \* null values
    MaxOffset,      \* bound: offsets pulled from the broker
    MaxExpired,     \* bound: at most this many messages expire
    ReplicaLags,    \* whether a pull may be served by a replica that lags
    Matching,       \* offsets of the messages that pass the subscription's tags
    PullBatch,      \* pullBatchSize
    ConsumeBatch,   \* consumeMessageBatchMaxSize
    AutoCommits,    \* the values of context.autoCommit the listener leaves
    Statuses        \* the statuses the listener returns

ConsumeOrderlyStatus == {"SUCCESS", "ROLLBACK", "COMMIT", "SUSPEND_CURRENT_QUEUE_A_MOMENT"}

ASSUME OrderlyAssumption ==
    /\ NoPQ \notin PQs /\ NoWorker \notin Workers
    /\ MaxOffset \in Nat /\ Matching \subseteq 0 .. MaxOffset - 1
    /\ MaxExpired \in 0 .. MaxOffset /\ ReplicaLags \in BOOLEAN
    /\ PullBatch \in Nat \ {0} /\ ConsumeBatch \in Nat \ {0}
    /\ AutoCommits \subseteq BOOLEAN /\ Statuses \subseteq ConsumeOrderlyStatus

VARIABLES
    stored,         \* the group's offset on the broker
    offsetTable,    \* the offset store's entry of the queue, -1 if there is none
    finished,       \* history: messages whose consumption was committed
    lost,           \* history: messages a rollback dropped from a tree
    abandoned,      \* history: ProcessQueues whose request ended with messages left
    table,          \* the queue's entry in m_processQueueTable
    giving,         \* the ProcessQueue the rebalance thread is giving up, and its next step
    created,        \* ProcessQueues made so far
    dropped, msgTreeMap, msgTreeMapTemp, msgCount, consuming, locked,  \* fields of ProcessQueue
    expired,        \* ProcessQueue -> isLockExpired()
    nextOffset,     \* the PullRequest's m_nextOffset
    inflight,       \* ProcessQueue -> a pull is in flight
    minOffset,      \* the first offset that the broker's queue still holds
    work,           \* requests in the executor's queue, by ProcessQueue
    later,          \* timers of SubmitConsumeRequestLaterOrderly
    tryLock,        \* timers of TryLockLaterAndReconsume
    mutex,          \* the thread that holds the queue's lock of MessageQueueLock
    thread,         \* consume thread -> where it stands in Do
    hung,           \* the timer thread never returns from lockAll
    stoped          \* m_stoped, which the constructor leaves uninitialized

offsetVars == <<stored, offsetTable, finished, lost, abandoned>>
tableVars  == <<table, giving, created, dropped>>
treeVars   == <<msgTreeMap, msgTreeMapTemp, msgCount, consuming>>
lockVars   == <<locked, expired, hung, stoped>>
pullVars   == <<nextOffset, inflight, minOffset>>
workVars   == <<work, later, tryLock, mutex, thread>>
vars == <<offsetVars, tableVars, treeVars, lockVars, pullVars, workVars>>

NoOffset == -1
Messages == 0 .. MaxOffset - 1
Greatest(S) == CHOOSE x \in S : \A y \in S : x >= y

Thread(pc, p, msgs, off) == [pc |-> pc, pq |-> p, msgs |-> msgs, off |-> off]
Idle     == Thread("idle", NoPQ, {}, NoOffset)
NotGiving == [pc |-> "idle", pq |-> NoPQ]

Init ==
    /\ stored = 0 /\ offsetTable = NoOffset /\ finished = {} /\ lost = {} /\ abandoned = {}
    /\ table = NoPQ /\ giving = NotGiving /\ created = {}
    /\ dropped = [p \in PQs |-> FALSE]
    /\ msgTreeMap = [p \in PQs |-> {}] /\ msgTreeMapTemp = [p \in PQs |-> {}]
    /\ msgCount = [p \in PQs |-> 0]
    /\ consuming = [p \in PQs |-> FALSE]
    /\ locked = [p \in PQs |-> FALSE] /\ expired = [p \in PQs |-> FALSE]
    /\ nextOffset = [p \in PQs |-> 0] /\ inflight = [p \in PQs |-> FALSE]
    /\ minOffset = 0
    /\ work = {} /\ later = {} /\ tryLock = {}
    /\ mutex = NoWorker /\ thread = [w \in Workers |-> Idle]
    /\ hung = FALSE /\ stoped \in BOOLEAN

(***************************************************************************)
(* The rebalance thread.  It needs the process queue table's lock, which a *)
(* hung lockAll keeps.                                                     *)
(***************************************************************************)
AddProcessQueue(p) ==
    /\ ~hung /\ giving = NotGiving /\ table = NoPQ /\ p \notin created
    /\ created' = created \cup {p} /\ table' = p
    /\ nextOffset' = [nextOffset EXCEPT ![p] = stored]
    /\ offsetTable' = stored
    /\ UNCHANGED <<stored, finished, lost, abandoned, giving, dropped, treeVars, lockVars,
                   inflight, minOffset, workVars>>

EraseProcessQueue ==
    /\ ~hung /\ giving = NotGiving /\ table # NoPQ
    /\ giving' = [pc |-> "drop", pq |-> table] /\ table' = NoPQ
    /\ UNCHANGED <<offsetVars, created, dropped, treeVars, lockVars, pullVars, workVars>>

SetDropped ==
    /\ giving.pc = "drop"
    /\ dropped' = [dropped EXCEPT ![giving.pq] = TRUE]
    /\ giving' = [giving EXCEPT !.pc = "remove"]
    /\ UNCHANGED <<offsetVars, table, created, treeVars, lockVars, pullVars, workVars>>

\* persist sends nothing; removeOffset; the broker's unlock is a oneway call
\* that leaves m_locked as it is.
RemoveUnnecessaryMessageQueue ==
    /\ giving.pc = "remove"
    /\ offsetTable' = NoOffset
    /\ giving' = NotGiving
    /\ UNCHANGED <<stored, finished, lost, abandoned, table, created, dropped, treeVars,
                   lockVars, pullVars, workVars>>

\* The timer that persists the offset table, its call reaching the broker.
PersistAll ==
    /\ offsetTable # NoOffset /\ table # NoPQ
    /\ stored' = offsetTable
    /\ UNCHANGED <<offsetTable, finished, lost, abandoned, tableVars, treeVars, lockVars,
                   pullVars, workVars>>

(***************************************************************************)
(* Pulling.  A pull's answer reaches the callback in one step, with what   *)
(* the broker's queue held at some moment since the pull was sent; one     *)
(* that is never answered stands for a failed pull, whose request is given *)
(* to a timer that is not running.                                         *)
(***************************************************************************)
Expire ==
    /\ minOffset < MaxExpired
    /\ minOffset' = minOffset + 1
    /\ UNCHANGED <<offsetVars, tableVars, treeVars, lockVars, nextOffset, inflight, workVars>>

\* A pull that the master gets carries the cached offset as a commit.
PullMessage(p) ==
    /\ p \in created /\ ~dropped[p] /\ ~inflight[p]
    /\ inflight' = [inflight EXCEPT ![p] = TRUE]
    /\ stored' \in {stored} \cup (IF offsetTable > 0 THEN {offsetTable} ELSE {})
    /\ UNCHANGED <<offsetTable, finished, lost, abandoned, tableVars, treeVars, lockVars,
                   nextOffset, minOffset, workVars>>

\* Mutant: the queue is dispatched whether or not it is being consumed.
NeedsDispatchAlways(p, tree) == tree # {}

\* What putMessage returns.
NeedsDispatch(p, tree) == tree # {} /\ ~consuming[p]

\* putMessage and submitConsumeRequest, which makes a request only if
\* putMessage says so.
PutMessage(p, msgs) ==
    LET tree == msgTreeMap[p] \cup msgs
    IN  /\ msgTreeMap' = [msgTreeMap EXCEPT ![p] = tree]
        /\ msgCount' = [msgCount EXCEPT ![p] = msgCount[p] + Cardinality(msgs)]
        /\ consuming' = [consuming EXCEPT ![p] = consuming[p] \/ NeedsDispatch(p, tree)]
        /\ work' = IF NeedsDispatch(p, tree) THEN work \cup {p} ELSE work
        /\ abandoned' = IF NeedsDispatch(p, tree) THEN abandoned \ {p} ELSE abandoned

\* onSuccess: the answer was given, the request goes on from n.
Answered(p, n) ==
    /\ inflight[p]
    /\ inflight' = [inflight EXCEPT ![p] = FALSE]
    /\ nextOffset' = [nextOffset EXCEPT ![p] = n]

\* The messages of an answer that takes the request to n.
Pulled(p, n) == Matching \cap nextOffset[p] .. n - 1

OnFound(p, n) ==
    /\ n > nextOffset[p] /\ n <= nextOffset[p] + PullBatch
    /\ Answered(p, n)
    /\ PutMessage(p, Pulled(p, n))
    /\ UNCHANGED <<stored, offsetTable, finished, lost, tableVars, msgTreeMapTemp, lockVars,
                   minOffset, later, tryLock, mutex, thread>>

\* correctTagsOffset raises the offset of a queue that has nothing to consume.
CorrectTagsOffset(p, n) ==
    offsetTable' = IF msgCount[p] = 0 /\ (offsetTable = NoOffset \/ n > offsetTable)
                   THEN n ELSE offsetTable

OnNoNewMsg(p) ==
    /\ Answered(p, nextOffset[p])
    /\ CorrectTagsOffset(p, nextOffset[p])
    /\ UNCHANGED <<stored, finished, lost, abandoned, tableVars, treeVars, lockVars, minOffset,
                   workVars>>

OnNoMatchedMsg(p, n) ==
    /\ n > nextOffset[p] /\ n <= nextOffset[p] + PullBatch /\ Pulled(p, n) = {}
    /\ Answered(p, n)
    /\ UNCHANGED <<offsetVars, tableVars, treeVars, lockVars, minOffset, workVars>>

\* Where OFFSET_ILLEGAL takes the request: up to the first offset the broker
\* holds, or back to the end of a replica that lags.
FixedOffsets(p) ==
    {n \in 1 .. minOffset : n > nextOffset[p]}
    \cup (IF ReplicaLags THEN {n \in 0 .. MaxOffset : n < nextOffset[p]} ELSE {})

\* The offset table is set to it too, up or down.
OnOffsetIllegal(p, n) ==
    /\ n \in FixedOffsets(p)
    /\ Answered(p, n)
    /\ offsetTable' = n
    /\ UNCHANGED <<stored, finished, lost, abandoned, tableVars, treeVars, lockVars, minOffset,
                   workVars>>

(***************************************************************************)
(* The timer thread.                                                       *)
(***************************************************************************)

\* lockMQPeriodically: buildProcessQueueTableByBrokerName's loop over a table
\* that is not empty does not advance, and keeps the table's lock.
LockMQPeriodically ==
    /\ ~hung /\ ~stoped /\ table # NoPQ
    /\ hung' = TRUE
    /\ UNCHANGED <<offsetVars, tableVars, treeVars, locked, expired, stoped, pullVars,
                   workVars>>

\* The time since the last lock passes s_RebalanceLockMaxLiveTime.
LockExpires(p) ==
    /\ p \in created /\ ~expired[p]
    /\ expired' = [expired EXCEPT ![p] = TRUE]
    /\ UNCHANGED <<offsetVars, tableVars, treeVars, locked, hung, stoped, pullVars, workVars>>

\* The outcomes of the call for a queue: the broker's set has it, or has it not, or
\* there is no answer.
LockBatchMQ == BOOLEAN

\* lock: it goes to the ProcessQueue that is in the table now.
Lock(lockOK) ==
    IF lockOK /\ table # NoPQ
    THEN /\ locked' = [locked EXCEPT ![table] = TRUE]
         /\ expired' = [expired EXCEPT ![table] = FALSE]
    ELSE UNCHANGED <<locked, expired>>

\* A stopped service does not ask; a request of p is submitted later in any case.
OnTimeOutTryLock(p, lockOK) ==
    /\ p \in tryLock /\ ~hung
    /\ lockOK => ~stoped
    /\ Lock(lockOK)
    /\ tryLock' = tryLock \ {p} /\ later' = later \cup {p}
    /\ UNCHANGED <<offsetVars, tableVars, treeVars, hung, stoped, pullVars, work, mutex,
                   thread>>

OnTimeOutLater(p) ==
    /\ p \in later /\ ~hung
    /\ later' = later \ {p} /\ work' = work \cup {p}
    /\ UNCHANGED <<offsetVars, tableVars, treeVars, lockVars, pullVars, tryLock, mutex,
                   thread>>

(***************************************************************************)
(* ConsumeOrderlyRequest::Do.  A request stays in work until its thread    *)
(* has the queue's lock, which it keeps to the end of Do.                  *)
(***************************************************************************)
Leave(w) == mutex' = NoWorker /\ thread' = [thread EXCEPT ![w] = Idle]

StartDo(w, p) ==
    /\ p \in work /\ thread[w] = Idle /\ mutex = NoWorker
    /\ work' = work \ {p}
    /\ IF locked[p] \/ ~expired[p]
       THEN /\ mutex' = w /\ thread' = [thread EXCEPT ![w] = Thread("loop", p, {}, NoOffset)]
            /\ UNCHANGED tryLock
       ELSE tryLock' = tryLock \cup {p} /\ UNCHANGED <<mutex, thread>>
    /\ UNCHANGED <<offsetVars, tableVars, treeVars, lockVars, pullVars, later>>

\* The checks at the head of the loop: dropped, not locked or expired ends Do.
BreakLoop(w) ==
    LET p == thread[w].pq
    IN  /\ thread[w].pc = "loop" /\ (dropped[p] \/ ~locked[p] \/ expired[p])
        /\ Leave(w)
        /\ abandoned' = abandoned \cup {p}
        /\ UNCHANGED <<stored, offsetTable, finished, lost, tableVars, treeVars, lockVars,
                       pullVars, work, later, tryLock>>

\* s_MaxTimeConsumeContinuously has passed: the rest is left for later.
ConsumedTooLong(w) ==
    LET p == thread[w].pq
    IN  /\ thread[w].pc = "loop" /\ ~dropped[p] /\ locked[p] /\ ~expired[p]
        /\ later' = later \cup {p}
        /\ Leave(w)
        /\ UNCHANGED <<offsetVars, tableVars, treeVars, lockVars, pullVars, work, tryLock>>

PassChecks(w) ==
    LET p == thread[w].pq
    IN  /\ thread[w].pc = "loop" /\ ~dropped[p] /\ locked[p] /\ ~expired[p]
        /\ thread' = [thread EXCEPT ![w].pc = "take"]
        /\ UNCHANGED <<offsetVars, tableVars, treeVars, lockVars, pullVars, work, later,
                       tryLock, mutex>>

\* The ConsumeBatch messages of tree with the smallest offsets.
FirstMessages(tree) == {o \in tree : Cardinality({x \in tree : x < o}) < ConsumeBatch}

\* takeMessages, up to the end of its lock.
TakeMessages(w) ==
    LET p == thread[w].pq
        msgs == FirstMessages(msgTreeMap[p])
    IN  /\ thread[w].pc = "take"
        /\ msgTreeMap' = [msgTreeMap EXCEPT ![p] = msgTreeMap[p] \ msgs]
        /\ msgTreeMapTemp' = [msgTreeMapTemp EXCEPT ![p] = msgTreeMapTemp[p] \cup msgs]
        /\ thread' = [thread EXCEPT ![w] =
                         Thread(IF msgs = {} THEN "clear" ELSE "listener", p, msgs, NoOffset)]
        /\ UNCHANGED <<offsetVars, tableVars, msgCount, consuming, lockVars, pullVars, work,
                       later, tryLock, mutex>>

\* takeMessages without a message clears m_consuming after it released its lock.
ClearConsuming(w) ==
    /\ thread[w].pc = "clear"
    /\ consuming' = [consuming EXCEPT ![thread[w].pq] = FALSE]
    /\ abandoned' = IF msgTreeMap[thread[w].pq] = {} THEN abandoned ELSE abandoned \cup {thread[w].pq}
    /\ Leave(w)
    /\ UNCHANGED <<stored, offsetTable, finished, lost, tableVars, msgTreeMap, msgTreeMapTemp,
                   msgCount, lockVars, pullVars, work, later, tryLock>>

\* Mutants: commit returns the position pulled to; it takes the last batch only
\* off the count.
CommitOffsetPulled(p) == nextOffset[p]
CommitCountBatch(w) == msgCount[thread[w].pq] - Cardinality(thread[w].msgs)

CommitOffset(p) == Greatest(msgTreeMapTemp[p]) + 1
CommitCount(w)  == msgCount[thread[w].pq] - Cardinality(msgTreeMapTemp[thread[w].pq])

\* The statuses on which processConsumeResult commits.
Commits(autoCommit) ==
    IF autoCommit THEN {"SUCCESS", "COMMIT", "ROLLBACK"} ELSE {"COMMIT"}

\* The listener returns, and processConsumeResult commits what is in the
\* temporary tree: autoCommit takes every status but SUSPEND for SUCCESS.
Commit(w) ==
    LET p == thread[w].pq
    IN  /\ thread[w].pc = "listener"
        /\ finished' = finished \cup msgTreeMapTemp[p]
        /\ msgTreeMapTemp' = [msgTreeMapTemp EXCEPT ![p] = {}]
        /\ msgCount' = [msgCount EXCEPT ![p] = CommitCount(w)]
        /\ thread' = [thread EXCEPT ![w] = Thread("update", p, {}, CommitOffset(p))]
        /\ UNCHANGED <<stored, offsetTable, lost, abandoned, tableVars, msgTreeMap, consuming,
                       lockVars, pullVars, work, later, tryLock, mutex>>

UpdateOffset(w) ==
    /\ thread[w].pc = "update"
    /\ offsetTable' = thread[w].off
    /\ thread' = [thread EXCEPT ![w] = Thread("loop", thread[w].pq, {}, NoOffset)]
    /\ UNCHANGED <<stored, finished, lost, abandoned, tableVars, treeVars, lockVars, pullVars,
                   work, later, tryLock, mutex>>

\* SUCCESS of a transactional listener: the messages stay in the temporary tree.
ConsumeNext(w) ==
    /\ thread[w].pc = "listener"
    /\ thread' = [thread EXCEPT ![w] = Thread("loop", thread[w].pq, {}, NoOffset)]
    /\ UNCHANGED <<offsetVars, tableVars, treeVars, lockVars, pullVars, work, later, tryLock,
                   mutex>>

\* rollback replaces the tree by the temporary tree.
Rollback(w) ==
    LET p == thread[w].pq
    IN  /\ thread[w].pc = "listener"
        /\ msgTreeMap' = [msgTreeMap EXCEPT ![p] = msgTreeMapTemp[p]]
        /\ lost' = lost \cup msgTreeMap[p]
        /\ msgTreeMapTemp' = [msgTreeMapTemp EXCEPT ![p] = {}]
        /\ later' = later \cup {p}
        /\ Leave(w)
        /\ UNCHANGED <<stored, offsetTable, finished, abandoned, tableVars, msgCount,
                       consuming, lockVars, pullVars, work, tryLock>>

\* Mutant: the messages to consume again stay in the temporary tree too.
SuspendKeepsTemp(w) ==
    LET p == thread[w].pq
    IN  /\ thread[w].pc = "listener"
        /\ msgTreeMap' = [msgTreeMap EXCEPT ![p] = msgTreeMap[p] \cup thread[w].msgs]
        /\ later' = later \cup {p}
        /\ Leave(w)
        /\ UNCHANGED <<offsetVars, tableVars, msgTreeMapTemp, msgCount, consuming, lockVars,
                       pullVars, work, tryLock>>

\* Mutant: nobody consumes the queue again.
SuspendForgets(w) ==
    LET p == thread[w].pq
    IN  /\ thread[w].pc = "listener"
        /\ msgTreeMap' = [msgTreeMap EXCEPT ![p] = msgTreeMap[p] \cup thread[w].msgs]
        /\ msgTreeMapTemp' = [msgTreeMapTemp EXCEPT ![p] = msgTreeMapTemp[p] \ thread[w].msgs]
        /\ Leave(w)
        /\ UNCHANGED <<offsetVars, tableVars, msgCount, consuming, lockVars, pullVars, work,
                       later, tryLock>>

\* makeMessageToCosumeAgain, and the rest of the queue waits.
Suspend(w) ==
    LET p == thread[w].pq
    IN  /\ thread[w].pc = "listener"
        /\ msgTreeMap' = [msgTreeMap EXCEPT ![p] = msgTreeMap[p] \cup thread[w].msgs]
        /\ msgTreeMapTemp' = [msgTreeMapTemp EXCEPT ![p] = msgTreeMapTemp[p] \ thread[w].msgs]
        /\ later' = later \cup {p}
        /\ Leave(w)
        /\ UNCHANGED <<offsetVars, tableVars, msgCount, consuming, lockVars, pullVars, work,
                       tryLock>>

\* processConsumeResult; an exception of the listener is a SUSPEND.
ProcessConsumeResult(w, autoCommit, status) ==
    \/ status \in Commits(autoCommit) /\ Commit(w)
    \/ ~autoCommit /\ status = "SUCCESS" /\ ConsumeNext(w)
    \/ ~autoCommit /\ status = "ROLLBACK" /\ Rollback(w)
    \/ status = "SUSPEND_CURRENT_QUEUE_A_MOMENT" /\ Suspend(w)

Next ==
    \/ EraseProcessQueue \/ SetDropped \/ RemoveUnnecessaryMessageQueue \/ PersistAll
    \/ LockMQPeriodically \/ Expire
    \/ \E p \in PQs :
          \/ AddProcessQueue(p) \/ PullMessage(p) \/ LockExpires(p)
          \/ OnNoNewMsg(p)
          \/ \E n \in 0 .. MaxOffset :
                OnFound(p, n) \/ OnNoMatchedMsg(p, n) \/ OnOffsetIllegal(p, n)
          \/ OnTimeOutLater(p) \/ \E lockOK \in LockBatchMQ : OnTimeOutTryLock(p, lockOK)
          \/ \E w \in Workers : StartDo(w, p)
    \/ \E w \in Workers :
          \/ BreakLoop(w) \/ ConsumedTooLong(w) \/ PassChecks(w)
          \/ TakeMessages(w) \/ ClearConsuming(w) \/ UpdateOffset(w)
          \/ \E autoCommit \in AutoCommits, status \in Statuses :
                ProcessConsumeResult(w, autoCommit, status)

Spec == Init /\ [][Next]_vars

-----------------------------------------------------------------------------
\* The threads that run a request of p.
Running(p) == {w \in Workers : thread[w].pq = p}

\* m_consuming stands for the queue's one request: while it waits in the
\* executor, for a timer or for a lock, or runs, no second one is made, however
\* puts, suspensions, rollbacks and lock retries interleave.
OneRequest ==
    \A p \in PQs :
       /\ Cardinality(Running(p)) <= 1
       /\ work \cap later = {} /\ work \cap tryLock = {} /\ later \cap tryLock = {}
       /\ p \in work \cup later \cup tryLock => Running(p) = {} /\ consuming[p]
       /\ Running(p) # {} => consuming[p]

\* Messages that wait have a request that will take them, however puts, suspensions,
\* rollbacks and expired locks interleave; only two ends of Do abandon them: without
\* the lock, and between the test for messages and the clearing of m_consuming.
WaitingHasRequest ==
    \A p \in created \ abandoned :
       msgTreeMap[p] # {} => p \in work \cup later \cup tryLock \/ Running(p) # {}

\* While the master serves the pulls, messages reach the listener in the order of
\* their offsets: what is taken and not committed precedes all that is left, and
\* the batch a listener has is the last that was taken.  A replica that lags can
\* send the request back to offsets that were pulled before (OnOffsetIllegal).
TakenInOrder ==
    /\ \A p \in PQs : \A t \in msgTreeMapTemp[p], o \in msgTreeMap[p] : t < o
    /\ \A w \in Workers : thread[w].pc = "listener" =>
          /\ thread[w].msgs \subseteq msgTreeMapTemp[thread[w].pq]
          /\ \A t \in msgTreeMapTemp[thread[w].pq] \ thread[w].msgs, o \in thread[w].msgs : t < o

\* The offset, stored or cached, passes a message only after the listener's work
\* on it was committed, whichever ProcessQueue and thread set it: whatever is
\* suspended, left uncommitted or dropped with its queue is consumed again, and
\* correctTagsOffset raises the offset over nothing that waits.  Only what a
\* rollback threw away, and what the broker no longer holds, is passed unconsumed,
\* while the master serves the pulls.
CommittedFirst ==
    \A o \in Matching :
       o < stored \/ o < offsetTable => o \in finished \cup lost \/ o < minOffset

\* m_msgCount, which flow control reads, is the size of the two trees, and of
\* the messages that a rollback threw away, while the master serves the pulls.
BothTreesCounted ==
    \A p \in PQs :
       LET n == Cardinality(msgTreeMap[p]) + Cardinality(msgTreeMapTemp[p])
       IN  msgCount[p] >= n /\ (lost = {} => msgCount[p] = n)
=============================================================================
