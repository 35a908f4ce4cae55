---------------------------- MODULE PushConsumer ----------------------------
(***************************************************************************)
(* Concurrent push consumption of one message queue by the clients of one  *)
(* CLUSTERING consumer group.  Each client runs                            *)
(*   - a rebalance thread, which gives the queue up (drops its             *)
(*     ProcessQueue) or acquires it (a new ProcessQueue and PullRequest);  *)
(*   - the pull path: PullMessageService, the broker's reply and the       *)
(*     callback that fills the ProcessQueue;                               *)
(*   - consume threads running ConsumeConcurrentlyRequest::Do;             *)
(*   - a timer that persists the offset table with oneway calls.           *)
(* Clients crash and restart; calls are lost, delayed and reordered.       *)
(***************************************************************************)
EXTENDS Integers, FiniteSets

CONSTANTS
    Clients,          \* the client processes of the consumer group
    PQs,              \* identities of ProcessQueue objects, with their PullRequest
    Workers,          \* consume threads
    NoClient, NoPQ,   \* null values
    MaxOffset,        \* bound: the broker's queue holds at most this many messages
    Matching,         \* offsets of the messages that pass the subscription's tags
    PullBatch,        \* pullBatchSize
    ConsumeBatch,     \* consumeMessageBatchMaxSize
    Threshold,        \* pullThresholdForQueue
    MaxSpan,          \* consumeConcurrentlyMaxSpan
    PullInterval,     \* pullInterval
    ConsumeFromWhere, \* the strategy computePullFromWhere switches on
    IsRetryTopic,     \* whether the queue belongs to the group's retry topic
    OffsetStored,     \* whether the broker holds an offset of the group at the start
    MaxExpired,       \* bound: at most this many messages expire
    MaxCommits,       \* bound: oneway updates in flight at once
    MaxFaults,        \* bound: crashes and changes of subscription in a behaviour
    QueryMayFail,     \* whether a query of the stored offset may time out
    ReplicaLags       \* whether a pull may be served by a replica that lags

ConsumeFromWheres ==
    {"CONSUME_FROM_LAST_OFFSET",
     "CONSUME_FROM_LAST_OFFSET_AND_FROM_MIN_WHEN_BOOT_FIRST",
     "CONSUME_FROM_MAX_OFFSET", "CONSUME_FROM_MIN_OFFSET"}

ASSUME ConstantsAssumption ==
    /\ NoClient \notin Clients /\ NoPQ \notin PQs
    /\ MaxOffset \in Nat /\ Matching \subseteq 0 .. MaxOffset - 1
    /\ PullBatch \in Nat \ {0} /\ ConsumeBatch \in Nat \ {0}
    /\ Threshold \in Nat /\ MaxSpan \in Nat /\ PullInterval \in Nat
    /\ MaxExpired \in Nat /\ MaxCommits \in Nat /\ MaxFaults \in Nat
    /\ ConsumeFromWhere \in ConsumeFromWheres
    /\ IsRetryTopic \in BOOLEAN /\ OffsetStored \in BOOLEAN
    /\ QueryMayFail \in BOOLEAN /\ ReplicaLags \in BOOLEAN

VARIABLES
    minOffset, maxOffset,   \* the messages the broker stores: minOffset .. maxOffset-1
    brokerOffset,           \* the group's consume offset on the broker, -1 if none
    commits,                \* offsets of oneway updates on their way to the broker
    faults,                 \* crashes and changes of subscription so far
    finished,               \* history: messages acknowledged or stored again by the broker
    vanished,               \* history: messages the fallback send lost and reported as sent
    subscribed,             \* client -> the topic is in m_subscriptionInner
    processQueueTable,      \* client -> its ProcessQueue for the queue, or NoPQ
    offsetTable,            \* client -> its m_offsetTable entry, -1 if there is none
    rebalance,              \* client -> where its rebalance thread stands
    owner,                  \* ProcessQueue -> the client whose memory holds it
    dropped, msgTreeMap, queueOffsetMax, msgCount,  \* fields of ProcessQueue
    nextOffset,             \* the PullRequest's m_nextOffset
    pull,                   \* where the PullRequest is
    pullCommit,             \* the commit offset carried by the pull in flight, -1 if none
    reply,                  \* the broker's reply in flight
    work,                   \* requests in the consume executor's queue
    timer,                  \* requests waiting in m_scheduledExecutorService
    task                    \* consume thread -> the request it runs

brokerVars == <<minOffset, maxOffset, faults>>
clientVars == <<subscribed, processQueueTable, rebalance>>
pqVars     == <<owner, dropped, msgTreeMap, queueOffsetMax, msgCount>>
pullVars   == <<nextOffset, pull, pullCommit, reply>>
workVars   == <<work, timer, task>>
vars == <<brokerVars, brokerOffset, commits, finished, vanished, clientVars, offsetTable,
          pqVars, pullVars, workVars>>

(***************************************************************************)
(* Offsets.  LongMax stands for LLONG_MAX: past every offset of the queue. *)
(***************************************************************************)
LongMax   == MaxOffset + 1
NoOffset  == -1
Messages  == 0 .. MaxOffset - 1
Offsets   == 0 .. LongMax
OffsetOrNone == Offsets \cup {NoOffset}

Least(S)   == CHOOSE x \in S : \A y \in S : x <= y
Greatest(S) == CHOOSE x \in S : \A y \in S : x >= y

\* The position of o in the offset-ordered list of the messages S.
Position(S, o) == Cardinality({x \in S : x < o})

NoReply == [status |-> "none", next |-> 0, msgs |-> {}, min |-> 0, max |-> 0]
NoTask  == [pc |-> "idle", pq |-> NoPQ, msgs |-> {}, failed |-> {}, off |-> NoOffset]
Idle    == [pc |-> "idle", pq |-> NoPQ, off |-> NoOffset]

Requests   == [pq : PQs, msgs : SUBSET Messages]
Tasks      == [pc : {"idle", "listener", "back", "remove", "update"}, pq : PQs \cup {NoPQ},
               msgs : SUBSET Messages, failed : SUBSET Messages, off : OffsetOrNone]
Rebalances == [pc : {"idle", "drop", "remove", "answered", "add"}, pq : PQs \cup {NoPQ},
               off : OffsetOrNone]
PullReplies == [status : {"none", "FOUND", "NO_NEW_MSG", "NO_MATCHED_MSG", "OFFSET_ILLEGAL"},
                next : 0 .. MaxOffset, msgs : SUBSET Messages,
                min : 0 .. MaxOffset, max : 0 .. MaxOffset]

Init ==
    /\ minOffset = 0 /\ maxOffset = 0 /\ faults = 0
    /\ brokerOffset = (IF OffsetStored THEN 0 ELSE -1)
    /\ commits = {} /\ finished = {} /\ vanished = {}
    /\ subscribed = [c \in Clients |-> TRUE]
    /\ processQueueTable = [c \in Clients |-> NoPQ]
    /\ offsetTable = [c \in Clients |-> NoOffset]
    /\ rebalance = [c \in Clients |-> Idle]
    /\ owner = [p \in PQs |-> NoClient]
    /\ dropped = [p \in PQs |-> FALSE]
    /\ msgTreeMap = [p \in PQs |-> {}]
    /\ queueOffsetMax = [p \in PQs |-> 0]
    /\ msgCount = [p \in PQs |-> 0]
    /\ nextOffset = [p \in PQs |-> 0]
    /\ pull = [p \in PQs |-> "none"]
    /\ pullCommit = [p \in PQs |-> NoOffset]
    /\ reply = [p \in PQs |-> NoReply]
    /\ work = {} /\ timer = {}
    /\ task = [w \in Workers |-> NoTask]

(***************************************************************************)
(* The broker's queue: producers append, and old messages expire.          *)
(***************************************************************************)
Produce ==
    /\ maxOffset < MaxOffset
    /\ maxOffset' = maxOffset + 1
    /\ UNCHANGED <<minOffset, faults, brokerOffset, commits, finished, vanished, clientVars,
                   offsetTable, pqVars, pullVars, workVars>>

Expire ==
    /\ minOffset < maxOffset /\ minOffset < MaxExpired
    /\ minOffset' = minOffset + 1
    /\ UNCHANGED <<maxOffset, faults, brokerOffset, commits, finished, vanished, clientVars,
                   offsetTable, pqVars, pullVars, workVars>>

(***************************************************************************)
(* RemoteBrokerOffsetStore.                                                *)
(***************************************************************************)

\* Mutant: increaseOnly is ignored, the last writer wins.
UpdatedOffsetAlways(c, v, increaseOnly) == v

\* The table's entry after updateOffset(mq, v, increaseOnly).
UpdatedOffset(c, v, increaseOnly) ==
    IF offsetTable[c] = NoOffset \/ ~increaseOnly \/ v > offsetTable[c]
    THEN v ELSE offsetTable[c]

updateOffset(c, v, increaseOnly) ==
    offsetTable' = [offsetTable EXCEPT ![c] = UpdatedOffset(c, v, increaseOnly)]

\* What persist(mq) sends: find starts FALSE and is never set, so nothing.
PersistSends(c) ==
    LET find == FALSE
    IN  IF find THEN {offsetTable[c]} \ {NoOffset} ELSE {}

\* persistConsumerOffset collects the keys of the process queue table, then
\* persistAll (under m_tableMutex) sends the entry of a collected queue and
\* erases the entry of any other, unless no queue was collected.  The table is
\* read without its lock while the rebalance thread changes it, so that
\* whether the queue is collected is not determined by the table's state.
PersistAll(c, collected) ==
    /\ Cardinality(commits) < MaxCommits
    /\ commits' = commits \cup (IF collected THEN {offsetTable[c]} \ {NoOffset} ELSE {})
    /\ offsetTable' = [offsetTable EXCEPT ![c] = IF collected THEN offsetTable[c] ELSE NoOffset]
    /\ UNCHANGED <<brokerVars, brokerOffset, finished, vanished, clientVars, pqVars, pullVars,
                   workVars>>

\* A oneway update reaches the broker, or is lost.
DeliverCommit(v) ==
    /\ v \in commits
    /\ commits' = commits \ {v}
    /\ brokerOffset' \in {v, brokerOffset}
    /\ UNCHANGED <<brokerVars, finished, vanished, clientVars, offsetTable, pqVars, pullVars,
                   workVars>>

(***************************************************************************)
(* The rebalance thread of client c.  Which clients own the queue is up to *)
(* the allocation, which two clients may compute from different views.     *)
(***************************************************************************)

\* updateProcessQueueTableInRebalance erases the queue under the table's lock,
\* then marks it dropped, then persists and removes its offset.
EraseProcessQueue(c) ==
    /\ rebalance[c].pc = "idle" /\ subscribed[c] /\ processQueueTable[c] # NoPQ
    /\ rebalance' = [rebalance EXCEPT ![c] =
                        [pc |-> "drop", pq |-> processQueueTable[c], off |-> NoOffset]]
    /\ processQueueTable' = [processQueueTable EXCEPT ![c] = NoPQ]
    /\ UNCHANGED <<brokerVars, brokerOffset, commits, finished, vanished, subscribed,
                   offsetTable, pqVars, pullVars, workVars>>

SetDropped(c) ==
    /\ rebalance[c].pc = "drop"
    /\ dropped' = [dropped EXCEPT ![rebalance[c].pq] = TRUE]
    /\ rebalance' = [rebalance EXCEPT ![c] = [Idle EXCEPT !.pc = "remove"]]
    /\ UNCHANGED <<brokerVars, brokerOffset, commits, finished, vanished, subscribed,
                   processQueueTable, offsetTable, owner, msgTreeMap, queueOffsetMax, msgCount,
                   pullVars, workVars>>

RemoveUnnecessaryMessageQueue(c) ==
    /\ rebalance[c].pc = "remove"
    /\ commits' = commits \cup PersistSends(c)
    /\ offsetTable' = [offsetTable EXCEPT ![c] = NoOffset]
    /\ rebalance' = [rebalance EXCEPT ![c] = Idle]
    /\ UNCHANGED <<brokerVars, brokerOffset, finished, vanished, subscribed, processQueueTable,
                   pqVars, pullVars, workVars>>

\* truncateMessageQueueNotMyTopic, under the table's lock; the offset stays.
TruncateMessageQueueNotMyTopic(c) ==
    /\ rebalance[c].pc = "idle" /\ ~subscribed[c] /\ processQueueTable[c] # NoPQ
    /\ dropped' = [dropped EXCEPT ![processQueueTable[c]] = TRUE]
    /\ processQueueTable' = [processQueueTable EXCEPT ![c] = NoPQ]
    /\ UNCHANGED <<brokerVars, brokerOffset, commits, finished, vanished, subscribed,
                   rebalance, offsetTable, owner, msgTreeMap, queueOffsetMax, msgCount,
                   pullVars, workVars>>

\* Where computePullFromWhere starts when the store has no offset.
BootOffset ==
    IF \/ ConsumeFromWhere = "CONSUME_FROM_MAX_OFFSET"
       \/ ConsumeFromWhere = "CONSUME_FROM_LAST_OFFSET" /\ ~IsRetryTopic
    THEN LongMax ELSE 0

ReadsStore ==
    ConsumeFromWhere \in {"CONSUME_FROM_LAST_OFFSET",
                          "CONSUME_FROM_LAST_OFFSET_AND_FROM_MIN_WHEN_BOOT_FIRST"}

\* queryConsumerOffset: the stored offset; -1 when there is none, and also when
\* the call times out, the broker answers with an error or its address is unknown.
QueryAnswers == {brokerOffset} \cup (IF QueryMayFail THEN {NoOffset} ELSE {})

ComputePullFromWhere(c) ==
    /\ rebalance[c].pc = "idle" /\ subscribed[c] /\ processQueueTable[c] = NoPQ
    /\ \E v \in QueryAnswers :
          rebalance' = [rebalance EXCEPT ![c] =
                           IF ReadsStore THEN [pc |-> "answered", pq |-> NoPQ, off |-> v]
                           ELSE [pc |-> "add", pq |-> NoPQ, off |-> BootOffset]]
    /\ UNCHANGED <<brokerVars, brokerOffset, commits, finished, vanished, subscribed,
                   processQueueTable, offsetTable, pqVars, pullVars, workVars>>

\* readOffset(READ_FROM_STORE) caches an offset it got.
ReadOffset(c) ==
    /\ rebalance[c].pc = "answered"
    /\ IF rebalance[c].off >= 0
       THEN updateOffset(c, rebalance[c].off, FALSE)
       ELSE UNCHANGED offsetTable
    /\ rebalance' = [rebalance EXCEPT ![c] =
                        [pc |-> "add", pq |-> NoPQ,
                         off |-> IF rebalance[c].off >= 0 THEN rebalance[c].off ELSE BootOffset]]
    /\ UNCHANGED <<brokerVars, brokerOffset, commits, finished, vanished, subscribed,
                   processQueueTable, pqVars, pullVars, workVars>>

\* A new ProcessQueue enters the table and its PullRequest is dispatched.
AddProcessQueue(c, p) ==
    /\ rebalance[c].pc = "add" /\ owner[p] = NoClient
    /\ owner' = [owner EXCEPT ![p] = c]
    /\ nextOffset' = [nextOffset EXCEPT ![p] = rebalance[c].off]
    /\ pull' = [pull EXCEPT ![p] = "queued"]
    /\ processQueueTable' = [processQueueTable EXCEPT ![c] = p]
    /\ rebalance' = [rebalance EXCEPT ![c] = Idle]
    /\ UNCHANGED <<brokerVars, brokerOffset, commits, finished, vanished, subscribed,
                   offsetTable, dropped, msgTreeMap, queueOffsetMax, msgCount, pullCommit,
                   reply, workVars>>

\* subscribe and unsubscribe, called by the application.
ChangeSubscription(c) ==
    /\ faults < MaxFaults /\ faults' = faults + 1
    /\ subscribed' = [subscribed EXCEPT ![c] = ~subscribed[c]]
    /\ UNCHANGED <<minOffset, maxOffset, brokerOffset, commits, finished, vanished,
                   processQueueTable, rebalance, offsetTable, pqVars, pullVars, workVars>>

(***************************************************************************)
(* Pulling.  "queued": in PullMessageService's queue; "sent" and "replied":*)
(* in flight; "parked": given to executePullRequestLater, whose timer      *)
(* thread is never started, so that no step takes the request out again.   *)
(***************************************************************************)
Span(p) ==
    IF msgTreeMap[p] = {} THEN 0 ELSE Greatest(msgTreeMap[p]) - Least(msgTreeMap[p])

FlowControlled(p) == msgCount[p] > Threshold \/ Span(p) > MaxSpan

PullDropped(p) ==
    /\ pull[p] = "queued" /\ dropped[p]
    /\ pull' = [pull EXCEPT ![p] = "none"]
    /\ UNCHANGED <<brokerVars, brokerOffset, commits, finished, vanished, clientVars,
                   offsetTable, pqVars, nextOffset, pullCommit, reply, workVars>>

\* Flow control, no subscription, or (in either state) a consumer that is
\* suspended or not running, or a pullKernelImpl that throws.
PullLater(p) ==
    /\ pull[p] = "queued" /\ ~dropped[p]
    /\ pull' = [pull EXCEPT ![p] = "parked"]
    /\ UNCHANGED <<brokerVars, brokerOffset, commits, finished, vanished, clientVars,
                   offsetTable, pqVars, nextOffset, pullCommit, reply, workVars>>

PullKernel(p) ==
    /\ pull[p] = "queued" /\ ~dropped[p] /\ ~FlowControlled(p) /\ subscribed[owner[p]]
    /\ pull' = [pull EXCEPT ![p] = "sent"]
    /\ pullCommit' = [pullCommit EXCEPT ![p] =
                         IF offsetTable[owner[p]] > 0 THEN offsetTable[owner[p]] ELSE NoOffset]
    /\ UNCHANGED <<brokerVars, brokerOffset, commits, finished, vanished, clientVars,
                   offsetTable, pqVars, nextOffset, reply, workVars>>

\* The broker's answers to a pull at offset n, when the replica that serves it
\* holds the offsets lo .. hi-1 of the queue.  min and max are kept only where
\* the client reads them.
Replies(n, lo, hi) ==
    IF n < lo \/ n > hi
    THEN {[status |-> "OFFSET_ILLEGAL", next |-> 0, msgs |-> {}, min |-> lo, max |-> hi]}
    ELSE IF n = hi
    THEN {[status |-> "NO_NEW_MSG", next |-> n, msgs |-> {}, min |-> 0, max |-> 0]}
    ELSE {[status |-> s, next |-> m, msgs |-> Matching \cap n .. m - 1, min |-> 0, max |-> 0] :
             s \in {"FOUND", "NO_MATCHED_MSG"},
             m \in {i \in n + 1 .. hi : i <= n + PullBatch}}

\* NO_MATCHED_MSG only where the broker's own filter leaves nothing; a FOUND
\* reply may still hold nothing after processPullResult filters it again.  A
\* pull that pullKernelImpl sends to a slave carries no commit offset.
BrokerPull(p) ==
    \E slave \in (IF ReplicaLags THEN BOOLEAN ELSE {FALSE}) :
       /\ pull[p] = "sent"
       /\ pull' = [pull EXCEPT ![p] = "replied"]
       /\ \E hi \in (IF slave THEN minOffset .. maxOffset ELSE {maxOffset}) :
             \E r \in Replies(nextOffset[p], minOffset, hi) :
                /\ r.status = "NO_MATCHED_MSG" => r.msgs = {}
                /\ reply' = [reply EXCEPT ![p] = r]
       /\ brokerOffset' = IF pullCommit[p] # NoOffset /\ ~slave
                          THEN pullCommit[p] ELSE brokerOffset
       /\ pullCommit' = [pullCommit EXCEPT ![p] = NoOffset]
       /\ UNCHANGED <<brokerVars, commits, finished, vanished, clientVars, offsetTable, pqVars,
                      nextOffset, workVars>>

\* The list msgs of a process queue cut into requests of ConsumeBatch messages.
\* The request made from an empty list changes nothing and is left out.
Batches(msgs) ==
    {{o \in msgs : Position(msgs, o) \div ConsumeBatch = Position(msgs, x) \div ConsumeBatch} :
        x \in msgs}

submitConsumeRequest(p, msgs) == {[pq |-> p, msgs |-> b] : b \in Batches(msgs)}

\* putMessage, under the tree's lock.
PutMessage(p, msgs) ==
    /\ msgTreeMap' = [msgTreeMap EXCEPT ![p] = msgTreeMap[p] \cup msgs]
    /\ queueOffsetMax' = [queueOffsetMax EXCEPT ![p] =
                             IF msgs = {} THEN queueOffsetMax[p] ELSE Greatest(msgs)]
    /\ msgCount' = [msgCount EXCEPT ![p] = msgCount[p] + Cardinality(msgs)]

\* onSuccess, FOUND: putMessage, submitConsumeRequest, pull again.
OnFound(p) ==
    /\ pull[p] = "replied" /\ reply[p].status = "FOUND"
    /\ nextOffset' = [nextOffset EXCEPT ![p] = reply[p].next]
    /\ PutMessage(p, reply[p].msgs)
    /\ work' = work \cup submitConsumeRequest(p, reply[p].msgs)
    /\ pull' = [pull EXCEPT ![p] = IF PullInterval > 0 THEN "parked" ELSE "queued"]
    /\ reply' = [reply EXCEPT ![p] = NoReply]
    /\ UNCHANGED <<brokerVars, brokerOffset, commits, finished, vanished, clientVars,
                   offsetTable, owner, dropped, pullCommit, timer, task>>

\* Mutant: correctTagsOffset does not look at the messages still being consumed.
CorrectTagsOffsetAlways(p, next) == updateOffset(owner[p], next, TRUE)

\* correctTagsOffset, with the PullRequest's new offset.
CorrectTagsOffset(p, next) ==
    IF msgCount[p] = 0 THEN updateOffset(owner[p], next, TRUE) ELSE UNCHANGED offsetTable

\* onSuccess, NO_NEW_MSG, with correctTagsOffset.
OnNoNewMsg(p) ==
    /\ pull[p] = "replied" /\ reply[p].status = "NO_NEW_MSG"
    /\ nextOffset' = [nextOffset EXCEPT ![p] = reply[p].next]
    /\ CorrectTagsOffset(p, reply[p].next)
    /\ pull' = [pull EXCEPT ![p] = "queued"]
    /\ reply' = [reply EXCEPT ![p] = NoReply]
    /\ UNCHANGED <<brokerVars, brokerOffset, commits, finished, vanished, clientVars, pqVars,
                   pullCommit, workVars>>

OnNoMatchedMsg(p) ==
    /\ pull[p] = "replied" /\ reply[p].status = "NO_MATCHED_MSG"
    /\ nextOffset' = [nextOffset EXCEPT ![p] = reply[p].next]
    /\ pull' = [pull EXCEPT ![p] = "queued"]
    /\ reply' = [reply EXCEPT ![p] = NoReply]
    /\ UNCHANGED <<brokerVars, brokerOffset, commits, finished, vanished, clientVars,
                   offsetTable, pqVars, pullCommit, workVars>>

\* onSuccess without messages: the offset is corrected only at the queue's end.
OnNoMsg(p) == IF reply[p].status = "NO_NEW_MSG" THEN OnNoNewMsg(p) ELSE OnNoMatchedMsg(p)

\* onSuccess, OFFSET_ILLEGAL: the request moves into the broker's range and
\* the offset table is set to it, up or down.
FixedOffset(p) ==
    IF nextOffset[p] < reply[p].min THEN reply[p].min
    ELSE IF nextOffset[p] > reply[p].max THEN reply[p].max ELSE nextOffset[p]

OnOffsetIllegal(p) ==
    /\ pull[p] = "replied" /\ reply[p].status = "OFFSET_ILLEGAL"
    /\ nextOffset' = [nextOffset EXCEPT ![p] = FixedOffset(p)]
    /\ updateOffset(owner[p], FixedOffset(p), FALSE)
    /\ pull' = [pull EXCEPT ![p] = "queued"]
    /\ reply' = [reply EXCEPT ![p] = NoReply]
    /\ UNCHANGED <<brokerVars, brokerOffset, commits, finished, vanished, clientVars, pqVars,
                   pullCommit, workVars>>

\* onException: the send fails, the connection closes or the broker answers
\* with an error.  The commit offset of a failed pull may still reach the broker.
OnException(p) ==
    /\ pull[p] \in {"sent", "replied"}
    /\ pull' = [pull EXCEPT ![p] = "parked"]
    /\ reply' = [reply EXCEPT ![p] = NoReply]
    /\ commits' = commits \cup ({pullCommit[p]} \ {NoOffset})
    /\ pullCommit' = [pullCommit EXCEPT ![p] = NoOffset]
    /\ UNCHANGED <<brokerVars, brokerOffset, finished, vanished, clientVars, offsetTable,
                   pqVars, nextOffset, workVars>>

(***************************************************************************)
(* Consuming.  A consume thread's steps: "listener" (the listener runs),   *)
(* "back" (failed messages go back to the broker), "remove" (removeMessage)*)
(* and "update" (updateOffset).                                            *)
(***************************************************************************)

Task(pc, p, msgs, failed, off) ==
    [pc |-> pc, pq |-> p, msgs |-> msgs, failed |-> failed, off |-> off]

\* ConsumeConcurrentlyRequest::Do on a dropped queue deletes the request and
\* leaves its messages in the tree.
DiscardRequest(r) ==
    /\ r \in work /\ dropped[r.pq]
    /\ work' = work \ {r}
    /\ UNCHANGED <<brokerVars, brokerOffset, commits, finished, vanished, clientVars,
                   offsetTable, pqVars, pullVars, timer, task>>

StartRequest(w, r) ==
    /\ task[w].pc = "idle" /\ r \in work /\ ~dropped[r.pq]
    /\ work' = work \ {r}
    /\ task' = [task EXCEPT ![w] = Task("listener", r.pq, r.msgs, {}, NoOffset)]
    /\ UNCHANGED <<brokerVars, brokerOffset, commits, finished, vanished, clientVars,
                   offsetTable, pqVars, pullVars, timer>>

\* The listener returns: the first k messages are acknowledged.  k = 0 is
\* RECONSUME_LATER and an exception; CONSUME_SUCCESS acknowledges up to ackIndex.
ConsumeMessage(w, k) ==
    LET failed == {o \in task[w].msgs : Position(task[w].msgs, o) >= k}
    IN  /\ task[w].pc = "listener" /\ k <= Cardinality(task[w].msgs)
        /\ finished' = finished \cup (task[w].msgs \ failed)
        /\ task' = [task EXCEPT ![w] =
                       Task("back", task[w].pq, task[w].msgs, failed, NoOffset)]
        /\ UNCHANGED <<brokerVars, brokerOffset, commits, vanished, clientVars, offsetTable,
                       pqVars, pullVars, work, timer>>

\* sendMessageBack of each message of failed.  Where consumerSendMessageBack
\* throws, a copy is sent with the factory's inner producer: the broker stores
\* that one, or send throws (kept), or no broker answers and send returns
\* SEND_OK all the same (gone).
sendMessageBack(failed, kept, gone) == kept \subseteq failed /\ gone \subseteq failed \ kept

\* Mutant: messages that could not be sent back stay in the request too.
SendMessageBackKeepsFailed(w, kept, gone) ==
    /\ task[w].pc = "back" /\ sendMessageBack(task[w].failed, kept, gone)
    /\ finished' = finished \cup (task[w].failed \ (kept \cup gone))
    /\ vanished' = vanished \cup gone
    /\ timer' = timer \cup (IF kept = {} THEN {} ELSE {[pq |-> task[w].pq, msgs |-> kept]})
    /\ task' = [task EXCEPT ![w] = Task("remove", task[w].pq, task[w].msgs, {}, NoOffset)]
    /\ UNCHANGED <<brokerVars, brokerOffset, commits, clientVars, offsetTable, pqVars,
                   pullVars, work>>

\* Mutant: messages that could not be sent back are not submitted again.
SendMessageBackGivesUp(w, kept, gone) ==
    /\ task[w].pc = "back" /\ sendMessageBack(task[w].failed, kept, gone)
    /\ finished' = finished \cup (task[w].failed \ (kept \cup gone))
    /\ vanished' = vanished \cup gone
    /\ task' = [task EXCEPT ![w] =
                   Task("remove", task[w].pq, task[w].msgs \ kept, {}, NoOffset)]
    /\ UNCHANGED <<brokerVars, brokerOffset, commits, clientVars, offsetTable, pqVars,
                   pullVars, work, timer>>

\* Each failed message is sent back to the broker, which stores it in the
\* retry topic; the ones it could not be sent back for leave the request and
\* are submitted again later.
SendMessageBack(w, kept, gone) ==
    /\ task[w].pc = "back" /\ sendMessageBack(task[w].failed, kept, gone)
    /\ finished' = finished \cup (task[w].failed \ (kept \cup gone))
    /\ vanished' = vanished \cup gone
    /\ timer' = timer \cup (IF kept = {} THEN {} ELSE {[pq |-> task[w].pq, msgs |-> kept]})
    /\ task' = [task EXCEPT ![w] =
                   Task("remove", task[w].pq, task[w].msgs \ kept, {}, NoOffset)]
    /\ UNCHANGED <<brokerVars, brokerOffset, commits, clientVars, offsetTable, pqVars,
                   pullVars, work>>

\* Mutant: the offset past the last message put, whatever is left in the tree.
RemoveResultIgnoresTree(p, msgs) ==
    IF msgTreeMap[p] = {} THEN NoOffset ELSE queueOffsetMax[p] + 1

\* removeMessage, under the tree's lock.
RemoveResult(p, msgs) ==
    IF msgTreeMap[p] = {} THEN NoOffset
    ELSE IF msgTreeMap[p] \ msgs = {} THEN queueOffsetMax[p] + 1
    ELSE Least(msgTreeMap[p] \ msgs)

\* Mutant: a removal counts as one message, whatever the size of the batch.
RemoveMessageCountsOne(w) ==
    LET p == task[w].pq
    IN  /\ task[w].pc = "remove"
        /\ msgTreeMap' = [msgTreeMap EXCEPT ![p] = msgTreeMap[p] \ task[w].msgs]
        /\ msgCount' = [msgCount EXCEPT ![p] = msgCount[p] - 1]
        /\ task' = [task EXCEPT ![w] =
                       Task("update", p, {}, {}, RemoveResult(p, task[w].msgs))]
        /\ UNCHANGED <<brokerVars, brokerOffset, commits, finished, vanished, clientVars,
                       offsetTable, owner, dropped, queueOffsetMax, pullVars, work, timer>>

RemoveMessage(w) ==
    LET p == task[w].pq
    IN  /\ task[w].pc = "remove"
        /\ msgTreeMap' = [msgTreeMap EXCEPT ![p] = msgTreeMap[p] \ task[w].msgs]
        /\ msgCount' = [msgCount EXCEPT ![p] =
                           IF msgTreeMap[p] = {} THEN msgCount[p]
                           ELSE msgCount[p] - Cardinality(task[w].msgs)]
        /\ task' = [task EXCEPT ![w] =
                       Task("update", p, {}, {}, RemoveResult(p, task[w].msgs))]
        /\ UNCHANGED <<brokerVars, brokerOffset, commits, finished, vanished, clientVars,
                       offsetTable, owner, dropped, queueOffsetMax, pullVars, work, timer>>

\* updateOffset with increaseOnly, whether or not the queue was dropped meanwhile.
UpdateOffset(w) ==
    /\ task[w].pc = "update"
    /\ IF task[w].off >= 0
       THEN updateOffset(owner[task[w].pq], task[w].off, TRUE)
       ELSE UNCHANGED offsetTable
    /\ task' = [task EXCEPT ![w] = NoTask]
    /\ UNCHANGED <<brokerVars, brokerOffset, commits, finished, vanished, clientVars, pqVars,
                   pullVars, work, timer>>

\* The timer submits a request of messages that could not be sent back.
OnTimeOut(r) ==
    /\ r \in timer
    /\ timer' = timer \ {r}
    /\ work' = work \cup submitConsumeRequest(r.pq, r.msgs)
    /\ UNCHANGED <<brokerVars, brokerOffset, commits, finished, vanished, clientVars,
                   offsetTable, pqVars, pullVars, task>>

(***************************************************************************)
(* A client process dies: everything in its memory is gone.  Calls already *)
(* sent stay on their way, and a new process may take its place.           *)
(***************************************************************************)
Crash(c) ==
    LET Gone(p) == owner[p] = c
        Reset(f, v) == [p \in PQs |-> IF Gone(p) THEN v ELSE f[p]]
    IN  /\ faults < MaxFaults /\ faults' = faults + 1
        /\ subscribed' = [subscribed EXCEPT ![c] = TRUE]
        /\ processQueueTable' = [processQueueTable EXCEPT ![c] = NoPQ]
        /\ rebalance' = [rebalance EXCEPT ![c] = Idle]
        /\ offsetTable' = [offsetTable EXCEPT ![c] = NoOffset]
        /\ commits' = commits \cup ({pullCommit[p] : p \in {q \in PQs : Gone(q)}} \ {NoOffset})
        /\ owner' = Reset(owner, NoClient)
        /\ dropped' = Reset(dropped, FALSE)
        /\ msgTreeMap' = Reset(msgTreeMap, {})
        /\ queueOffsetMax' = Reset(queueOffsetMax, 0)
        /\ msgCount' = Reset(msgCount, 0)
        /\ nextOffset' = Reset(nextOffset, 0)
        /\ pull' = Reset(pull, "none")
        /\ pullCommit' = Reset(pullCommit, NoOffset)
        /\ reply' = Reset(reply, NoReply)
        /\ work' = {r \in work : ~Gone(r.pq)}
        /\ timer' = {r \in timer : ~Gone(r.pq)}
        /\ task' = [w \in Workers |->
                       IF task[w].pc # "idle" /\ Gone(task[w].pq) THEN NoTask ELSE task[w]]
        /\ UNCHANGED <<minOffset, maxOffset, brokerOffset, finished, vanished>>

Next ==
    \/ Produce \/ Expire
    \/ \E v \in commits : DeliverCommit(v)
    \/ \E c \in Clients :
          \/ EraseProcessQueue(c) \/ SetDropped(c) \/ RemoveUnnecessaryMessageQueue(c)
          \/ TruncateMessageQueueNotMyTopic(c)
          \/ ComputePullFromWhere(c) \/ ReadOffset(c) \/ \E p \in PQs : AddProcessQueue(c, p)
          \/ ChangeSubscription(c)
          \/ \E collected \in BOOLEAN : PersistAll(c, collected)
          \/ Crash(c)
    \/ \E p \in PQs :
          \/ PullDropped(p) \/ PullLater(p) \/ PullKernel(p) \/ BrokerPull(p)
          \/ OnFound(p) \/ OnNoMsg(p) \/ OnOffsetIllegal(p) \/ OnException(p)
    \/ \E r \in work : DiscardRequest(r) \/ \E w \in Workers : StartRequest(w, r)
    \/ \E w \in Workers :
          \/ \E k \in 0 .. Cardinality(task[w].msgs) : ConsumeMessage(w, k)
          \/ \E kept, gone \in SUBSET task[w].failed : SendMessageBack(w, kept, gone)
          \/ RemoveMessage(w) \/ UpdateOffset(w)
    \/ \E r \in timer : OnTimeOut(r)

Spec == Init /\ [][Next]_vars

-----------------------------------------------------------------------------
TypeOK ==
    /\ faults \in 0 .. MaxFaults
    /\ minOffset \in 0 .. MaxOffset /\ maxOffset \in 0 .. MaxOffset
    /\ brokerOffset \in OffsetOrNone
    /\ commits \subseteq Offsets
    /\ finished \subseteq Messages /\ vanished \subseteq Messages
    /\ subscribed \in [Clients -> BOOLEAN]
    /\ processQueueTable \in [Clients -> PQs \cup {NoPQ}]
    /\ offsetTable \in [Clients -> OffsetOrNone]
    /\ rebalance \in [Clients -> Rebalances]
    /\ \A c \in Clients : rebalance[c].pc = "add" => rebalance[c].off \in Offsets
    /\ owner \in [PQs -> Clients \cup {NoClient}]
    /\ dropped \in [PQs -> BOOLEAN]
    /\ msgTreeMap \in [PQs -> SUBSET Messages]
    /\ queueOffsetMax \in [PQs -> 0 .. MaxOffset]
    /\ msgCount \in [PQs -> Int]
    /\ nextOffset \in [PQs -> Offsets]
    /\ pull \in [PQs -> {"none", "queued", "sent", "replied", "parked"}]
    /\ pullCommit \in [PQs -> OffsetOrNone]
    /\ reply \in [PQs -> PullReplies]
    /\ work \subseteq Requests /\ timer \subseteq Requests
    /\ task \in [Workers -> Tasks]

\* Whose memory each object is in: a PullRequest, a request or a task in use
\* belongs to a ProcessQueue of some client; a client's table and rebalance
\* thread refer to its own ProcessQueues; a ProcessQueue of no client is fresh.
MemoryOK ==
    /\ \A p \in PQs : pull[p] # "none" => owner[p] \in Clients
    /\ \A p \in PQs : pull[p] # "replied" => reply[p] = NoReply
    /\ \A r \in work \cup timer : owner[r.pq] \in Clients
    /\ \A w \in Workers :
          IF task[w].pc = "idle" THEN task[w] = NoTask
          ELSE task[w].pq \in PQs /\ owner[task[w].pq] \in Clients
    /\ \A c \in Clients : processQueueTable[c] # NoPQ =>
          owner[processQueueTable[c]] = c /\ ~dropped[processQueueTable[c]]
    /\ \A c \in Clients : rebalance[c].pc = "drop" =>
          rebalance[c].pq \in PQs /\ owner[rebalance[c].pq] = c
    /\ \A c \in Clients : rebalance[c].pc # "idle" => processQueueTable[c] = NoPQ
    /\ \A p \in PQs : owner[p] \notin Clients =>
          ~dropped[p] /\ msgTreeMap[p] = {} /\ msgCount[p] = 0

\* The messages that no longer need to be consumed, and the ones that the
\* client takes for stored again although nothing was stored.
Done == finished \cup vanished \cup {o \in Messages : o < minOffset}

\* At-least-once: the offset the broker holds for the group never passes a
\* message of the subscription that is neither acknowledged by a listener, nor
\* stored again in the retry topic, nor expired; wherever a client restarts
\* from that offset, no message is skipped.  The one way to lose a message is
\* the send that replaces a failed consumerSendMessageBack and reports SEND_OK
\* without an answer.
AtLeastOnce == \A o \in Matching : o < brokerOffset => o \in Done

\* No message of a ProcessQueue is held by two requests, be they queued,
\* waiting for the timer or running.
NoMessageShared ==
    /\ work \cap timer = {}
    /\ \A r, s \in work \cup timer : r.pq = s.pq /\ r.msgs \cap s.msgs # {} => r = s
    /\ \A w \in Workers, r \in work \cup timer :
          task[w].pq = r.pq => task[w].msgs \cap r.msgs = {}
    /\ \A v, w \in Workers :
          task[v].pq = task[w].pq /\ task[v].msgs \cap task[w].msgs # {} => v = w

\* A message that a request holds has not left the tree, and so not been deleted.
NoMessageFreed ==
    /\ \A r \in work \cup timer : r.msgs \subseteq msgTreeMap[r.pq]
    /\ \A w \in Workers : task[w].msgs # {} => task[w].msgs \subseteq msgTreeMap[task[w].pq]

\* A message in the tree of a ProcessQueue that is not dropped is held by a
\* request: it will be consumed, and the offset can pass it.
NoMessageForgotten ==
    \A p \in PQs : ~dropped[p] =>
       \A o \in msgTreeMap[p] :
          \/ \E r \in work \cup timer : r.pq = p /\ o \in r.msgs
          \/ \E w \in Workers : task[w].pq = p /\ o \in task[w].msgs

\* Every message in the tree of a live ProcessQueue is held by exactly one
\* request, through batching, failed send-backs, timers and crashes: none is
\* forgotten, and none is handed out or deleted twice.
HeldOnce == NoMessageShared /\ NoMessageFreed /\ NoMessageForgotten

\* m_msgCount, which flow control and correctTagsOffset read, is the size of
\* the tree, which putMessage and removeMessage change.
CountMatches == \A p \in PQs : msgCount[p] = Cardinality(msgTreeMap[p])

\* While a client keeps a queue, consume threads that finish out of order and
\* correctTagsOffset never move the queue's entry in the offset table backwards:
\* only the broker's OFFSET_ILLEGAL, possibly to a pull of an earlier
\* ProcessQueue, does.
OffsetNeverRegresses ==
    [][\A c \in Clients :
          /\ processQueueTable[c] # NoPQ /\ processQueueTable'[c] = processQueueTable[c]
          /\ offsetTable[c] # NoOffset /\ offsetTable'[c] # NoOffset
          /\ offsetTable'[c] < offsetTable[c]
          => \E p \in PQs : /\ owner[p] = c /\ reply[p].status = "OFFSET_ILLEGAL"
                            /\ reply'[p] = NoReply]_vars

\* computePullFromWhere starts at the end of the queue only for a group that has
\* no offset on the broker, "the first start".
FirstBootOnly ==
    \A c \in Clients : rebalance[c].pc = "add" /\ rebalance[c].off = LongMax => ~OffsetStored

-----------------------------------------------------------------------------
(***************************************************************************)
(* The inductive strengthening of the invariants above.                    *)
(***************************************************************************)

\* Where the PullRequest stands: past every message of the tree, and, with a
\* reply in flight, where the reply will take it.  LongMax only with an empty
\* tree, until the broker's OFFSET_ILLEGAL brings the request into its range.
PullAt(p) ==
    /\ \A o \in msgTreeMap[p] : o < nextOffset[p]
    /\ \/ nextOffset[p] <= maxOffset
       \/ nextOffset[p] = LongMax /\ msgTreeMap[p] = {}
    /\ reply[p].status \in {"FOUND", "NO_MATCHED_MSG"} =>
          /\ nextOffset[p] < reply[p].next /\ reply[p].next <= maxOffset
          /\ reply[p].msgs = {o \in Matching : nextOffset[p] <= o /\ o < reply[p].next}
    /\ reply[p].status = "NO_MATCHED_MSG" => reply[p].msgs = {}
    /\ reply[p].status = "NO_NEW_MSG" =>
          reply[p].next = nextOffset[p] /\ nextOffset[p] <= maxOffset
    /\ reply[p].status = "OFFSET_ILLEGAL" =>
          /\ reply[p].min <= minOffset /\ reply[p].max <= maxOffset
          /\ nextOffset[p] < reply[p].min \/ nextOffset[p] = LongMax

PullOK == minOffset <= maxOffset /\ \A p \in PQs : PullAt(p)

\* No offset but the LongMax of a first start is past the end of the broker's queue.
OffsetsBounded ==
    /\ brokerOffset <= maxOffset
    /\ \A v \in commits : v <= maxOffset
    /\ \A c \in Clients :
          /\ offsetTable[c] <= maxOffset
          /\ \/ rebalance[c].off <= maxOffset
             \/ rebalance[c].pc = "add" /\ rebalance[c].off = LongMax
    /\ \A p \in PQs :
          /\ pullCommit[p] <= maxOffset
          /\ msgTreeMap[p] # {} => queueOffsetMax[p] < maxOffset
    /\ \A w \in Workers : task[w].off <= maxOffset

\* What a consume thread still holds is unfinished only as far as its step says.
TaskOK ==
    \A w \in Workers :
       /\ task[w].failed \subseteq task[w].msgs
       /\ task[w].pc = "back" => task[w].msgs \ task[w].failed \subseteq finished \cup vanished
       /\ task[w].pc = "remove" => task[w].msgs \subseteq finished \cup vanished
       /\ task[w].pc = "update" => task[w].msgs = {}

\* No offset that is stored, cached, pending or in flight passes an unfinished message.
SafeOffset(v) == \A o \in Matching : o < v => o \in Done

OffsetsSafe ==
    /\ SafeOffset(brokerOffset)
    /\ \A v \in commits : SafeOffset(v)
    /\ \A c \in Clients : SafeOffset(offsetTable[c]) /\ SafeOffset(rebalance[c].off)
    /\ \A p \in PQs : SafeOffset(pullCommit[p])
    /\ \A w \in Workers : SafeOffset(task[w].off)

\* Every message below v is done or still in the tree of p.
Covered(p, v) == \A o \in Matching : o < v => o \in Done \/ o \in msgTreeMap[p]

CoverAt(p) ==
    /\ Covered(p, nextOffset[p])
    /\ msgTreeMap[p] # {} => Covered(p, queueOffsetMax[p] + 1)

TreesCover == \A p \in PQs : owner[p] \in Clients => CoverAt(p)
=============================================================================
