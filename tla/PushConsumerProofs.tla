------------------------ MODULE PushConsumerProofs ------------------------
(***************************************************************************)
(* Proofs about PushConsumer, for every number of clients, threads,        *)
(* ProcessQueues and messages: type correctness and the ownership of       *)
(* requests; then, when pulls are served by the master, that the requests  *)
(* hold every message of a live tree exactly once (HeldOnce) and that the  *)
(* count is the tree's size (CountMatches); then at-least-once delivery.   *)
(***************************************************************************)
EXTENDS PushConsumer, FiniteSetTheorems, WellFoundedInduction, TLAPS

\* A strict order on a nonempty finite set has a minimal element: strict
\* inclusion is well-founded on the sets of smaller elements.
LEMMA FiniteOrderHasMinimal ==
    ASSUME NEW S, IsFiniteSet(S), S # {}, NEW R,
           \A x \in S : <<x, x>> \notin R,
           \A x, y, z \in S : <<x, y>> \in R /\ <<y, z>> \in R => <<x, z>> \in R
    PROVE  \E x \in S : \A y \in S : <<y, x>> \notin R
<1> DEFINE D(x) == {y \in S : <<y, x>> \in R}
           T == {D(x) : x \in S}
<1>1. T \subseteq FiniteSubsetsOf(S) /\ T # {}
  <2>1. \A x \in S : D(x) \in SUBSET S /\ IsFiniteSet(D(x))
    BY FS_Subset
  <2>2. \A x \in S : D(x) \in FiniteSubsetsOf(S)
    BY <2>1 DEF FiniteSubsetsOf
  <2> HIDE DEF D
  <2> QED
    BY <2>2
<1>2. PICK d \in T : \A e \in T : ~ (<<e, d>> \in StrictSubsetOrdering(S))
  BY <1>1, WFMin, FS_StrictSubsetOrderingWellFounded
<1>3. PICK x \in S : d = D(x)
  OBVIOUS
<1>4. ASSUME NEW y \in S, <<y, x>> \in R PROVE FALSE
  <2>1. y \in D(x) /\ y \notin D(y) /\ D(y) \subseteq D(x)
    BY <1>4
  <2>2. D(x) \in SUBSET S /\ D(y) \in SUBSET S /\ D(y) # D(x)
    BY <2>1
  <2>3. <<D(y), D(x)>> \in StrictSubsetOrdering(S)
    BY <2>1, <2>2 DEF StrictSubsetOrdering
  <2> QED
    BY <1>2, <1>3, <2>3
<1> QED
  BY <1>4

\* Subsets of the queue's messages are finite sets of integers.
LEMMA MessagesFinite ==
    ASSUME NEW S \in SUBSET Messages
    PROVE  IsFiniteSet(S) /\ Cardinality(S) \in Nat /\ S \subseteq Int
<1>1. IsFiniteSet(Messages)
  BY ConstantsAssumption, FS_Interval DEF Messages
<1>2. IsFiniteSet(S)
  BY <1>1, FS_Subset
<1>3. S \subseteq Int
  BY ConstantsAssumption DEF Messages
<1> QED
  BY <1>2, <1>3, FS_CardinalityType

\* Least is what removeMessage reads with m_msgTreeMap.begin().
LEMMA LeastIsMinimum ==
    ASSUME NEW S \in SUBSET Messages, S # {}
    PROVE  Least(S) \in S /\ \A y \in S : Least(S) <= y
<1> DEFINE R == {ss \in Int \X Int : ss[1] < ss[2]}
<1>1. S \subseteq Int /\ IsFiniteSet(S)
  BY MessagesFinite
<1>2. \A x, y \in S : <<x, y>> \in R <=> x < y
  BY <1>1
<1> HIDE DEF R
<1>3. \A x \in S : <<x, x>> \notin R
  BY <1>1, <1>2
<1>4. \A x, y, z \in S : <<x, y>> \in R /\ <<y, z>> \in R => <<x, z>> \in R
  BY <1>1, <1>2
<1>5. PICK x \in S : \A y \in S : <<y, x>> \notin R
  BY <1>1, <1>3, <1>4, FiniteOrderHasMinimal
<1>6. \A y \in S : ~(y < x)
  BY <1>2, <1>5
<1>7. \A y \in S : x <= y
  BY <1>1, <1>6
<1> QED
  BY <1>7 DEF Least

\* Greatest is the offset putMessage leaves in m_queueOffsetMax.
LEMMA GreatestIsMaximum ==
    ASSUME NEW S \in SUBSET Messages, S # {}
    PROVE  Greatest(S) \in S /\ \A y \in S : Greatest(S) >= y
<1> DEFINE R == {ss \in Int \X Int : ss[1] > ss[2]}
<1>1. S \subseteq Int /\ IsFiniteSet(S)
  BY MessagesFinite
<1>2. \A x, y \in S : <<x, y>> \in R <=> x > y
  BY <1>1
<1> HIDE DEF R
<1>3. \A x \in S : <<x, x>> \notin R
  BY <1>1, <1>2
<1>4. \A x, y, z \in S : <<x, y>> \in R /\ <<y, z>> \in R => <<x, z>> \in R
  BY <1>1, <1>2
<1>5. PICK x \in S : \A y \in S : <<y, x>> \notin R
  BY <1>1, <1>3, <1>4, FiniteOrderHasMinimal
<1>6. \A y \in S : ~(y > x)
  BY <1>2, <1>5
<1>7. \A y \in S : x >= y
  BY <1>1, <1>6
<1> QED
  BY <1>7 DEF Greatest

-----------------------------------------------------------------------------
\* Type correctness.  Every action keeps every variable of the model in its type.

\* The null values of the record types.
LEMMA NullTypes ==
    NoReply \in PullReplies /\ NoTask \in Tasks /\ Idle \in Rebalances
  BY ConstantsAssumption
  DEF NoReply, NoTask, Idle, PullReplies, Tasks, Rebalances, NoOffset, OffsetOrNone

\* The initial state is well typed.
LEMMA InitTypeOK == Init => TypeOK
  BY ConstantsAssumption, NullTypes
  DEF Init, TypeOK, Idle, NoOffset, OffsetOrNone, Offsets, LongMax

\* submitConsumeRequest makes requests of the messages it is given.
LEMMA BatchesOfMessages ==
    ASSUME NEW p \in PQs, NEW S \in SUBSET Messages
    PROVE  submitConsumeRequest(p, S) \subseteq Requests
  BY DEF submitConsumeRequest, Batches, Requests

\* updateOffset stores an offset in the table when it is given one.
LEMMA UpdateKeepsType ==
    ASSUME TypeOK, NEW c, NEW v \in Offsets, NEW i \in BOOLEAN, updateOffset(c, v, i)
    PROVE  offsetTable' \in [Clients -> OffsetOrNone]
  BY DEF TypeOK, updateOffset, UpdatedOffset, OffsetOrNone

\* Actions of the broker and of the offset store.
BrokerNext ==
    \/ Produce \/ Expire \/ \E v \in commits : DeliverCommit(v)
    \/ \E c \in Clients, collected \in BOOLEAN : PersistAll(c, collected)

\* The broker's steps and the persisting timer keep the types.
LEMMA BrokerTypeOK ==
    ASSUME TypeOK, BrokerNext
    PROVE  TypeOK'
<1> USE ConstantsAssumption DEF brokerVars, clientVars, pqVars, pullVars, workVars
<1>1. CASE Produce
  BY <1>1 DEF TypeOK, Produce
<1>2. CASE Expire
  BY <1>2 DEF TypeOK, Expire
<1>3. ASSUME NEW v \in commits, DeliverCommit(v) PROVE TypeOK'
  BY <1>3 DEF TypeOK, DeliverCommit, OffsetOrNone
<1>4. ASSUME NEW c \in Clients, NEW collected \in BOOLEAN, PersistAll(c, collected) PROVE TypeOK'
  BY <1>4 DEF TypeOK, PersistAll, OffsetOrNone, NoOffset
<1> QED
  BY <1>1, <1>2, <1>3, <1>4 DEF BrokerNext

\* Actions of the rebalance thread and of the application.
RebalanceNext(c) ==
    \/ EraseProcessQueue(c) \/ SetDropped(c) \/ RemoveUnnecessaryMessageQueue(c)
    \/ TruncateMessageQueueNotMyTopic(c)
    \/ ComputePullFromWhere(c) \/ ReadOffset(c) \/ \E p \in PQs : AddProcessQueue(c, p)
    \/ ChangeSubscription(c)

\* So do the steps of a rebalance thread.
LEMMA RebalanceTypeOK ==
    ASSUME TypeOK, NEW c \in Clients, RebalanceNext(c)
    PROVE  TypeOK'
<1> USE ConstantsAssumption DEF brokerVars, clientVars, pqVars, pullVars, workVars
<1>1. CASE EraseProcessQueue(c)
  BY <1>1 DEF TypeOK, EraseProcessQueue, Rebalances, NoOffset, OffsetOrNone
<1>2. CASE SetDropped(c)
  BY <1>2 DEF TypeOK, SetDropped, Rebalances, Idle, NoOffset, OffsetOrNone
<1>3. CASE RemoveUnnecessaryMessageQueue(c)
  BY <1>3 DEF TypeOK, RemoveUnnecessaryMessageQueue, PersistSends, Rebalances, Idle,
     NoOffset, OffsetOrNone
<1>4. CASE TruncateMessageQueueNotMyTopic(c)
  BY <1>4 DEF TypeOK, TruncateMessageQueueNotMyTopic
<1>5. CASE ComputePullFromWhere(c)
  <2>1. QueryAnswers \subseteq OffsetOrNone /\ BootOffset \in Offsets
    BY DEF TypeOK, QueryAnswers, OffsetOrNone, NoOffset, BootOffset, Offsets, LongMax
  <2> QED
    BY <1>5, <2>1 DEF TypeOK, ComputePullFromWhere, Rebalances, OffsetOrNone
<1>6. CASE ReadOffset(c)
  <2>1. BootOffset \in Offsets
    BY DEF BootOffset, Offsets, LongMax
  <2>2. rebalance[c].off >= 0 => rebalance[c].off \in Offsets
    BY DEF TypeOK, Rebalances, OffsetOrNone, NoOffset
  <2>3. offsetTable' \in [Clients -> OffsetOrNone]
    BY <1>6, <2>2, UpdateKeepsType DEF ReadOffset, TypeOK
  <2> QED
    BY <1>6, <2>1, <2>2, <2>3 DEF TypeOK, ReadOffset, Rebalances, OffsetOrNone
<1>7. ASSUME NEW p \in PQs, AddProcessQueue(c, p) PROVE TypeOK'
  BY <1>7 DEF TypeOK, AddProcessQueue, Rebalances, Idle, NoOffset, OffsetOrNone
<1>8. CASE ChangeSubscription(c)
  BY <1>8 DEF TypeOK, ChangeSubscription
<1> QED
  BY <1>1, <1>2, <1>3, <1>4, <1>5, <1>6, <1>7, <1>8 DEF RebalanceNext

\* Actions of the pull path.
PullNext(p) ==
    \/ PullDropped(p) \/ PullLater(p) \/ PullKernel(p) \/ BrokerPull(p)
    \/ OnFound(p) \/ OnNoNewMsg(p) \/ OnNoMatchedMsg(p) \/ OnOffsetIllegal(p)
    \/ OnException(p)

\* The two answers without messages exclude each other.
LEMMA NoMsgs == ASSUME NEW p PROVE OnNoMsg(p) <=> OnNoNewMsg(p) \/ OnNoMatchedMsg(p)
<1>1. OnNoMsg(p) => OnNoNewMsg(p) \/ OnNoMatchedMsg(p)
  BY DEF OnNoMsg
<1>2. OnNoNewMsg(p) => OnNoMsg(p)
  <2>1. OnNoNewMsg(p) => reply[p].status = "NO_NEW_MSG"
    BY DEF OnNoNewMsg
  <2>2. QED BY <2>1 DEF OnNoMsg
<1>3. OnNoMatchedMsg(p) => OnNoMsg(p)
  <2>1. OnNoMatchedMsg(p) => reply[p].status # "NO_NEW_MSG"
    BY DEF OnNoMatchedMsg
  <2>2. QED BY <2>1 DEF OnNoMsg
<1>4. QED BY <1>1, <1>2, <1>3

\* So do the steps of a PullRequest.
LEMMA PullTypeOK ==
    ASSUME TypeOK, MemoryOK, NEW p \in PQs, PullNext(p)
    PROVE  TypeOK'
<1> USE ConstantsAssumption DEF brokerVars, clientVars, pqVars, pullVars, workVars
<1>a. /\ reply[p].next \in Offsets /\ FixedOffset(p) \in Offsets
      /\ reply[p].msgs \in SUBSET Messages
  BY DEF TypeOK, PullReplies, FixedOffset, Offsets, LongMax
<1>b. NoReply \in PullReplies
  BY NullTypes
<1>1. CASE PullDropped(p)
  BY <1>1 DEF TypeOK, PullDropped
<1>2. CASE PullLater(p)
  BY <1>2 DEF TypeOK, PullLater
<1>3. CASE PullKernel(p)
  <2>1. offsetTable[owner[p]] > 0 => offsetTable[owner[p]] \in OffsetOrNone
    BY <1>3 DEF TypeOK, MemoryOK, PullKernel
  <2> QED
    BY <1>3, <2>1 DEF TypeOK, PullKernel, OffsetOrNone
<1>4. CASE BrokerPull(p)
  <2>0. PICK slave \in BOOLEAN, hi \in minOffset .. maxOffset \cup {maxOffset} :
           /\ \E r \in Replies(nextOffset[p], minOffset, hi) : reply' = [reply EXCEPT ![p] = r]
           /\ brokerOffset' = IF pullCommit[p] # NoOffset /\ ~slave
                              THEN pullCommit[p] ELSE brokerOffset
    BY <1>4 DEF BrokerPull, TypeOK
  <2>1. PICK r \in Replies(nextOffset[p], minOffset, hi) : reply' = [reply EXCEPT ![p] = r]
    BY <2>0
  <2>2. r \in PullReplies
    <3>1. hi \in 0 .. MaxOffset /\ minOffset \in 0 .. MaxOffset /\ nextOffset[p] \in Nat
      BY DEF TypeOK, Offsets, LongMax
    <3>2. \A S : Matching \cap S \in SUBSET Messages
      BY DEF Messages
    <3> QED
      BY <2>1, <3>1, <3>2 DEF Replies, PullReplies
  <2> QED
    BY <1>4, <2>1, <2>2 DEF TypeOK, BrokerPull, OffsetOrNone, NoOffset
<1>5. CASE OnFound(p)
  <2>1. submitConsumeRequest(p, reply[p].msgs) \subseteq Requests
    BY <1>a, BatchesOfMessages
  <2>2. reply[p].msgs # {} => Greatest(reply[p].msgs) \in 0 .. MaxOffset
    BY <1>a, GreatestIsMaximum DEF Messages
  <2>3. Cardinality(reply[p].msgs) \in Nat
    BY <1>a, MessagesFinite
  <2> QED
    BY <1>5, <1>a, <1>b, <2>1, <2>2, <2>3 DEF TypeOK, OnFound, PutMessage
<1>6. CASE OnNoNewMsg(p)
  <2>1. offsetTable' \in [Clients -> OffsetOrNone]
    BY <1>6, <1>a, UpdateKeepsType DEF OnNoNewMsg, CorrectTagsOffset, TypeOK
  <2> QED
    BY <1>6, <1>a, <1>b, <2>1 DEF TypeOK, OnNoNewMsg, CorrectTagsOffset
<1>7. CASE OnNoMatchedMsg(p)
  BY <1>7, <1>a, <1>b DEF TypeOK, OnNoMatchedMsg
<1>8. CASE OnOffsetIllegal(p)
  <2>1. offsetTable' \in [Clients -> OffsetOrNone]
    BY <1>8, <1>a, UpdateKeepsType DEF OnOffsetIllegal, TypeOK
  <2> QED
    BY <1>8, <1>a, <1>b, <2>1 DEF TypeOK, OnOffsetIllegal
<1>9. CASE OnException(p)
  BY <1>9, <1>b DEF TypeOK, OnException, OffsetOrNone, NoOffset
<1> QED
  BY <1>1, <1>2, <1>3, <1>4, <1>5, <1>6, <1>7, <1>8, <1>9 DEF PullNext

\* Actions of the consume threads and of their timer, and the crash of a client.
ConsumeNext ==
    \/ \E r \in work : DiscardRequest(r) \/ \E w \in Workers : StartRequest(w, r)
    \/ \E w \in Workers :
          \/ \E k \in 0 .. Cardinality(task[w].msgs) : ConsumeMessage(w, k)
          \/ \E kept, gone \in SUBSET task[w].failed : SendMessageBack(w, kept, gone)
          \/ RemoveMessage(w) \/ UpdateOffset(w)
    \/ \E r \in timer : OnTimeOut(r)

\* removeMessage returns an offset, or -1.
LEMMA RemoveResultType ==
    ASSUME TypeOK, NEW p \in PQs, NEW S \in SUBSET Messages
    PROVE  RemoveResult(p, S) \in OffsetOrNone
<1>1. msgTreeMap[p] \ S \in SUBSET Messages
  BY DEF TypeOK
<1>2. msgTreeMap[p] \ S # {} => Least(msgTreeMap[p] \ S) \in Messages
  BY <1>1, LeastIsMinimum
<1>3. queueOffsetMax[p] + 1 \in Offsets
  BY ConstantsAssumption DEF TypeOK, Offsets, LongMax
<1>4. Messages \subseteq Offsets
  BY ConstantsAssumption DEF Messages, Offsets, LongMax
<1> QED
  BY <1>2, <1>3, <1>4 DEF RemoveResult, OffsetOrNone

\* The steps of the consume threads and of their timer keep the types.
LEMMA ConsumeTypeOK ==
    ASSUME TypeOK, MemoryOK, ConsumeNext
    PROVE  TypeOK'
<1> USE ConstantsAssumption DEF brokerVars, clientVars, pqVars, pullVars, workVars
<1>1. ASSUME NEW r \in work, DiscardRequest(r) PROVE TypeOK'
  BY <1>1 DEF TypeOK, DiscardRequest
<1>2. ASSUME NEW r \in work, NEW w \in Workers, StartRequest(w, r) PROVE TypeOK'
  BY <1>2 DEF TypeOK, StartRequest, Task, Tasks, Requests, NoOffset, OffsetOrNone
<1>3. ASSUME NEW w \in Workers, NEW k, ConsumeMessage(w, k) PROVE TypeOK'
  BY <1>3 DEF TypeOK, ConsumeMessage, Task, Tasks, NoOffset, OffsetOrNone
<1>4. ASSUME NEW w \in Workers, NEW kept \in SUBSET task[w].failed,
       NEW gone \in SUBSET task[w].failed, SendMessageBack(w, kept, gone)
      PROVE  TypeOK'
  <2>1. task[w].pq \in PQs /\ kept \in SUBSET Messages
    BY <1>4 DEF MemoryOK, SendMessageBack, TypeOK, Tasks
  <2>2. timer' \subseteq Requests
    BY <1>4, <2>1 DEF TypeOK, SendMessageBack, Requests
  <2>3. task' \in [Workers -> Tasks] /\ (finished \cup vanished)' \subseteq Messages
    BY <1>4, <2>1 DEF TypeOK, SendMessageBack, Task, Tasks, NoOffset, OffsetOrNone
  <2> QED
    BY <1>4, <2>2, <2>3 DEF TypeOK, SendMessageBack
<1>5. ASSUME NEW w \in Workers, RemoveMessage(w) PROVE TypeOK'
  <2>1. task[w].pq \in PQs /\ task[w].msgs \in SUBSET Messages
    BY <1>5 DEF MemoryOK, RemoveMessage, TypeOK, Tasks
  <2>2. Cardinality(task[w].msgs) \in Nat
    BY <2>1, MessagesFinite
  <2>3. RemoveResult(task[w].pq, task[w].msgs) \in OffsetOrNone
    BY <2>1, RemoveResultType
  <2> QED
    BY <1>5, <2>1, <2>2, <2>3 DEF TypeOK, RemoveMessage, Task, Tasks
<1>6. ASSUME NEW w \in Workers, UpdateOffset(w) PROVE TypeOK'
  <2>1. task[w].off >= 0 => task[w].off \in Offsets
    BY DEF TypeOK, Tasks, OffsetOrNone, NoOffset
  <2>2. offsetTable' \in [Clients -> OffsetOrNone]
    BY <1>6, <2>1, UpdateKeepsType DEF UpdateOffset, TypeOK
  <2> QED
    BY <1>6, <2>2, NullTypes DEF TypeOK, UpdateOffset
<1>7. ASSUME NEW r \in timer, OnTimeOut(r) PROVE TypeOK'
  <2>1. submitConsumeRequest(r.pq, r.msgs) \subseteq Requests
    BY BatchesOfMessages DEF TypeOK, Requests
  <2> QED
    BY <1>7, <2>1 DEF TypeOK, OnTimeOut
<1> QED
  BY <1>1, <1>2, <1>3, <1>4, <1>5, <1>6, <1>7 DEF ConsumeNext

\* So does a crash.
LEMMA CrashTypeOK ==
    ASSUME TypeOK, NEW c \in Clients, Crash(c)
    PROVE  TypeOK'
<1> USE ConstantsAssumption DEF brokerVars, clientVars, pqVars, pullVars, workVars
<1>1. /\ owner' \in [PQs -> Clients \cup {NoClient}] /\ dropped' \in [PQs -> BOOLEAN]
      /\ msgTreeMap' \in [PQs -> SUBSET Messages] /\ queueOffsetMax' \in [PQs -> 0 .. MaxOffset]
      /\ msgCount' \in [PQs -> Int] /\ nextOffset' \in [PQs -> Offsets]
  <2>1. 0 \in Offsets /\ 0 \in 0 .. MaxOffset /\ {} \in SUBSET Messages
    BY DEF Offsets, LongMax
  <2>2. owner' \in [PQs -> Clients \cup {NoClient}] /\ dropped' \in [PQs -> BOOLEAN]
    BY DEF TypeOK, Crash
  <2>3. /\ msgTreeMap' \in [PQs -> SUBSET Messages] /\ queueOffsetMax' \in [PQs -> 0 .. MaxOffset]
    BY <2>1 DEF TypeOK, Crash
  <2>4. msgCount' \in [PQs -> Int]
    BY DEF TypeOK, Crash
  <2>5. nextOffset' \in [PQs -> Offsets]
    BY <2>1 DEF TypeOK, Crash
  <2> QED
    BY <2>2, <2>3, <2>4, <2>5
<1>2. /\ pull' \in [PQs -> {"none", "queued", "sent", "replied", "parked"}]
      /\ pullCommit' \in [PQs -> OffsetOrNone] /\ reply' \in [PQs -> PullReplies]
  BY NullTypes DEF TypeOK, Crash, OffsetOrNone
<1>3. work' \subseteq Requests /\ timer' \subseteq Requests /\ task' \in [Workers -> Tasks]
  BY NullTypes DEF TypeOK, Crash
<1>4. /\ faults' \in 0 .. MaxFaults
      /\ subscribed' \in [Clients -> BOOLEAN]
      /\ processQueueTable' \in [Clients -> PQs \cup {NoPQ}]
      /\ offsetTable' \in [Clients -> OffsetOrNone]
  BY DEF TypeOK, Crash, OffsetOrNone
<1>5. /\ rebalance' \in [Clients -> Rebalances]
      /\ \A d \in Clients : rebalance'[d].pc = "add" => rebalance'[d].off \in Offsets
  BY NullTypes DEF TypeOK, Crash, Idle
<1>6. commits' \subseteq Offsets
  BY DEF TypeOK, Crash, OffsetOrNone
<1>7. UNCHANGED <<minOffset, maxOffset, brokerOffset, finished, vanished>>
  BY DEF Crash
<1> QED
  BY <1>1, <1>2, <1>3, <1>4, <1>5, <1>6, <1>7 DEF TypeOK

\* The next-state relation, by the thread or process that takes the step.
LEMMA NextByActor ==
    Next => \/ BrokerNext
            \/ \E c \in Clients : RebalanceNext(c) \/ Crash(c)
            \/ \E p \in PQs : PullNext(p)
            \/ ConsumeNext
  BY NoMsgs, Zenon DEF Next, BrokerNext, RebalanceNext, PullNext, ConsumeNext

\* So does a step that changes nothing.
LEMMA StutterTypeOK == TypeOK /\ UNCHANGED vars => TypeOK'
  BY DEF TypeOK, vars, brokerVars, clientVars, pqVars, pullVars, workVars

-----------------------------------------------------------------------------
\* Whose memory each object is in.

\* At the start no object is in use.
LEMMA InitMemoryOK == Init => MemoryOK
  BY ConstantsAssumption DEF Init, MemoryOK, Idle, NoTask

\* The broker's steps touch no object of a client.
LEMMA BrokerMemoryOK ==
    ASSUME TypeOK, MemoryOK, BrokerNext
    PROVE  MemoryOK'
<1> USE DEF brokerVars, clientVars, pqVars, pullVars, workVars
<1>1. UNCHANGED <<clientVars, pqVars, pullVars, workVars>>
  BY DEF BrokerNext, Produce, Expire, DeliverCommit, PersistAll
<1> QED
  BY <1>1 DEF MemoryOK

\* A rebalance thread refers to its own client's ProcessQueues only.
LEMMA RebalanceMemoryOK ==
    ASSUME TypeOK, MemoryOK, NEW c \in Clients, RebalanceNext(c)
    PROVE  MemoryOK'
<1> USE ConstantsAssumption DEF brokerVars, clientVars, pqVars, pullVars, workVars
<1>1. CASE EraseProcessQueue(c)
  BY <1>1 DEF TypeOK, MemoryOK, EraseProcessQueue
<1>2. CASE SetDropped(c)
  BY <1>2 DEF TypeOK, MemoryOK, SetDropped, Idle
<1>3. CASE RemoveUnnecessaryMessageQueue(c)
  BY <1>3 DEF TypeOK, MemoryOK, RemoveUnnecessaryMessageQueue, Idle
<1>4. CASE TruncateMessageQueueNotMyTopic(c)
  BY <1>4 DEF TypeOK, MemoryOK, TruncateMessageQueueNotMyTopic
<1>5. CASE ComputePullFromWhere(c)
  BY <1>5 DEF TypeOK, MemoryOK, ComputePullFromWhere
<1>6. CASE ReadOffset(c)
  BY <1>6 DEF TypeOK, MemoryOK, ReadOffset
<1>7. ASSUME NEW p \in PQs, AddProcessQueue(c, p) PROVE MemoryOK'
  BY <1>7 DEF TypeOK, MemoryOK, AddProcessQueue, Idle, Requests
<1>8. CASE ChangeSubscription(c)
  BY <1>8 DEF MemoryOK, ChangeSubscription
<1> QED
  BY <1>1, <1>2, <1>3, <1>4, <1>5, <1>6, <1>7, <1>8 DEF RebalanceNext

\* A PullRequest in use belongs to a live client, and so do the requests made from its reply.
LEMMA PullMemoryOK ==
    ASSUME TypeOK, MemoryOK, NEW p \in PQs, PullNext(p)
    PROVE  MemoryOK'
<1> USE ConstantsAssumption DEF brokerVars, clientVars, pqVars, pullVars, workVars
<1>1. CASE PullDropped(p)
  BY <1>1 DEF TypeOK, MemoryOK, PullDropped
<1>2. CASE PullLater(p)
  BY <1>2 DEF TypeOK, MemoryOK, PullLater
<1>3. CASE PullKernel(p)
  BY <1>3 DEF TypeOK, MemoryOK, PullKernel
<1>4. CASE BrokerPull(p)
  BY <1>4 DEF TypeOK, MemoryOK, BrokerPull
<1>5. CASE OnFound(p)
  <2>1. \A r \in submitConsumeRequest(p, reply[p].msgs) : r.pq = p
    BY DEF submitConsumeRequest
  <2> QED
    BY <1>5, <2>1 DEF TypeOK, MemoryOK, OnFound, PutMessage
<1>6. CASE OnNoNewMsg(p)
  BY <1>6 DEF TypeOK, MemoryOK, OnNoNewMsg, CorrectTagsOffset
<1>7. CASE OnNoMatchedMsg(p)
  BY <1>7 DEF TypeOK, MemoryOK, OnNoMatchedMsg
<1>8. CASE OnOffsetIllegal(p)
  BY <1>8 DEF TypeOK, MemoryOK, OnOffsetIllegal
<1>9. CASE OnException(p)
  BY <1>9 DEF TypeOK, MemoryOK, OnException
<1> QED
  BY <1>1, <1>2, <1>3, <1>4, <1>5, <1>6, <1>7, <1>8, <1>9 DEF PullNext

\* A consume thread takes over the ProcessQueue of the request it runs.
LEMMA ConsumeMemoryOK ==
    ASSUME TypeOK, MemoryOK, ConsumeNext
    PROVE  MemoryOK'
<1> USE ConstantsAssumption DEF brokerVars, clientVars, pqVars, pullVars, workVars
<1>1. ASSUME NEW r \in work, DiscardRequest(r) PROVE MemoryOK'
  BY <1>1 DEF MemoryOK, DiscardRequest
<1>2. ASSUME NEW r \in work, NEW w \in Workers, StartRequest(w, r) PROVE MemoryOK'
  BY <1>2 DEF TypeOK, MemoryOK, StartRequest, Task, Requests
<1>3. ASSUME NEW w \in Workers, NEW k, ConsumeMessage(w, k) PROVE MemoryOK'
  BY <1>3 DEF TypeOK, MemoryOK, ConsumeMessage, Task
<1>4. ASSUME NEW w \in Workers, NEW kept \in SUBSET task[w].failed,
       NEW gone \in SUBSET task[w].failed, SendMessageBack(w, kept, gone)
      PROVE  MemoryOK'
  BY <1>4 DEF TypeOK, MemoryOK, SendMessageBack, Task
<1>5. ASSUME NEW w \in Workers, RemoveMessage(w) PROVE MemoryOK'
  BY <1>5 DEF TypeOK, MemoryOK, RemoveMessage, Task
<1>6. ASSUME NEW w \in Workers, UpdateOffset(w) PROVE MemoryOK'
  <2>1. task'[w] = NoTask /\ NoTask.pc = "idle" /\ \A v \in Workers \ {w} : task'[v] = task[v]
    BY <1>6 DEF TypeOK, UpdateOffset, NoTask
  <2> QED
    BY <1>6, <2>1 DEF MemoryOK, UpdateOffset
<1>7. ASSUME NEW r \in timer, OnTimeOut(r) PROVE MemoryOK'
  <2>1. \A s \in submitConsumeRequest(r.pq, r.msgs) : s.pq = r.pq
    BY DEF submitConsumeRequest
  <2> QED
    BY <1>7, <2>1 DEF MemoryOK, OnTimeOut
<1> QED
  BY <1>1, <1>2, <1>3, <1>4, <1>5, <1>6, <1>7 DEF ConsumeNext

\* A crash leaves nothing that refers to the dead client's ProcessQueues.
LEMMA CrashMemoryOK ==
    ASSUME TypeOK, MemoryOK, NEW c \in Clients, Crash(c)
    PROVE  MemoryOK'
<1> USE ConstantsAssumption DEF brokerVars, clientVars, pqVars, pullVars, workVars
<1>1. Idle.pc = "idle" /\ NoTask.pc = "idle"
  BY DEF Idle, NoTask
<1>2. \A p \in PQs :
         IF owner[p] = c
         THEN /\ owner'[p] = NoClient /\ dropped'[p] = FALSE /\ msgTreeMap'[p] = {}
              /\ msgCount'[p] = 0 /\ pull'[p] = "none" /\ reply'[p] = NoReply
         ELSE /\ owner'[p] = owner[p] /\ dropped'[p] = dropped[p]
              /\ msgTreeMap'[p] = msgTreeMap[p] /\ msgCount'[p] = msgCount[p]
              /\ pull'[p] = pull[p] /\ reply'[p] = reply[p]
  BY DEF Crash
<1>3. \A w \in Workers :
         \/ task'[w] = NoTask
         \/ task'[w] = task[w] /\ (task[w].pc = "idle" \/ owner[task[w].pq] # c)
  BY DEF Crash
<1>4. \A r \in work' \cup timer' : r \in work \cup timer /\ owner[r.pq] # c /\ r.pq \in PQs
  BY DEF Crash, TypeOK, Requests
<1>5. /\ processQueueTable'[c] = NoPQ /\ rebalance'[c] = Idle
      /\ \A d \in Clients \ {c} : /\ processQueueTable'[d] = processQueueTable[d]
                                 /\ rebalance'[d] = rebalance[d]
  BY DEF Crash, TypeOK
<1>6. \A d \in Clients : processQueueTable[d] # NoPQ => processQueueTable[d] \in PQs
  BY DEF TypeOK
<1> HIDE ConstantsAssumption
<1>7. /\ \A p \in PQs : pull'[p] # "none" => owner'[p] \in Clients
      /\ \A p \in PQs : pull'[p] # "replied" => reply'[p] = NoReply
      /\ \A p \in PQs : owner'[p] \notin Clients =>
            ~dropped'[p] /\ msgTreeMap'[p] = {} /\ msgCount'[p] = 0
  BY <1>2 DEF MemoryOK
<1>8. \A r \in work' \cup timer' : owner'[r.pq] \in Clients
  BY <1>2, <1>4 DEF MemoryOK
<1>9. \A w \in Workers : IF task'[w].pc = "idle" THEN task'[w] = NoTask
                         ELSE task'[w].pq \in PQs /\ owner'[task'[w].pq] \in Clients
  BY <1>1, <1>2, <1>3 DEF MemoryOK
<1>10. \A d \in Clients :
          /\ processQueueTable'[d] # NoPQ => /\ owner'[processQueueTable'[d]] = d
                                             /\ ~dropped'[processQueueTable'[d]]
          /\ rebalance'[d].pc = "drop" =>
                rebalance'[d].pq \in PQs /\ owner'[rebalance'[d].pq] = d
          /\ rebalance'[d].pc # "idle" => processQueueTable'[d] = NoPQ
  BY <1>1, <1>2, <1>5, <1>6 DEF MemoryOK
<1> QED
  BY <1>7, <1>8, <1>9, <1>10 DEF MemoryOK

\* A step that changes nothing keeps the ownership.
LEMMA StutterMemoryOK == MemoryOK /\ UNCHANGED vars => MemoryOK'
  BY DEF MemoryOK, vars, brokerVars, clientVars, pqVars, pullVars, workVars

\* Types and ownership are inductive together.
LEMMA NextMemoryOK == TypeOK /\ MemoryOK /\ [Next]_vars => TypeOK' /\ MemoryOK'
<1> SUFFICES ASSUME TypeOK, MemoryOK, [Next]_vars PROVE TypeOK' /\ MemoryOK'
  OBVIOUS
<1>1. CASE BrokerNext
  BY <1>1, BrokerTypeOK, BrokerMemoryOK
<1>2. ASSUME NEW c \in Clients, RebalanceNext(c) PROVE TypeOK' /\ MemoryOK'
  BY <1>2, RebalanceTypeOK, RebalanceMemoryOK
<1>3. ASSUME NEW c \in Clients, Crash(c) PROVE TypeOK' /\ MemoryOK'
  BY <1>3, CrashTypeOK, CrashMemoryOK
<1>4. ASSUME NEW p \in PQs, PullNext(p) PROVE TypeOK' /\ MemoryOK'
  BY <1>4, PullTypeOK, PullMemoryOK
<1>5. CASE ConsumeNext
  BY <1>5, ConsumeTypeOK, ConsumeMemoryOK
<1>6. CASE UNCHANGED vars
  BY <1>6, StutterTypeOK, StutterMemoryOK
<1> QED
  BY <1>1, <1>2, <1>3, <1>4, <1>5, <1>6, NextByActor

\* Every variable keeps its type, and every PullRequest, consume request and
\* running task belongs to a ProcessQueue of a live client, through hand-over,
\* dropped queues and crashes: no step of the code touches one that is gone.
THEOREM TypeCorrect == Spec => [](TypeOK /\ MemoryOK)
<1>1. Init => TypeOK /\ MemoryOK
  BY InitTypeOK, InitMemoryOK
<1> QED
  BY <1>1, NextMemoryOK, PTL DEF Spec

-----------------------------------------------------------------------------
\* The offset table of a client that keeps its queue.

\* The entry of a client that keeps its queue goes down only with the broker's
\* OFFSET_ILLEGAL: the action of OffsetNeverRegresses.
OffsetKept ==
    \A c \in Clients :
       /\ processQueueTable[c] # NoPQ /\ processQueueTable'[c] = processQueueTable[c]
       /\ offsetTable[c] # NoOffset /\ offsetTable'[c] # NoOffset
       /\ offsetTable'[c] < offsetTable[c]
       => \E p \in PQs : /\ owner[p] = c /\ reply[p].status = "OFFSET_ILLEGAL"
                         /\ reply'[p] = NoReply

\* An entry is gone, or the same, or not less than before.
NotLower(c) == offsetTable'[c] = NoOffset \/ ~(offsetTable'[c] < offsetTable[c])

\* updateOffset with increaseOnly never lowers an entry.
LEMMA IncreaseOnlyNotLower ==
    ASSUME TypeOK, NEW d, NEW v \in Offsets, updateOffset(d, v, TRUE), NEW c \in Clients
    PROVE  offsetTable[c] # NoOffset => NotLower(c)
<1>1. offsetTable[c] \in Int
  BY ConstantsAssumption DEF TypeOK, OffsetOrNone, Offsets, LongMax, NoOffset
<1>2. v \in Int
  BY ConstantsAssumption DEF Offsets, LongMax
<1>3. \/ offsetTable'[c] = offsetTable[c] \/ offsetTable[c] = NoOffset
      \/ offsetTable'[c] = v /\ v > offsetTable[c]
  BY DEF TypeOK, updateOffset, UpdatedOffset
<1> QED
  BY <1>1, <1>2, <1>3 DEF NotLower

\* The offset store and the broker only keep or erase entries.
LEMMA BrokerNotLower ==
    ASSUME TypeOK, BrokerNext, NEW c \in Clients
    PROVE  NotLower(c)
<1>1. offsetTable[c] \in Int
  BY ConstantsAssumption DEF TypeOK, OffsetOrNone, Offsets, LongMax, NoOffset
<1> QED
  BY <1>1 DEF TypeOK, BrokerNext, Produce, Expire, DeliverCommit, PersistAll, NotLower

\* A rebalance thread sets an entry to the stored offset, which may be lower,
\* only while its client has no ProcessQueue.
LEMMA RebalanceNotLower ==
    ASSUME TypeOK, MemoryOK, NEW d \in Clients, RebalanceNext(d), NEW c \in Clients,
           processQueueTable[c] # NoPQ
    PROVE  NotLower(c)
<1>1. offsetTable[c] \in Int
  BY ConstantsAssumption DEF TypeOK, OffsetOrNone, Offsets, LongMax, NoOffset
<1>2. CASE ReadOffset(d)
  <2>1. c # d
    BY <1>2 DEF MemoryOK, ReadOffset
  <2>2. offsetTable'[c] = offsetTable[c]
    BY <1>2, <2>1 DEF TypeOK, ReadOffset, updateOffset
  <2> QED
    BY <1>1, <2>2 DEF NotLower
<1>3. CASE RemoveUnnecessaryMessageQueue(d)
  BY <1>1, <1>3 DEF TypeOK, RemoveUnnecessaryMessageQueue, NotLower
<1>4. CASE UNCHANGED offsetTable
  BY <1>1, <1>4 DEF NotLower
<1> QED
  BY <1>2, <1>3, <1>4
  DEF RebalanceNext, EraseProcessQueue, SetDropped, TruncateMessageQueueNotMyTopic,
      ComputePullFromWhere, AddProcessQueue, ChangeSubscription

\* The pull path lowers an entry of the ProcessQueue's own client only, and
\* only when it handles OFFSET_ILLEGAL.
LEMMA PullNotLower ==
    ASSUME TypeOK, NEW p \in PQs, PullNext(p), NEW c \in Clients, offsetTable[c] # NoOffset
    PROVE  \/ NotLower(c)
           \/ owner[p] = c /\ reply[p].status = "OFFSET_ILLEGAL" /\ reply'[p] = NoReply
<1>1. offsetTable[c] \in Int
  BY ConstantsAssumption DEF TypeOK, OffsetOrNone, Offsets, LongMax, NoOffset
<1>2. CASE UNCHANGED offsetTable
  BY <1>1, <1>2 DEF NotLower
<1>3. CASE OnNoNewMsg(p)
  <2>1. reply[p].next \in Offsets
    BY ConstantsAssumption DEF TypeOK, PullReplies, Offsets, LongMax
  <2> QED
    BY <1>2, <1>3, <2>1, IncreaseOnlyNotLower DEF OnNoNewMsg, CorrectTagsOffset
<1>4. CASE OnOffsetIllegal(p)
  <2>1. reply[p].status = "OFFSET_ILLEGAL" /\ reply'[p] = NoReply
    BY <1>4 DEF TypeOK, OnOffsetIllegal
  <2>2. c # owner[p] => offsetTable'[c] = offsetTable[c]
    BY <1>4 DEF TypeOK, OnOffsetIllegal, updateOffset
  <2> QED
    BY <1>1, <2>1, <2>2 DEF NotLower
<1> QED
  BY <1>2, <1>3, <1>4
  DEF PullNext, PullDropped, PullLater, PullKernel, BrokerPull, OnFound, OnNoMatchedMsg,
      OnException

\* Consume threads that finish out of order do not lower an entry.
LEMMA ConsumeNotLower ==
    ASSUME TypeOK, ConsumeNext, NEW c \in Clients, offsetTable[c] # NoOffset
    PROVE  NotLower(c)
<1>1. offsetTable[c] \in Int
  BY ConstantsAssumption DEF TypeOK, OffsetOrNone, Offsets, LongMax, NoOffset
<1>2. CASE UNCHANGED offsetTable
  BY <1>1, <1>2 DEF NotLower
<1>3. ASSUME NEW w \in Workers, UpdateOffset(w) PROVE NotLower(c)
  <2>1. task[w].off >= 0 => task[w].off \in Offsets
    BY DEF TypeOK, Tasks, OffsetOrNone, NoOffset
  <2> QED
    BY <1>2, <1>3, <2>1, IncreaseOnlyNotLower DEF UpdateOffset
<1> QED
  BY <1>2, <1>3
  DEF ConsumeNext, DiscardRequest, StartRequest, ConsumeMessage, SendMessageBack,
      RemoveMessage, OnTimeOut

\* The step of each actor is such a step.
LEMMA NextOffsetKept ==
    ASSUME TypeOK, MemoryOK, Next
    PROVE  OffsetKept
<1> SUFFICES ASSUME NEW c \in Clients,
                    processQueueTable[c] # NoPQ, offsetTable[c] # NoOffset
             PROVE  \/ NotLower(c)
                    \/ \E p \in PQs : /\ owner[p] = c /\ reply[p].status = "OFFSET_ILLEGAL"
                                      /\ reply'[p] = NoReply
  BY DEF OffsetKept, NotLower
<1>1. CASE BrokerNext
  BY <1>1, BrokerNotLower
<1>2. ASSUME NEW d \in Clients, RebalanceNext(d) PROVE NotLower(c)
  BY <1>2, RebalanceNotLower
<1>3. ASSUME NEW d \in Clients, Crash(d) PROVE NotLower(c)
  <2>1. offsetTable[c] \in Int
    BY ConstantsAssumption DEF TypeOK, OffsetOrNone, Offsets, LongMax, NoOffset
  <2>2. offsetTable' = [offsetTable EXCEPT ![d] = NoOffset]
    BY <1>3 DEF Crash
  <2> QED
    BY <2>1, <2>2 DEF TypeOK, NotLower
<1>4. ASSUME NEW p \in PQs, PullNext(p)
      PROVE  \/ NotLower(c)
             \/ owner[p] = c /\ reply[p].status = "OFFSET_ILLEGAL" /\ reply'[p] = NoReply
  BY <1>4, PullNotLower
<1>5. CASE ConsumeNext
  BY <1>5, ConsumeNotLower
<1> QED
  BY <1>1, <1>2, <1>3, <1>4, <1>5, NextByActor

\* While a client keeps a queue, its entry in the offset table never moves
\* backwards, with any number of consume threads, pulls, clients and dropped
\* ProcessQueues: updateOffset with increaseOnly guards the ones that finish out of
\* order, and the one that overwrites, in readOffset, runs while the client has
\* no queue.  The broker's OFFSET_ILLEGAL is the only exception.
THEOREM OffsetNeverRegressesHolds == Spec => OffsetNeverRegresses
<1>1. TypeOK /\ MemoryOK /\ [Next]_vars => [OffsetKept]_vars
  BY NextOffsetKept
<1> QED
  BY <1>1, TypeCorrect, PTL DEF Spec, OffsetNeverRegresses, OffsetKept

-----------------------------------------------------------------------------
(* Pulled messages and the requests that hold them, when pulls are served  *)
(* by the master.                                                          *)

\* No variable a PullRequest's invariant reads changes for the worse.
LEMMA PullAtFrame ==
    ASSUME TypeOK, TypeOK', NEW q \in PQs, PullAt(q),
           msgTreeMap'[q] \subseteq msgTreeMap[q], nextOffset'[q] = nextOffset[q],
           reply'[q] = reply[q] \/ reply'[q] = NoReply,
           minOffset <= minOffset', maxOffset <= maxOffset'
    PROVE  PullAt(q)'
<1>1. /\ nextOffset[q] \in Int /\ maxOffset \in Int /\ maxOffset' \in Int
      /\ minOffset \in Int /\ minOffset' \in Int
      /\ reply[q].next \in Int /\ reply[q].min \in Int /\ reply[q].max \in Int
  BY ConstantsAssumption DEF TypeOK, Offsets, LongMax, PullReplies
<1>2. CASE reply'[q] = reply[q]
  BY <1>1, <1>2 DEF PullAt
<1>3. CASE reply'[q] = NoReply
  BY <1>1, <1>3 DEF PullAt, NoReply
<1> QED
  BY <1>2, <1>3

\* The broker and the offset store move no PullRequest.
LEMMA BrokerPullOK ==
    ASSUME TypeOK, TypeOK', PullOK, BrokerNext
    PROVE  PullOK'
<1> USE DEF brokerVars, clientVars, pqVars, pullVars, workVars
<1>1. /\ UNCHANGED <<msgTreeMap, nextOffset, reply>>
      /\ minOffset <= minOffset' /\ maxOffset <= maxOffset' /\ minOffset' <= maxOffset'
  BY ConstantsAssumption DEF BrokerNext, Produce, Expire, DeliverCommit, PersistAll, TypeOK, PullOK
<1>2. \A q \in PQs : PullAt(q)'
  BY <1>1, PullAtFrame DEF PullOK
<1> QED
  BY <1>1, <1>2 DEF PullOK

\* The rebalance thread only starts PullRequests, of fresh ProcessQueues.
LEMMA RebalancePullOK ==
    ASSUME TypeOK, TypeOK', MemoryOK, PullOK, OffsetsBounded, NEW c \in Clients, RebalanceNext(c)
    PROVE  PullOK'
<1> USE DEF brokerVars, clientVars, pqVars, pullVars, workVars
<1>1. UNCHANGED <<minOffset, maxOffset, msgTreeMap, reply>>
  BY DEF RebalanceNext, EraseProcessQueue, SetDropped, RemoveUnnecessaryMessageQueue,
     TruncateMessageQueueNotMyTopic, ComputePullFromWhere, ReadOffset, AddProcessQueue,
     ChangeSubscription
<1>2. minOffset <= minOffset' /\ maxOffset <= maxOffset' /\ minOffset' <= maxOffset'
  BY <1>1, ConstantsAssumption DEF TypeOK, PullOK
<1>3. CASE UNCHANGED nextOffset
  BY <1>1, <1>2, <1>3, PullAtFrame DEF PullOK
<1>4. ASSUME NEW p \in PQs, AddProcessQueue(c, p) PROVE PullOK'
  <2>1. ASSUME NEW q \in PQs, q # p PROVE PullAt(q)'
    <3>1. nextOffset'[q] = nextOffset[q]
      BY <1>4, <2>1 DEF AddProcessQueue, TypeOK
    <3> QED
      BY <1>1, <1>2, <3>1, PullAtFrame DEF PullOK
  <2>2. PullAt(p)'
    <3>1. /\ msgTreeMap'[p] = {} /\ reply'[p].status = "none"
          /\ nextOffset'[p] = rebalance[c].off
      BY <1>1, <1>4, ConstantsAssumption DEF AddProcessQueue, MemoryOK, TypeOK, NoReply
    <3>2. rebalance[c].off <= maxOffset' \/ rebalance[c].off = LongMax
      BY <1>1 DEF OffsetsBounded
    <3> QED
      BY <3>1, <3>2 DEF PullAt, LongMax
  <2> QED
    BY <1>2, <2>1, <2>2 DEF PullOK
<1>5. UNCHANGED nextOffset \/ \E p \in PQs : AddProcessQueue(c, p)
  BY DEF RebalanceNext, EraseProcessQueue, SetDropped, RemoveUnnecessaryMessageQueue,
     TruncateMessageQueueNotMyTopic, ComputePullFromWhere, ReadOffset, ChangeSubscription
<1> QED
  BY <1>3, <1>4, <1>5

\* What the master answers to a pull at nextOffset, and what it says of it.
LEMMA BrokerAnswers ==
    ASSUME TypeOK, PullOK, ~ReplicaLags, NEW p \in PQs, BrokerPull(p)
    PROVE  \E r \in Replies(nextOffset[p], minOffset, maxOffset) :
              /\ r.status = "NO_MATCHED_MSG" => r.msgs = {}
              /\ reply' = [reply EXCEPT ![p] = r]
  BY DEF BrokerPull

\* The master's answer starts where the PullRequest stands.
LEMMA BrokerPullPullOK ==
    ASSUME TypeOK, TypeOK', PullOK, ~ReplicaLags, NEW p \in PQs, BrokerPull(p)
    PROVE  PullOK'
<1> USE DEF brokerVars, clientVars, pqVars, pullVars, workVars
<1>1. UNCHANGED <<minOffset, maxOffset, msgTreeMap, nextOffset>>
  BY DEF BrokerPull
<1>2. PICK r \in Replies(nextOffset[p], minOffset, maxOffset) :
         /\ r.status = "NO_MATCHED_MSG" => r.msgs = {}
         /\ reply' = [reply EXCEPT ![p] = r]
  BY BrokerAnswers
<1>3. /\ minOffset <= minOffset' /\ maxOffset <= maxOffset' /\ minOffset' <= maxOffset'
      /\ minOffset \in Nat /\ maxOffset \in 0 .. MaxOffset /\ nextOffset[p] \in Nat
  BY <1>1, ConstantsAssumption DEF TypeOK, PullOK, Offsets, LongMax
<1>4. reply'[p] = r /\ \A q \in PQs \ {p} : reply'[q] = reply[q]
  BY <1>2 DEF TypeOK
<1>5. ASSUME NEW q \in PQs, q # p PROVE PullAt(q)'
  BY <1>1, <1>3, <1>4, <1>5, PullAtFrame DEF PullOK
<1>6. PullAt(p)'
  <2>1. /\ r.status \in {"FOUND", "NO_MATCHED_MSG"} =>
              /\ nextOffset[p] < r.next /\ r.next <= maxOffset
              /\ r.msgs = {o \in Matching : nextOffset[p] <= o /\ o < r.next}
        /\ r.status = "NO_NEW_MSG" => r.next = nextOffset[p] /\ nextOffset[p] <= maxOffset
        /\ r.status = "OFFSET_ILLEGAL" =>
              /\ r.min = minOffset /\ r.max = maxOffset
              /\ nextOffset[p] < minOffset \/ nextOffset[p] > maxOffset
    <3>1. CASE nextOffset[p] < minOffset \/ nextOffset[p] > maxOffset
      BY <1>3, <3>1 DEF Replies
    <3>2. CASE nextOffset[p] = maxOffset
      BY <1>3, <3>2 DEF Replies
    <3>3. CASE minOffset <= nextOffset[p] /\ nextOffset[p] < maxOffset
      <4>1. PICK s \in {"FOUND", "NO_MATCHED_MSG"},
                 m \in {i \in nextOffset[p] + 1 .. maxOffset : i <= nextOffset[p] + PullBatch} :
               r = [status |-> s, next |-> m, msgs |-> Matching \cap nextOffset[p] .. m - 1,
                    min |-> 0, max |-> 0]
        BY <1>3, <3>3 DEF Replies
      <4>2. Matching \cap nextOffset[p] .. m - 1
               = {o \in Matching : nextOffset[p] <= o /\ o < m}
        <5>1. m \in Int /\ nextOffset[p] \in Int /\ \A o \in Matching : o \in Int
          BY <1>3, ConstantsAssumption
        <5> HIDE <1>2
        <5> QED
          BY <5>1
      <4> QED
        BY <1>3, <4>1, <4>2
    <3> QED
      BY <1>3, <3>1, <3>2, <3>3
  <2>2. PullAt(p)
    BY DEF PullOK
  <2> QED
    BY <1>1, <1>2, <1>3, <1>4, <2>1, <2>2 DEF PullAt
<1> QED
  BY <1>3, <1>5, <1>6 DEF PullOK

\* The pull path moves a PullRequest to where the broker's reply says.
LEMMA PullPullOK ==
    ASSUME TypeOK, TypeOK', MemoryOK, PullOK, ~ReplicaLags, NEW p \in PQs, PullNext(p)
    PROVE  PullOK'
<1> USE DEF brokerVars, clientVars, pqVars, pullVars, workVars
<1>1. CASE BrokerPull(p)
  BY <1>1, BrokerPullPullOK
<1>4. CASE \/ PullDropped(p) \/ PullLater(p) \/ PullKernel(p) \/ OnException(p)
  <2>1. UNCHANGED <<minOffset, maxOffset, msgTreeMap, nextOffset>>
    BY <1>4 DEF PullDropped, PullLater, PullKernel, OnException
  <2>2. \A q \in PQs : reply'[q] = reply[q] \/ reply'[q] = NoReply
    BY <1>4 DEF PullDropped, PullLater, PullKernel, OnException, TypeOK
  <2>3. minOffset <= minOffset' /\ maxOffset <= maxOffset' /\ minOffset' <= maxOffset'
    BY <2>1, ConstantsAssumption DEF TypeOK, PullOK
  <2> QED
    BY <2>1, <2>2, <2>3, PullAtFrame DEF PullOK
<1>5. CASE \/ OnFound(p) \/ OnNoNewMsg(p) \/ OnNoMatchedMsg(p) \/ OnOffsetIllegal(p)
  <2>1. /\ reply'[p] = NoReply /\ NoReply.status = "none"
        /\ \A q \in PQs \ {p} : /\ reply'[q] = reply[q] /\ nextOffset'[q] = nextOffset[q]
                               /\ msgTreeMap'[q] = msgTreeMap[q]
    BY <1>5 DEF OnFound, PutMessage, OnNoNewMsg, OnNoMatchedMsg, OnOffsetIllegal, TypeOK, NoReply
  <2>2. /\ UNCHANGED <<minOffset, maxOffset>>
        /\ minOffset <= minOffset' /\ maxOffset <= maxOffset' /\ minOffset' <= maxOffset'
    <3>1. UNCHANGED <<minOffset, maxOffset>>
      BY <1>5 DEF OnFound, OnNoNewMsg, OnNoMatchedMsg, OnOffsetIllegal
    <3> QED
      BY <3>1, ConstantsAssumption DEF TypeOK, PullOK
  <2>3. \A q \in PQs \ {p} : PullAt(q)'
    BY <2>1, <2>2, PullAtFrame DEF PullOK
  <2>4. PullAt(p)
    BY DEF PullOK
  <2>5. /\ nextOffset[p] \in 0 .. MaxOffset + 1 /\ minOffset \in 0 .. MaxOffset
        /\ maxOffset \in 0 .. MaxOffset /\ reply[p].next \in 0 .. MaxOffset
        /\ reply[p].min \in 0 .. MaxOffset /\ reply[p].max \in 0 .. MaxOffset
        /\ reply[p].msgs \subseteq Messages /\ MaxOffset \in Nat
        /\ msgTreeMap[p] \subseteq Messages
    BY ConstantsAssumption DEF TypeOK, PullReplies, Offsets, LongMax
  <2>6. ASSUME nextOffset'[p] \in Int, nextOffset'[p] <= maxOffset',
               \A o \in msgTreeMap'[p] : o < nextOffset'[p]
        PROVE  PullAt(p)'
    BY <2>1, <2>6 DEF PullAt
  <2>7. /\ nextOffset'[p] \in Int /\ nextOffset'[p] <= maxOffset'
        /\ \A o \in msgTreeMap'[p] : o < nextOffset'[p]
    <3>1. CASE OnFound(p)
      <4>1. nextOffset'[p] = reply[p].next /\ msgTreeMap'[p] = msgTreeMap[p] \cup reply[p].msgs
        BY <3>1 DEF OnFound, PutMessage, TypeOK
      <4>2. /\ nextOffset[p] < reply[p].next /\ reply[p].next <= maxOffset
            /\ \A o \in reply[p].msgs : o < reply[p].next
            /\ \A o \in msgTreeMap[p] : o < nextOffset[p] /\ o \in Int
        BY <2>4, <2>5, <3>1 DEF OnFound, PullAt, Messages
      <4> QED
        BY <2>2, <2>5, <4>1, <4>2
    <3>2. CASE OnNoNewMsg(p)
      <4>1. nextOffset'[p] = reply[p].next /\ msgTreeMap'[p] = msgTreeMap[p]
        BY <3>2 DEF OnNoNewMsg, TypeOK
      <4> QED
        BY <2>2, <2>4, <2>5, <3>2, <4>1 DEF OnNoNewMsg, PullAt
    <3>3. CASE OnNoMatchedMsg(p)
      <4>1. nextOffset'[p] = reply[p].next /\ msgTreeMap'[p] = msgTreeMap[p]
        BY <3>3 DEF OnNoMatchedMsg, TypeOK
      <4>2. /\ nextOffset[p] < reply[p].next /\ reply[p].next <= maxOffset
            /\ \A o \in msgTreeMap[p] : o < nextOffset[p] /\ o \in Int
        BY <2>4, <2>5, <3>3 DEF OnNoMatchedMsg, PullAt, Messages
      <4> QED
        BY <2>2, <2>5, <4>1, <4>2
    <3>4. CASE OnOffsetIllegal(p)
      <4>1. nextOffset'[p] = FixedOffset(p) /\ msgTreeMap'[p] = msgTreeMap[p]
        BY <3>4 DEF OnOffsetIllegal, TypeOK
      <4>2. /\ reply[p].min <= minOffset /\ reply[p].max <= maxOffset
            /\ nextOffset[p] < reply[p].min \/ nextOffset[p] = LongMax
            /\ \A o \in msgTreeMap[p] : o < nextOffset[p] /\ o \in Int
            /\ nextOffset[p] = LongMax => msgTreeMap[p] = {}
        BY <2>4, <2>5, <3>4 DEF OnOffsetIllegal, PullAt, Messages, LongMax
      <4>3. CASE nextOffset[p] < reply[p].min
        <5>1. FixedOffset(p) = reply[p].min
          BY <4>3 DEF FixedOffset
        <5> QED
          BY <2>2, <2>5, <4>1, <4>2, <4>3, <5>1
      <4>4. CASE nextOffset[p] = LongMax
        <5>1. FixedOffset(p) = reply[p].max
          BY <2>5, <4>4 DEF FixedOffset, LongMax
        <5> QED
          BY <2>2, <2>5, <4>1, <4>2, <4>4, <5>1
      <4> QED
        BY <4>2, <4>3, <4>4
    <3> QED
      BY <1>5, <3>1, <3>2, <3>3, <3>4
  <2> QED
    BY <2>2, <2>3, <2>6, <2>7 DEF PullOK
<1> QED
  BY <1>1, <1>4, <1>5 DEF PullNext

\* Consume threads only take messages out of the tree.
LEMMA ConsumePullOK ==
    ASSUME TypeOK, TypeOK', MemoryOK, PullOK, ConsumeNext
    PROVE  PullOK'
<1> USE DEF brokerVars, clientVars, pqVars, pullVars, workVars
<1>1. UNCHANGED <<minOffset, maxOffset, nextOffset, reply>>
  BY DEF ConsumeNext, DiscardRequest, StartRequest, ConsumeMessage, SendMessageBack,
     RemoveMessage, UpdateOffset, OnTimeOut
<1>2. \A q \in PQs : msgTreeMap'[q] \subseteq msgTreeMap[q]
  <2>1. ASSUME NEW w \in Workers, RemoveMessage(w)
        PROVE  \A q \in PQs : msgTreeMap'[q] \subseteq msgTreeMap[q]
    BY <2>1 DEF RemoveMessage, TypeOK
  <2>2. UNCHANGED msgTreeMap \/ \E w \in Workers : RemoveMessage(w)
    BY DEF ConsumeNext, DiscardRequest, StartRequest, ConsumeMessage, SendMessageBack,
       UpdateOffset, OnTimeOut
  <2> QED
    BY <2>1, <2>2
<1>3. minOffset <= minOffset' /\ maxOffset <= maxOffset' /\ minOffset' <= maxOffset'
  BY <1>1, ConstantsAssumption DEF TypeOK, PullOK
<1> QED
  BY <1>1, <1>2, <1>3, PullAtFrame DEF PullOK

\* A crash forgets PullRequests, and starts none.
LEMMA CrashPullOK ==
    ASSUME TypeOK, TypeOK', PullOK, NEW c \in Clients, Crash(c)
    PROVE  PullOK'
<1>1. /\ UNCHANGED <<minOffset, maxOffset>>
      /\ minOffset <= minOffset' /\ maxOffset <= maxOffset' /\ minOffset' <= maxOffset'
  BY ConstantsAssumption DEF Crash, TypeOK, PullOK
<1>2. ASSUME NEW q \in PQs PROVE PullAt(q)'
  <2>1. CASE owner[q] = c
    <3>1. /\ msgTreeMap'[q] = {} /\ nextOffset'[q] = 0 /\ reply'[q] = NoReply
      BY <2>1 DEF Crash
    <3> QED
      BY <3>1, ConstantsAssumption DEF PullAt, NoReply, TypeOK
  <2>2. CASE owner[q] # c
    <3>1. /\ msgTreeMap'[q] = msgTreeMap[q] /\ nextOffset'[q] = nextOffset[q]
          /\ reply'[q] = reply[q]
      BY <2>2 DEF Crash
    <3> QED
      BY <1>1, <3>1, PullAtFrame DEF PullOK
  <2> QED
    BY <2>1, <2>2
<1> QED
  BY <1>1, <1>2 DEF PullOK

-----------------------------------------------------------------------------
\* No offset past the end of the queue.

\* A commit stores an offset that was sent; the queue only grows.
LEMMA BrokerOffsetsBounded ==
    ASSUME TypeOK, TypeOK', OffsetsBounded, BrokerNext
    PROVE  OffsetsBounded'
<1> USE DEF brokerVars, clientVars, pqVars, pullVars, workVars
<1>1. CASE Produce
  <2>1. /\ UNCHANGED <<brokerOffset, commits, offsetTable, rebalance, pullCommit, msgTreeMap,
                       queueOffsetMax, task>>
        /\ maxOffset' = maxOffset + 1
    BY <1>1 DEF Produce
  <2>2. /\ maxOffset \in Int /\ brokerOffset \in Int /\ \A v \in commits : v \in Int
        /\ \A c \in Clients : offsetTable[c] \in Int /\ rebalance[c].off \in Int
        /\ \A p \in PQs : pullCommit[p] \in Int /\ queueOffsetMax[p] \in Int
        /\ \A w \in Workers : task[w].off \in Int
    BY ConstantsAssumption
       DEF TypeOK, OffsetOrNone, Offsets, NoOffset, LongMax, Rebalances, Tasks
  <2> QED
    BY <2>1, <2>2 DEF OffsetsBounded
<1>2. CASE Expire
  BY <1>2 DEF Expire, OffsetsBounded
<1>3. ASSUME NEW v \in commits, DeliverCommit(v) PROVE OffsetsBounded'
  BY <1>3 DEF DeliverCommit, OffsetsBounded
<1>4. ASSUME NEW c \in Clients, NEW collected \in BOOLEAN, PersistAll(c, collected)
      PROVE  OffsetsBounded'
  <2>1. /\ \A v \in commits' : v \in commits \/ v = offsetTable[c]
        /\ \A d \in Clients : offsetTable'[d] = offsetTable[d] \/ offsetTable'[d] = -1
    BY <1>4 DEF PersistAll, TypeOK, NoOffset
  <2>2. -1 <= maxOffset
    BY ConstantsAssumption DEF TypeOK
  <2>3. UNCHANGED <<maxOffset, brokerOffset, rebalance, pullCommit, msgTreeMap, queueOffsetMax,
                    task>>
    BY <1>4 DEF PersistAll
  <2> QED
    BY <2>1, <2>2, <2>3 DEF OffsetsBounded
<1> QED
  BY <1>1, <1>2, <1>3, <1>4 DEF BrokerNext

\* The rebalance thread reads the broker's offset, or starts at 0 or LongMax.
LEMMA RebalanceOffsetsBounded ==
    ASSUME TypeOK, TypeOK', MemoryOK, OffsetsBounded, NEW c \in Clients, RebalanceNext(c)
    PROVE  OffsetsBounded'
<1> USE DEF brokerVars, clientVars, pqVars, pullVars, workVars
<1>1. UNCHANGED <<maxOffset, brokerOffset, msgTreeMap, queueOffsetMax, pullCommit, task>>
  BY DEF RebalanceNext, EraseProcessQueue, SetDropped, RemoveUnnecessaryMessageQueue,
     TruncateMessageQueueNotMyTopic, ComputePullFromWhere, ReadOffset, AddProcessQueue,
     ChangeSubscription
<1>2. commits' = commits
  BY DEF RebalanceNext, EraseProcessQueue, SetDropped, RemoveUnnecessaryMessageQueue,
     TruncateMessageQueueNotMyTopic, ComputePullFromWhere, ReadOffset, AddProcessQueue,
     ChangeSubscription, PersistSends
<1>3. /\ -1 <= maxOffset /\ 0 <= maxOffset /\ Idle.off = -1
      /\ BootOffset = 0 \/ BootOffset = LongMax
  BY ConstantsAssumption DEF TypeOK, Idle, NoOffset, BootOffset
<1>4. /\ \A d \in Clients : offsetTable'[d] <= maxOffset
      /\ \A d \in Clients : \/ rebalance'[d].off <= maxOffset
                            \/ rebalance'[d].pc = "add" /\ rebalance'[d].off = LongMax
  <2>0. \A d \in Clients : /\ offsetTable[d] <= maxOffset
                           /\ \/ rebalance[d].off <= maxOffset
                              \/ rebalance[d].pc = "add" /\ rebalance[d].off = LongMax
    BY DEF OffsetsBounded
  <2>1. CASE \/ EraseProcessQueue(c) \/ SetDropped(c) \/ TruncateMessageQueueNotMyTopic(c)
             \/ ChangeSubscription(c) \/ \E p \in PQs : AddProcessQueue(c, p)
    <3>1. UNCHANGED offsetTable
      BY <2>1 DEF EraseProcessQueue, SetDropped, TruncateMessageQueueNotMyTopic,
         ChangeSubscription, AddProcessQueue
    <3>2. \A d \in Clients : rebalance'[d] = rebalance[d] \/ rebalance'[d].off = -1
      BY <2>1 DEF EraseProcessQueue, SetDropped, TruncateMessageQueueNotMyTopic,
         ChangeSubscription, AddProcessQueue, TypeOK, Idle, NoOffset
    <3> QED
      BY <1>3, <2>0, <3>1, <3>2
  <2>2. CASE RemoveUnnecessaryMessageQueue(c)
    <3>1. \A d \in Clients : /\ offsetTable'[d] = offsetTable[d] \/ offsetTable'[d] = -1
                             /\ rebalance'[d] = rebalance[d] \/ rebalance'[d].off = -1
      BY <2>2 DEF RemoveUnnecessaryMessageQueue, TypeOK, Idle, NoOffset
    <3> QED
      BY <1>3, <2>0, <3>1
  <2>3. CASE ComputePullFromWhere(c)
    <3>1. UNCHANGED offsetTable
      BY <2>3 DEF ComputePullFromWhere
    <3>2. /\ \A d \in Clients \ {c} : rebalance'[d] = rebalance[d]
          /\ \/ rebalance'[c].off \in QueryAnswers
             \/ rebalance'[c].pc = "add" /\ rebalance'[c].off = BootOffset
      BY <2>3 DEF ComputePullFromWhere, TypeOK
    <3>3. \A v \in QueryAnswers : v <= maxOffset
      BY <1>3 DEF QueryAnswers, OffsetsBounded, NoOffset
    <3> QED
      BY <1>3, <2>0, <3>1, <3>2, <3>3
  <2>4. CASE ReadOffset(c)
    <3>1. rebalance[c].off <= maxOffset
      BY <2>0, <2>4 DEF ReadOffset
    <3>2. /\ \A d \in Clients : offsetTable'[d] \in {offsetTable[d], rebalance[c].off}
          /\ \A d \in Clients \ {c} : rebalance'[d] = rebalance[d]
          /\ rebalance'[c].pc = "add" /\ rebalance'[c].off \in {rebalance[c].off, BootOffset}
      BY <2>4 DEF ReadOffset, updateOffset, UpdatedOffset, TypeOK
    <3> QED
      BY <1>3, <2>0, <3>1, <3>2
  <2> QED
    BY <2>1, <2>2, <2>3, <2>4 DEF RebalanceNext
<1> QED
  BY <1>1, <1>2, <1>4 DEF OffsetsBounded

\* The offset that OFFSET_ILLEGAL brings a PullRequest to is in the queue.
LEMMA FixedOffsetBounded ==
    ASSUME TypeOK, NEW p \in PQs, PullAt(p), reply[p].status = "OFFSET_ILLEGAL",
           minOffset <= maxOffset
    PROVE  /\ FixedOffset(p) <= maxOffset
           /\ FixedOffset(p) <= minOffset \/ nextOffset[p] = LongMax
<1>1. /\ nextOffset[p] \in 0 .. MaxOffset + 1 /\ minOffset \in 0 .. MaxOffset
      /\ maxOffset \in 0 .. MaxOffset /\ MaxOffset \in Nat
      /\ reply[p].min \in 0 .. MaxOffset /\ reply[p].max \in 0 .. MaxOffset
  BY ConstantsAssumption DEF TypeOK, PullReplies, Offsets, LongMax
<1>2. /\ reply[p].min <= minOffset /\ reply[p].max <= maxOffset
      /\ nextOffset[p] < reply[p].min \/ nextOffset[p] = LongMax
  BY DEF PullAt
<1> QED
  BY <1>1, <1>2 DEF FixedOffset, LongMax

\* A reply moves the offset table no further than the end of the queue.
LEMMA PullOffsetsBounded ==
    ASSUME TypeOK, TypeOK', MemoryOK, PullOK, OffsetsBounded, NEW p \in PQs, PullNext(p)
    PROVE  OffsetsBounded'
<1> USE DEF brokerVars, clientVars, pqVars, pullVars, workVars
<1>1. UNCHANGED <<maxOffset, rebalance, task>>
  BY DEF PullNext, PullDropped, PullLater, PullKernel, BrokerPull, OnFound, OnNoNewMsg,
     OnNoMatchedMsg, OnOffsetIllegal, OnException
<1>2. -1 <= maxOffset /\ maxOffset \in Int /\ PullAt(p)
  BY ConstantsAssumption DEF TypeOK, PullOK
<1>3. CASE PullDropped(p) \/ PullLater(p) \/ OnNoMatchedMsg(p)
  BY <1>1, <1>3 DEF PullDropped, PullLater, OnNoMatchedMsg, OffsetsBounded
<1>4. CASE PullKernel(p)
  <2>1. owner[p] \in Clients
    BY <1>4 DEF PullKernel, MemoryOK
  <2>2. \A q \in PQs : pullCommit'[q] \in {pullCommit[q], offsetTable[owner[p]], -1}
    BY <1>4 DEF PullKernel, NoOffset, TypeOK
  <2>3. UNCHANGED <<brokerOffset, commits, offsetTable, msgTreeMap, queueOffsetMax>>
    BY <1>4 DEF PullKernel
  <2> QED
    BY <1>1, <1>2, <2>1, <2>2, <2>3 DEF OffsetsBounded
<1>5. CASE BrokerPull(p)
  <2>1. /\ brokerOffset' \in {brokerOffset, pullCommit[p]}
        /\ \A q \in PQs : pullCommit'[q] \in {pullCommit[q], -1}
    BY <1>5 DEF BrokerPull, NoOffset, TypeOK
  <2>2. UNCHANGED <<commits, offsetTable, msgTreeMap, queueOffsetMax>>
    BY <1>5 DEF BrokerPull
  <2> QED
    BY <1>1, <1>2, <2>1, <2>2 DEF OffsetsBounded
<1>6. CASE OnFound(p)
  <2>1. UNCHANGED <<brokerOffset, commits, offsetTable, pullCommit>>
    BY <1>6 DEF OnFound
  <2>2. \A q \in PQs \ {p} : /\ msgTreeMap'[q] = msgTreeMap[q]
                            /\ queueOffsetMax'[q] = queueOffsetMax[q]
    BY <1>6 DEF OnFound, PutMessage, TypeOK
  <2>3. CASE reply[p].msgs = {}
    <3>1. msgTreeMap'[p] = msgTreeMap[p] /\ queueOffsetMax'[p] = queueOffsetMax[p]
      BY <1>6, <2>3 DEF OnFound, PutMessage, TypeOK
    <3> QED
      BY <1>1, <2>1, <2>2, <3>1 DEF OffsetsBounded
  <2>4. CASE reply[p].msgs # {}
    <3>1. queueOffsetMax'[p] = Greatest(reply[p].msgs)
      BY <1>6, <2>4 DEF OnFound, PutMessage, TypeOK
    <3>2. reply[p].msgs \in SUBSET Messages
      BY DEF TypeOK, PullReplies
    <3>3. Greatest(reply[p].msgs) \in reply[p].msgs
      BY <2>4, <3>2, GreatestIsMaximum
    <3>4. \A o \in reply[p].msgs : o < maxOffset
      <4>1. reply[p].next \in Int /\ \A o \in reply[p].msgs : o \in Int
        BY <3>2 DEF TypeOK, PullReplies, Messages
      <4> QED
        BY <1>2, <1>6, <4>1 DEF OnFound, PullAt
    <3> QED
      BY <1>1, <2>1, <2>2, <3>1, <3>3, <3>4 DEF OffsetsBounded
  <2> QED
    BY <2>3, <2>4
<1>7. CASE OnNoNewMsg(p)
  <2>1. reply[p].next <= maxOffset
    BY <1>2, <1>7 DEF OnNoNewMsg, PullAt
  <2>2. \A d \in Clients : offsetTable'[d] \in {offsetTable[d], reply[p].next}
    BY <1>7 DEF OnNoNewMsg, CorrectTagsOffset, updateOffset, UpdatedOffset, TypeOK
  <2>3. UNCHANGED <<brokerOffset, commits, pullCommit, msgTreeMap, queueOffsetMax>>
    BY <1>7 DEF OnNoNewMsg
  <2> QED
    BY <1>1, <2>1, <2>2, <2>3 DEF OffsetsBounded
<1>8. CASE OnOffsetIllegal(p)
  <2>1. FixedOffset(p) <= maxOffset
    BY <1>2, <1>8, FixedOffsetBounded DEF OnOffsetIllegal, PullOK
  <2>2. \A d \in Clients : offsetTable'[d] \in {offsetTable[d], FixedOffset(p)}
    BY <1>8 DEF OnOffsetIllegal, updateOffset, UpdatedOffset, TypeOK
  <2>3. UNCHANGED <<brokerOffset, commits, pullCommit, msgTreeMap, queueOffsetMax>>
    BY <1>8 DEF OnOffsetIllegal
  <2> QED
    BY <1>1, <2>1, <2>2, <2>3 DEF OffsetsBounded
<1>9. CASE OnException(p)
  <2>1. /\ \A v \in commits' : v \in commits \/ v = pullCommit[p]
        /\ \A q \in PQs : pullCommit'[q] \in {pullCommit[q], -1}
    BY <1>9 DEF OnException, NoOffset, TypeOK
  <2>2. UNCHANGED <<brokerOffset, offsetTable, msgTreeMap, queueOffsetMax>>
    BY <1>9 DEF OnException
  <2> QED
    BY <1>1, <1>2, <2>1, <2>2 DEF OffsetsBounded
<1> QED
  BY <1>3, <1>4, <1>5, <1>6, <1>7, <1>8, <1>9 DEF PullNext

\* removeMessage returns no offset past the messages that were put.
LEMMA RemoveResultBounded ==
    ASSUME TypeOK, PullOK, OffsetsBounded, NEW p \in PQs, NEW msgs
    PROVE  RemoveResult(p, msgs) <= maxOffset
<1>1. /\ maxOffset \in 0 .. MaxOffset /\ MaxOffset \in Nat /\ nextOffset[p] \in Int
      /\ queueOffsetMax[p] \in Int /\ msgTreeMap[p] \in SUBSET Messages
  BY ConstantsAssumption DEF TypeOK, Offsets, LongMax
<1>2. CASE msgTreeMap[p] = {}
  BY <1>1, <1>2 DEF RemoveResult, NoOffset
<1>3. CASE msgTreeMap[p] # {} /\ msgTreeMap[p] \ msgs = {}
  BY <1>1, <1>3 DEF RemoveResult, OffsetsBounded
<1>4. CASE msgTreeMap[p] # {} /\ msgTreeMap[p] \ msgs # {}
  <2>1. Least(msgTreeMap[p] \ msgs) \in msgTreeMap[p] \ msgs
    BY <1>1, <1>4, LeastIsMinimum
  <2>2. \A o \in msgTreeMap[p] : o <= maxOffset
    BY <1>1, <1>4 DEF PullOK, PullAt, Messages
  <2> QED
    BY <1>4, <2>1, <2>2 DEF RemoveResult
<1> QED
  BY <1>2, <1>3, <1>4

\* removeMessage returns an offset of the queue, which updateOffset stores.
LEMMA ConsumeOffsetsBounded ==
    ASSUME TypeOK, TypeOK', MemoryOK, PullOK, OffsetsBounded, ConsumeNext
    PROVE  OffsetsBounded'
<1> USE DEF brokerVars, clientVars, pqVars, pullVars, workVars
<1>1. UNCHANGED <<maxOffset, brokerOffset, commits, rebalance, pullCommit, queueOffsetMax>>
  BY DEF ConsumeNext, DiscardRequest, StartRequest, ConsumeMessage, SendMessageBack,
     RemoveMessage, UpdateOffset, OnTimeOut
<1>2. -1 <= maxOffset
  BY ConstantsAssumption DEF TypeOK
<1>3. ASSUME UNCHANGED <<offsetTable, msgTreeMap>>,
             \A w \in Workers : task'[w] = task[w] \/ task'[w].off = -1
      PROVE  OffsetsBounded'
  BY <1>1, <1>2, <1>3 DEF OffsetsBounded
<1>4. ASSUME NEW r \in work, DiscardRequest(r) PROVE OffsetsBounded'
  BY <1>3, <1>4 DEF DiscardRequest
<1>5. ASSUME NEW r \in work, NEW w \in Workers, StartRequest(w, r) PROVE OffsetsBounded'
  <2>1. \A v \in Workers : task'[v] = task[v] \/ task'[v].off = -1
    BY <1>5 DEF StartRequest, Task, NoOffset, TypeOK
  <2> QED
    BY <1>3, <1>5, <2>1 DEF StartRequest
<1>6. ASSUME NEW w \in Workers, NEW k \in 0 .. Cardinality(task[w].msgs), ConsumeMessage(w, k)
      PROVE  OffsetsBounded'
  <2>1. \A v \in Workers : task'[v] = task[v] \/ task'[v].off = -1
    BY <1>6 DEF ConsumeMessage, Task, NoOffset, TypeOK
  <2> QED
    BY <1>3, <1>6, <2>1 DEF ConsumeMessage
<1>7. ASSUME NEW w \in Workers, NEW kept \in SUBSET task[w].failed,
       NEW gone \in SUBSET task[w].failed, SendMessageBack(w, kept, gone)
      PROVE  OffsetsBounded'
  <2>1. \A v \in Workers : task'[v] = task[v] \/ task'[v].off = -1
    BY <1>7 DEF SendMessageBack, Task, NoOffset, TypeOK
  <2> QED
    BY <1>3, <1>7, <2>1 DEF SendMessageBack
<1>8. ASSUME NEW w \in Workers, RemoveMessage(w) PROVE OffsetsBounded'
  <2>0. task[w].pq \in PQs
    BY <1>8 DEF RemoveMessage, MemoryOK
  <2>1. \A v \in Workers : \/ task'[v] = task[v]
                           \/ task'[v].off = RemoveResult(task[w].pq, task[w].msgs)
    BY <1>8 DEF RemoveMessage, Task, TypeOK
  <2>2. RemoveResult(task[w].pq, task[w].msgs) <= maxOffset
    BY <2>0, RemoveResultBounded
  <2>3. UNCHANGED offsetTable /\ \A q \in PQs : msgTreeMap'[q] # {} => msgTreeMap[q] # {}
    BY <1>8 DEF RemoveMessage, TypeOK
  <2> QED
    BY <1>1, <2>1, <2>2, <2>3 DEF OffsetsBounded
<1>9. ASSUME NEW w \in Workers, UpdateOffset(w) PROVE OffsetsBounded'
  <2>1. \A v \in Workers : task'[v] = task[v] \/ task'[v].off = -1
    BY <1>9 DEF UpdateOffset, NoTask, NoOffset, TypeOK
  <2>2. \A d \in Clients : offsetTable'[d] \in {offsetTable[d], task[w].off}
    BY <1>9 DEF UpdateOffset, updateOffset, UpdatedOffset, TypeOK
  <2>3. UNCHANGED msgTreeMap
    BY <1>9 DEF UpdateOffset
  <2> QED
    BY <1>1, <1>2, <2>1, <2>2, <2>3 DEF OffsetsBounded
<1>10. ASSUME NEW r \in timer, OnTimeOut(r) PROVE OffsetsBounded'
  BY <1>3, <1>10 DEF OnTimeOut
<1> QED
  BY <1>4, <1>5, <1>6, <1>7, <1>8, <1>9, <1>10 DEF ConsumeNext

\* A crash sends the commit offsets of its pulls and makes no new ones.
LEMMA CrashOffsetsBounded ==
    ASSUME TypeOK, OffsetsBounded, NEW c \in Clients, Crash(c)
    PROVE  OffsetsBounded'
<1>1. -1 <= maxOffset /\ NoTask.off = -1 /\ Idle.off = -1
  BY ConstantsAssumption DEF TypeOK, NoTask, Idle, NoOffset
<1>2. UNCHANGED <<maxOffset, brokerOffset>>
  BY DEF Crash
<1>3. /\ \A d \in Clients : offsetTable'[d] = offsetTable[d] \/ offsetTable'[d] = -1
      /\ \A d \in Clients : rebalance'[d] = rebalance[d] \/ rebalance'[d] = Idle
  BY DEF Crash, TypeOK, NoOffset
<1>4. /\ \A v \in commits' : v \in commits \/ \E q \in PQs : v = pullCommit[q]
      /\ \A q \in PQs : pullCommit'[q] \in {pullCommit[q], -1}
  BY DEF Crash, NoOffset
<1>5. \A q \in PQs : \/ msgTreeMap'[q] = {}
                     \/ /\ msgTreeMap'[q] = msgTreeMap[q]
                        /\ queueOffsetMax'[q] = queueOffsetMax[q]
  BY DEF Crash
<1>6. \A w \in Workers : task'[w] = task[w] \/ task'[w] = NoTask
  BY DEF Crash
<1> QED
  BY <1>1, <1>2, <1>3, <1>4, <1>5, <1>6 DEF OffsetsBounded

-----------------------------------------------------------------------------
\* Every message of a live tree is held once.

\* submitConsumeRequest cuts a list into requests that share no message.
LEMMA SubmitPartitions ==
    ASSUME NEW p, NEW S
    PROVE  /\ \A r \in submitConsumeRequest(p, S) : r.pq = p /\ r.msgs # {} /\ r.msgs \subseteq S
           /\ \A r, s \in submitConsumeRequest(p, S) : r.msgs \cap s.msgs # {} => r = s
           /\ \A o \in S : \E r \in submitConsumeRequest(p, S) : o \in r.msgs
<1> DEFINE g(o) == Position(S, o) \div ConsumeBatch
           B(x) == {o \in S : g(o) = g(x)}
<1>1. Batches(S) = {B(x) : x \in S}
  BY DEF Batches
<1>2. \A x \in S : x \in B(x) /\ B(x) \subseteq S
  OBVIOUS
<1>3. \A x, y \in S : B(x) \cap B(y) # {} => B(x) = B(y)
  OBVIOUS
<1> HIDE DEF B, g
<1>4. \A r \in submitConsumeRequest(p, S) : \E x \in S : r = [pq |-> p, msgs |-> B(x)]
  BY <1>1 DEF submitConsumeRequest
<1>5. \A x \in S : [pq |-> p, msgs |-> B(x)] \in submitConsumeRequest(p, S)
  BY <1>1 DEF submitConsumeRequest
<1>6. \A r, s \in submitConsumeRequest(p, S) : r.msgs \cap s.msgs # {} => r = s
  BY <1>3, <1>4
<1>7. \A r \in submitConsumeRequest(p, S) : r.pq = p /\ r.msgs # {} /\ r.msgs \subseteq S
  <2> TAKE r \in submitConsumeRequest(p, S)
  <2>1. PICK x \in S : r = [pq |-> p, msgs |-> B(x)]
    BY <1>4
  <2> QED
    BY <1>2, <2>1
<1>8. \A o \in S : \E r \in submitConsumeRequest(p, S) : o \in r.msgs
  <2> TAKE o \in S
  <2>1. [pq |-> p, msgs |-> B(o)] \in submitConsumeRequest(p, S)
    BY <1>5
  <2>2. o \in [pq |-> p, msgs |-> B(o)].msgs
    BY <1>2
  <2> QED
    BY <2>1, <2>2
<1> QED
  BY <1>6, <1>7, <1>8

\* A step that leaves the requests, the trees and what the tasks hold alone.
LEMMA HeldFrame ==
    ASSUME TypeOK, HeldOnce, UNCHANGED <<work, timer, msgTreeMap>>,
           \A w \in Workers : task'[w].pq = task[w].pq /\ task'[w].msgs = task[w].msgs,
           \A p \in PQs : dropped[p] => dropped'[p]
    PROVE  HeldOnce'
<1>1. NoMessageShared'
  BY DEF HeldOnce, NoMessageShared
<1>2. NoMessageFreed'
  BY DEF HeldOnce, NoMessageFreed
<1>3. NoMessageForgotten'
  BY DEF HeldOnce, NoMessageForgotten
<1> QED
  BY <1>1, <1>2, <1>3 DEF HeldOnce

\* New requests on process queue p, of messages S that the tree has after the
\* step and that only the requests old, which go away, may hold: what OnFound
\* and the timer do.
Submits(p, S, old) ==
    /\ work' = work \cup submitConsumeRequest(p, S) /\ timer' = timer \ old
    /\ UNCHANGED <<task, dropped>>
    /\ msgTreeMap'[p] = msgTreeMap[p] \cup S
    /\ \A q \in PQs \ {p} : msgTreeMap'[q] = msgTreeMap[q]
    /\ old \subseteq timer /\ \A r \in old : r.pq = p /\ r.msgs \subseteq S
    /\ \A r \in (work \cup timer) \ old : r.pq = p => r.msgs \cap S = {}
    /\ \A w \in Workers : task[w].pq = p => task[w].msgs \cap S = {}

\* A set of messages that no request holds, submitted, is held once.
LEMMA HeldSubmit ==
    ASSUME TypeOK, MemoryOK, HeldOnce, NEW p \in PQs, NEW S, NEW old, Submits(p, S, old)
    PROVE  HeldOnce'
<1> USE DEF Submits
<1> DEFINE N == submitConsumeRequest(p, S)
<1>1. /\ \A r \in N : r.pq = p /\ r.msgs # {} /\ r.msgs \subseteq S
      /\ \A r, s \in N : r.msgs \cap s.msgs # {} => r = s
      /\ \A o \in S : \E r \in N : o \in r.msgs
  BY SubmitPartitions
<1> HIDE DEF N
<1>2. work' = work \cup N
  BY DEF N
<1>3. work \cap old = {}
  BY DEF HeldOnce, NoMessageShared
<1>4. \A r \in N : r \notin timer \ old
  BY <1>1
<1>5. NoMessageShared'
  <2>1. work' \cap timer' = {}
    BY <1>2, <1>4 DEF HeldOnce, NoMessageShared
  <2>2. ASSUME NEW r \in work' \cup timer', NEW s \in work' \cup timer',
               r.pq = s.pq, r.msgs \cap s.msgs # {}
        PROVE  r = s
    <3>1. CASE r \in N /\ s \in N
      BY <1>1, <2>2, <3>1
    <3>2. CASE r \notin N /\ s \notin N
      BY <1>2, <2>2, <3>2 DEF HeldOnce, NoMessageShared
    <3>3. CASE r \in N /\ s \notin N
      BY <1>1, <1>2, <1>3, <2>2, <3>3
    <3>4. CASE r \notin N /\ s \in N
      BY <1>1, <1>2, <1>3, <2>2, <3>4
    <3> QED
      BY <3>1, <3>2, <3>3, <3>4
  <2>3. ASSUME NEW w \in Workers, NEW r \in work' \cup timer', task'[w].pq = r.pq
        PROVE  task'[w].msgs \cap r.msgs = {}
    <3>1. CASE r \in N
      BY <1>1, <2>3, <3>1
    <3>2. CASE r \notin N
      BY <1>2, <2>3, <3>2 DEF HeldOnce, NoMessageShared
    <3> QED
      BY <3>1, <3>2
  <2>4. \A v, w \in Workers :
           task'[v].pq = task'[w].pq /\ task'[v].msgs \cap task'[w].msgs # {} => v = w
    BY DEF HeldOnce, NoMessageShared
  <2> QED
    BY <2>1, <2>2, <2>3, <2>4 DEF NoMessageShared
<1>6. NoMessageFreed'
  <2>1. ASSUME NEW r \in work' \cup timer' PROVE r.msgs \subseteq msgTreeMap'[r.pq]
    <3>1. CASE r \in N
      BY <1>1, <3>1
    <3>2. CASE r \in work \cup timer
      <4>1. r.msgs \subseteq msgTreeMap[r.pq] /\ r.pq \in PQs
        BY <3>2 DEF HeldOnce, NoMessageFreed, TypeOK, Requests
      <4> QED
        BY <4>1
    <3> QED
      BY <1>2, <3>1, <3>2
  <2>2. ASSUME NEW w \in Workers, task'[w].msgs # {}
        PROVE  task'[w].msgs \subseteq msgTreeMap'[task'[w].pq]
    <3>1. task[w].msgs \subseteq msgTreeMap[task[w].pq]
      BY <2>2 DEF HeldOnce, NoMessageFreed
    <3>2. task[w].pq \in PQs
      BY <2>2 DEF MemoryOK, NoTask
    <3> QED
      BY <3>1, <3>2
  <2> QED
    BY <2>1, <2>2 DEF NoMessageFreed
<1>7. NoMessageForgotten'
  <2>1. ASSUME NEW q \in PQs, ~dropped'[q], NEW o \in msgTreeMap'[q]
        PROVE  \/ \E r \in work' \cup timer' : r.pq = q /\ o \in r.msgs
               \/ \E w \in Workers : task'[w].pq = q /\ o \in task'[w].msgs
    <3>1. CASE q = p /\ o \in S
      BY <1>1, <1>2, <3>1
    <3>2. CASE o \in msgTreeMap[q] /\ ~(q = p /\ o \in S)
      <4>1. \/ \E r \in work \cup timer : r.pq = q /\ o \in r.msgs
            \/ \E w \in Workers : task[w].pq = q /\ o \in task[w].msgs
        BY <2>1, <3>2 DEF HeldOnce, NoMessageForgotten
      <4>2. \A r \in old : r.pq = q => o \notin r.msgs
        BY <3>2
      <4> QED
        BY <1>2, <4>1, <4>2
    <3> QED
      BY <3>1, <3>2
  <2> QED
    BY <2>1 DEF NoMessageForgotten
<1> QED
  BY <1>5, <1>6, <1>7 DEF HeldOnce

\* Only a crash makes a ProcessQueue fresh again; the other steps outside the
\* consume path leave requests, tasks and trees alone, except for OnFound.
LEMMA OutsideHeld ==
    ASSUME TypeOK, TypeOK', MemoryOK, PullOK, HeldOnce,
           \/ BrokerNext
           \/ \E c \in Clients : RebalanceNext(c)
           \/ \E p \in PQs : PullNext(p)
    PROVE  HeldOnce'
<1> USE DEF brokerVars, clientVars, pqVars, pullVars, workVars
<1>1. CASE BrokerNext
  <2>1. UNCHANGED <<work, timer, msgTreeMap, task, dropped>>
    BY <1>1 DEF BrokerNext, Produce, Expire, DeliverCommit, PersistAll
  <2> QED
    BY <2>1, HeldFrame
<1>2. ASSUME NEW c \in Clients, RebalanceNext(c) PROVE HeldOnce'
  <2>1. UNCHANGED <<work, timer, msgTreeMap, task>>
    BY <1>2 DEF RebalanceNext, EraseProcessQueue, SetDropped, RemoveUnnecessaryMessageQueue,
       TruncateMessageQueueNotMyTopic, ComputePullFromWhere, ReadOffset, AddProcessQueue,
       ChangeSubscription
  <2>2. UNCHANGED dropped \/ SetDropped(c) \/ TruncateMessageQueueNotMyTopic(c)
    BY <1>2 DEF RebalanceNext, EraseProcessQueue, RemoveUnnecessaryMessageQueue,
       ComputePullFromWhere, ReadOffset, AddProcessQueue, ChangeSubscription
  <2>3. \A p \in PQs : dropped[p] => dropped'[p]
    BY <2>2 DEF SetDropped, TruncateMessageQueueNotMyTopic, TypeOK
  <2> QED
    BY <2>1, <2>3, HeldFrame
<1>3. ASSUME NEW p \in PQs, PullNext(p), ~OnFound(p) PROVE HeldOnce'
  <2>1. UNCHANGED <<work, timer, msgTreeMap, task, dropped>>
    BY <1>3 DEF PullNext, PullDropped, PullLater, PullKernel, BrokerPull, OnNoNewMsg,
       OnNoMatchedMsg, OnOffsetIllegal, OnException
  <2> QED
    BY <2>1, HeldFrame
<1>4. ASSUME NEW p \in PQs, OnFound(p) PROVE HeldOnce'
  <2> DEFINE S == reply[p].msgs
  <2>1. /\ work' = work \cup submitConsumeRequest(p, S) /\ UNCHANGED <<timer, task, dropped>>
        /\ msgTreeMap' = [msgTreeMap EXCEPT ![p] = msgTreeMap[p] \cup S]
    BY <1>4 DEF OnFound, PutMessage
  <2>2. S \cap msgTreeMap[p] = {}
    <3>1. /\ S = {o \in Matching : nextOffset[p] <= o /\ o < reply[p].next}
          /\ \A o \in msgTreeMap[p] : o < nextOffset[p]
      BY <1>4 DEF OnFound, PullOK, PullAt
    <3>2. nextOffset[p] \in Int /\ \A o \in msgTreeMap[p] : o \in Int
      BY ConstantsAssumption DEF TypeOK, Offsets, LongMax, Messages
    <3> QED
      BY <3>1, <3>2
  <2>3. \A r \in work \cup timer : r.pq = p => r.msgs \cap S = {}
    BY <2>2 DEF HeldOnce, NoMessageFreed
  <2>4. \A w \in Workers : task[w].pq = p => task[w].msgs \cap S = {}
    BY <2>2 DEF HeldOnce, NoMessageFreed
  <2>5. /\ msgTreeMap'[p] = msgTreeMap[p] \cup S
        /\ \A q \in PQs \ {p} : msgTreeMap'[q] = msgTreeMap[q]
    BY <2>1 DEF TypeOK
  <2> HIDE DEF S
  <2>6. Submits(p, S, {})
    BY <2>1, <2>3, <2>4, <2>5 DEF Submits
  <2> QED
    BY <2>6, HeldSubmit
<1> QED
  BY <1>1, <1>2, <1>3, <1>4

\* The timer hands a request's messages back to the executor.
LEMMA OnTimeOutHeld ==
    ASSUME TypeOK, MemoryOK, HeldOnce, NEW r \in timer, OnTimeOut(r)
    PROVE  HeldOnce'
<1> USE DEF pqVars
<1>1. /\ work' = work \cup submitConsumeRequest(r.pq, r.msgs) /\ timer' = timer \ {r}
      /\ UNCHANGED <<task, dropped, msgTreeMap>> /\ r.pq \in PQs
  BY DEF OnTimeOut, TypeOK, Requests
<1>2. r.msgs \subseteq msgTreeMap[r.pq]
  BY DEF HeldOnce, NoMessageFreed
<1>3. \A s \in (work \cup timer) \ {r} : s.pq = r.pq => s.msgs \cap r.msgs = {}
  BY DEF HeldOnce, NoMessageShared
<1>4. \A w \in Workers : task[w].pq = r.pq => task[w].msgs \cap r.msgs = {}
  BY DEF HeldOnce, NoMessageShared
<1>5. msgTreeMap'[r.pq] = msgTreeMap[r.pq] \cup r.msgs
  BY <1>1, <1>2
<1>6. Submits(r.pq, r.msgs, {r})
  BY <1>1, <1>3, <1>4, <1>5 DEF Submits
<1> QED
  BY <1>1, <1>6, HeldSubmit

\* A request of a dropped queue is deleted.
LEMMA DiscardHeld ==
    ASSUME TypeOK, HeldOnce, NEW r \in work, DiscardRequest(r)
    PROVE  HeldOnce'
<1> USE DEF pqVars
<1>1. work' = work \ {r} /\ dropped[r.pq] /\ UNCHANGED <<timer, task, dropped, msgTreeMap>>
  BY DEF DiscardRequest
<1>2. NoMessageShared'
  BY <1>1 DEF HeldOnce, NoMessageShared
<1>3. NoMessageFreed'
  BY <1>1 DEF HeldOnce, NoMessageFreed
<1>4. NoMessageForgotten'
  BY <1>1 DEF HeldOnce, NoMessageForgotten
<1> QED
  BY <1>2, <1>3, <1>4 DEF HeldOnce

\* A consume thread takes a request over.
LEMMA StartHeld ==
    ASSUME TypeOK, MemoryOK, HeldOnce, NEW r \in work, NEW w \in Workers, StartRequest(w, r)
    PROVE  HeldOnce'
<1> USE DEF pqVars
<1>1. /\ work' = work \ {r} /\ UNCHANGED <<timer, dropped, msgTreeMap>>
      /\ task'[w].pq = r.pq /\ task'[w].msgs = r.msgs
      /\ \A v \in Workers \ {w} : task'[v] = task[v]
  BY DEF StartRequest, TypeOK, Task
<1>2. task[w].msgs = {}
  BY DEF StartRequest, MemoryOK, NoTask
<1>3. NoMessageShared'
  <2>1. work' \cap timer' = {}
    BY <1>1 DEF HeldOnce, NoMessageShared
  <2>2. \A s, t \in work' \cup timer' : s.pq = t.pq /\ s.msgs \cap t.msgs # {} => s = t
    BY <1>1 DEF HeldOnce, NoMessageShared
  <2>3. \A v \in Workers, s \in work' \cup timer' :
           task'[v].pq = s.pq => task'[v].msgs \cap s.msgs = {}
    <3> SUFFICES ASSUME NEW v \in Workers, NEW s \in work' \cup timer', task'[v].pq = s.pq
                 PROVE  task'[v].msgs \cap s.msgs = {}
      OBVIOUS
    <3>1. CASE v = w
      BY <1>1, <3>1 DEF HeldOnce, NoMessageShared
    <3>2. CASE v # w
      BY <1>1, <3>2 DEF HeldOnce, NoMessageShared
    <3> QED
      BY <3>1, <3>2
  <2>4. \A v, u \in Workers :
           task'[v].pq = task'[u].pq /\ task'[v].msgs \cap task'[u].msgs # {} => v = u
    BY <1>1 DEF HeldOnce, NoMessageShared
  <2> QED
    BY <2>1, <2>2, <2>3, <2>4 DEF NoMessageShared
<1>4. NoMessageFreed'
  BY <1>1 DEF HeldOnce, NoMessageFreed
<1>5. NoMessageForgotten'
  BY <1>1, <1>2 DEF HeldOnce, NoMessageForgotten
<1> QED
  BY <1>3, <1>4, <1>5 DEF HeldOnce

\* The messages that could not be sent back move from the task to the timer.
LEMMA SendBackHeld ==
    ASSUME TypeOK, MemoryOK, TaskOK, HeldOnce, NEW w \in Workers,
           NEW kept \in SUBSET task[w].failed,
       NEW gone \in SUBSET task[w].failed, SendMessageBack(w, kept, gone)
    PROVE  HeldOnce'
<1> USE DEF pqVars
<1>1. /\ UNCHANGED <<work, dropped, msgTreeMap>>
      /\ task'[w].pq = task[w].pq /\ task'[w].msgs = task[w].msgs \ kept
      /\ \A v \in Workers \ {w} : task'[v] = task[v]
      /\ kept \subseteq task[w].msgs
  BY DEF SendMessageBack, TypeOK, Task, TaskOK
<1>2. CASE kept = {}
  <2>1. timer' = timer
    BY <1>2 DEF SendMessageBack
  <2>2. \A v \in Workers : task'[v].pq = task[v].pq /\ task'[v].msgs = task[v].msgs
    BY <1>1, <1>2
  <2> QED
    BY <1>1, <2>1, <2>2, HeldFrame
<1>3. CASE kept # {}
  <2> DEFINE r == [pq |-> task[w].pq, msgs |-> kept]
  <2>1. timer' = timer \cup {r} /\ r.pq = task[w].pq /\ r.msgs = kept
    BY <1>3 DEF SendMessageBack
  <2> HIDE DEF r
  <2>2. \A s \in work \cup timer : s.pq = r.pq => s.msgs \cap task[w].msgs = {}
    BY <2>1 DEF HeldOnce, NoMessageShared
  <2>3. r \notin work \cup timer
    BY <1>1, <1>3, <2>1, <2>2
  <2>4. NoMessageShared'
    <3>1. work' \cap timer' = {}
      BY <1>1, <2>1, <2>3 DEF HeldOnce, NoMessageShared
    <3>2. \A s, t \in work' \cup timer' : s.pq = t.pq /\ s.msgs \cap t.msgs # {} => s = t
      BY <1>1, <2>1, <2>2 DEF HeldOnce, NoMessageShared
    <3>3. \A v \in Workers, s \in work' \cup timer' :
             task'[v].pq = s.pq => task'[v].msgs \cap s.msgs = {}
      <4> SUFFICES ASSUME NEW v \in Workers, NEW s \in work' \cup timer', task'[v].pq = s.pq
                   PROVE  task'[v].msgs \cap s.msgs = {}
        OBVIOUS
      <4>1. CASE s = r /\ v = w
        BY <1>1, <2>1, <4>1
      <4>2. CASE s = r /\ v # w
        BY <1>1, <2>1, <4>2 DEF HeldOnce, NoMessageShared
      <4>3. CASE s # r
        BY <1>1, <2>1, <4>3 DEF HeldOnce, NoMessageShared
      <4> QED
        BY <4>1, <4>2, <4>3
    <3>4. \A v, u \in Workers :
             task'[v].pq = task'[u].pq /\ task'[v].msgs \cap task'[u].msgs # {} => v = u
      BY <1>1 DEF HeldOnce, NoMessageShared
    <3> QED
      BY <3>1, <3>2, <3>3, <3>4 DEF NoMessageShared
  <2>5. NoMessageFreed'
    BY <1>1, <1>3, <2>1 DEF HeldOnce, NoMessageFreed
  <2>6. NoMessageForgotten'
    <3>1. ASSUME NEW q \in PQs, ~dropped'[q], NEW o \in msgTreeMap'[q]
          PROVE  \/ \E s \in work' \cup timer' : s.pq = q /\ o \in s.msgs
                 \/ \E v \in Workers : task'[v].pq = q /\ o \in task'[v].msgs
      <4>1. \/ \E s \in work \cup timer : s.pq = q /\ o \in s.msgs
            \/ \E v \in Workers : task[v].pq = q /\ o \in task[v].msgs
        BY <1>1, <3>1 DEF HeldOnce, NoMessageForgotten
      <4> QED
        BY <1>1, <2>1, <4>1
    <3> QED
      BY <3>1 DEF NoMessageForgotten
  <2> QED
    BY <2>4, <2>5, <2>6 DEF HeldOnce
<1> QED
  BY <1>2, <1>3

\* removeMessage takes out of the tree what the task held, and nobody else held.
LEMMA RemoveHeld ==
    ASSUME TypeOK, MemoryOK, HeldOnce, NEW w \in Workers, RemoveMessage(w)
    PROVE  HeldOnce'
<1> USE DEF pqVars
<1>1. /\ UNCHANGED <<work, timer, dropped>> /\ task[w].pq \in PQs
      /\ task'[w].pq = task[w].pq /\ task'[w].msgs = {}
      /\ \A v \in Workers \ {w} : task'[v] = task[v]
      /\ msgTreeMap'[task[w].pq] = msgTreeMap[task[w].pq] \ task[w].msgs
      /\ \A q \in PQs \ {task[w].pq} : msgTreeMap'[q] = msgTreeMap[q]
  BY DEF RemoveMessage, TypeOK, MemoryOK, Task
<1>2. NoMessageShared'
  BY <1>1 DEF HeldOnce, NoMessageShared
<1>3. NoMessageFreed'
  <2>1. ASSUME NEW r \in work \cup timer PROVE r.msgs \subseteq msgTreeMap'[r.pq]
    <3>1. r.msgs \subseteq msgTreeMap[r.pq] /\ r.pq \in PQs
      BY DEF HeldOnce, NoMessageFreed, TypeOK, Requests
    <3>2. r.pq = task[w].pq => r.msgs \cap task[w].msgs = {}
      BY DEF HeldOnce, NoMessageShared
    <3> QED
      BY <1>1, <3>1, <3>2
  <2>2. ASSUME NEW v \in Workers, task'[v].msgs # {}
        PROVE  task'[v].msgs \subseteq msgTreeMap'[task'[v].pq]
    <3>1. v # w /\ task'[v] = task[v]
      BY <1>1, <2>2
    <3>2. task[v].msgs \subseteq msgTreeMap[task[v].pq] /\ task[v].pq \in PQs
      BY <2>2, <3>1 DEF HeldOnce, NoMessageFreed, MemoryOK, NoTask
    <3>3. task[v].pq = task[w].pq => task[v].msgs \cap task[w].msgs = {}
      BY <3>1 DEF HeldOnce, NoMessageShared
    <3> QED
      BY <1>1, <3>1, <3>2, <3>3
  <2> QED
    BY <1>1, <2>1, <2>2 DEF NoMessageFreed
<1>4. NoMessageForgotten'
  <2>1. ASSUME NEW q \in PQs, ~dropped'[q], NEW o \in msgTreeMap'[q]
        PROVE  \/ \E s \in work' \cup timer' : s.pq = q /\ o \in s.msgs
               \/ \E v \in Workers : task'[v].pq = q /\ o \in task'[v].msgs
    <3>1. o \in msgTreeMap[q] /\ ~(q = task[w].pq /\ o \in task[w].msgs)
      BY <1>1, <2>1
    <3>2. \/ \E s \in work \cup timer : s.pq = q /\ o \in s.msgs
          \/ \E v \in Workers : task[v].pq = q /\ o \in task[v].msgs
      BY <1>1, <2>1, <3>1 DEF HeldOnce, NoMessageForgotten
    <3> QED
      BY <1>1, <3>1, <3>2
  <2> QED
    BY <2>1 DEF NoMessageForgotten
<1> QED
  BY <1>2, <1>3, <1>4 DEF HeldOnce

\* Every step of the consume threads and of their timer keeps HeldOnce.
LEMMA ConsumeHeld ==
    ASSUME TypeOK, MemoryOK, TaskOK, HeldOnce, ConsumeNext
    PROVE  HeldOnce'
<1> USE DEF pqVars
<1>1. ASSUME NEW w \in Workers, NEW k \in 0 .. Cardinality(task[w].msgs), ConsumeMessage(w, k)
      PROVE  HeldOnce'
  <2>1. UNCHANGED <<work, timer, msgTreeMap, dropped>>
    BY <1>1 DEF ConsumeMessage
  <2>2. \A v \in Workers : task'[v].pq = task[v].pq /\ task'[v].msgs = task[v].msgs
    BY <1>1 DEF ConsumeMessage, Task, TypeOK
  <2> QED
    BY <2>1, <2>2, HeldFrame
<1>2. ASSUME NEW w \in Workers, UpdateOffset(w) PROVE HeldOnce'
  <2>1. UNCHANGED <<work, timer, msgTreeMap, dropped>>
    BY <1>2 DEF UpdateOffset
  <2>2. /\ task'[w].msgs = {} /\ task[w].msgs = {}
        /\ \A v \in Workers \ {w} : task'[v] = task[v]
    BY <1>2 DEF UpdateOffset, NoTask, TypeOK, TaskOK
  <2>3. NoMessageShared'
    BY <2>1, <2>2 DEF HeldOnce, NoMessageShared
  <2>4. NoMessageFreed'
    BY <2>1, <2>2 DEF HeldOnce, NoMessageFreed
  <2>5. NoMessageForgotten'
    BY <2>1, <2>2 DEF HeldOnce, NoMessageForgotten
  <2> QED
    BY <2>3, <2>4, <2>5 DEF HeldOnce
<1> QED
  BY <1>1, <1>2, DiscardHeld, StartHeld, SendBackHeld, RemoveHeld, OnTimeOutHeld DEF ConsumeNext

\* A crash takes a client's process queues, requests and tasks away together.
LEMMA CrashHeld ==
    ASSUME TypeOK, MemoryOK, HeldOnce, NEW c \in Clients, Crash(c)
    PROVE  HeldOnce'
<1>1. /\ \A r \in work' \cup timer' : owner[r.pq] # c
      /\ work' = {r \in work : owner[r.pq] # c} /\ timer' = {r \in timer : owner[r.pq] # c}
  BY DEF Crash
<1>2. \A q \in PQs : IF owner[q] = c THEN msgTreeMap'[q] = {} /\ ~dropped'[q]
                     ELSE msgTreeMap'[q] = msgTreeMap[q] /\ dropped'[q] = dropped[q]
  BY DEF Crash
<1>3. \A w \in Workers :
         \/ task'[w].msgs = {} /\ (task[w].pc = "idle" \/ owner[task[w].pq] = c)
         \/ /\ task'[w] = task[w] /\ task[w].pc # "idle" /\ owner[task[w].pq] # c
            /\ task[w].pq \in PQs
  BY DEF Crash, NoTask, MemoryOK
<1>4. \A r \in work \cup timer : r.pq \in PQs
  BY DEF TypeOK, Requests
<1>5. \A w \in Workers : task[w].pc = "idle" => task[w].msgs = {}
  BY DEF MemoryOK, NoTask
<1>6. NoMessageShared'
  <2>1. work' \cap timer' = {}
    BY <1>1 DEF HeldOnce, NoMessageShared
  <2>2. \A s, t \in work' \cup timer' : s.pq = t.pq /\ s.msgs \cap t.msgs # {} => s = t
    BY <1>1 DEF HeldOnce, NoMessageShared
  <2>3. \A v \in Workers, s \in work' \cup timer' :
           task'[v].pq = s.pq => task'[v].msgs \cap s.msgs = {}
    BY <1>1, <1>3 DEF HeldOnce, NoMessageShared
  <2>4. \A v, u \in Workers :
           task'[v].pq = task'[u].pq /\ task'[v].msgs \cap task'[u].msgs # {} => v = u
    BY <1>3 DEF HeldOnce, NoMessageShared
  <2> QED
    BY <2>1, <2>2, <2>3, <2>4 DEF NoMessageShared
<1>7. NoMessageFreed'
  BY <1>1, <1>2, <1>3, <1>4 DEF HeldOnce, NoMessageFreed
<1>8. NoMessageForgotten'
  <2>1. ASSUME NEW q \in PQs, ~dropped'[q], NEW o \in msgTreeMap'[q]
        PROVE  \/ \E s \in work' \cup timer' : s.pq = q /\ o \in s.msgs
               \/ \E v \in Workers : task'[v].pq = q /\ o \in task'[v].msgs
    <3>1. owner[q] # c /\ o \in msgTreeMap[q] /\ ~dropped[q]
      BY <1>2, <2>1
    <3>2. \/ \E s \in work \cup timer : s.pq = q /\ o \in s.msgs
          \/ \E v \in Workers : task[v].pq = q /\ o \in task[v].msgs
      BY <3>1 DEF HeldOnce, NoMessageForgotten
    <3> QED
      BY <1>1, <1>3, <1>5, <3>1, <3>2
  <2> QED
    BY <2>1 DEF NoMessageForgotten
<1> QED
  BY <1>6, <1>7, <1>8 DEF HeldOnce

-----------------------------------------------------------------------------
\* Tasks, requests and the count.

\* Outside the consume path no task moves; a crash ends some.
LEMMA OutsideTaskOK ==
    ASSUME TypeOK, TaskOK,
           \/ BrokerNext
           \/ \E c \in Clients : RebalanceNext(c) \/ Crash(c)
           \/ \E p \in PQs : PullNext(p)
    PROVE  TaskOK'
<1> USE DEF brokerVars, clientVars, pqVars, pullVars, workVars
<1>1. (finished \cup vanished)' = finished \cup vanished
  BY DEF BrokerNext, Produce, Expire, DeliverCommit, PersistAll,
     RebalanceNext, EraseProcessQueue, SetDropped, RemoveUnnecessaryMessageQueue,
     TruncateMessageQueueNotMyTopic, ComputePullFromWhere, ReadOffset, AddProcessQueue,
     ChangeSubscription, Crash, PullNext, PullDropped, PullLater, PullKernel, BrokerPull,
     OnFound, OnNoNewMsg, OnNoMatchedMsg, OnOffsetIllegal, OnException
<1>2. ASSUME ~ \E c \in Clients : Crash(c) PROVE task' = task
  BY <1>2 DEF BrokerNext, Produce, Expire, DeliverCommit, PersistAll,
     RebalanceNext, EraseProcessQueue, SetDropped, RemoveUnnecessaryMessageQueue,
     TruncateMessageQueueNotMyTopic, ComputePullFromWhere, ReadOffset, AddProcessQueue,
     ChangeSubscription, PullNext, PullDropped, PullLater, PullKernel, BrokerPull,
     OnFound, OnNoNewMsg, OnNoMatchedMsg, OnOffsetIllegal, OnException
<1>3. ASSUME NEW c \in Clients, Crash(c)
      PROVE  \A w \in Workers : task'[w] = task[w] \/ task'[w] = NoTask
  BY <1>3 DEF Crash
<1>4. \A w \in Workers : task'[w] = task[w] \/ task'[w] = NoTask
  BY <1>2, <1>3
<1> QED
  BY <1>1, <1>4 DEF TaskOK, NoTask

\* A consume thread finishes a message before it removes it.
LEMMA ConsumeTaskOK ==
    ASSUME TypeOK, TaskOK, ConsumeNext
    PROVE  TaskOK'
<1>1. finished \cup vanished \subseteq (finished \cup vanished)'
  BY DEF ConsumeNext, DiscardRequest, StartRequest, ConsumeMessage, SendMessageBack,
     RemoveMessage, UpdateOffset, OnTimeOut
<1>2. ASSUME NEW w \in Workers, NEW t, task' = [task EXCEPT ![w] = t],
             /\ t.failed \subseteq t.msgs
             /\ t.pc = "back" => t.msgs \ t.failed \subseteq (finished \cup vanished)'
             /\ t.pc = "remove" => t.msgs \subseteq (finished \cup vanished)'
             /\ t.pc = "update" => t.msgs = {}
      PROVE  TaskOK'
  <2>1. task'[w] = t /\ \A v \in Workers \ {w} : task'[v] = task[v]
    BY <1>2 DEF TypeOK
  <2> QED
    BY <1>1, <1>2, <2>1 DEF TaskOK
<1>3. ASSUME UNCHANGED task PROVE TaskOK'
  BY <1>1, <1>3 DEF TaskOK
<1>4. ASSUME NEW r \in work, NEW w \in Workers, StartRequest(w, r) PROVE TaskOK'
  BY <1>2, <1>4 DEF StartRequest, Task
<1>5. ASSUME NEW w \in Workers, NEW k \in 0 .. Cardinality(task[w].msgs), ConsumeMessage(w, k)
      PROVE  TaskOK'
  BY <1>2, <1>5 DEF ConsumeMessage, Task
<1>6. ASSUME NEW w \in Workers, NEW kept \in SUBSET task[w].failed,
       NEW gone \in SUBSET task[w].failed, SendMessageBack(w, kept, gone)
      PROVE  TaskOK'
  <2>1. task[w].msgs \ kept \subseteq (finished \cup vanished)'
    BY <1>6 DEF SendMessageBack, TaskOK
  <2> QED
    BY <1>2, <1>6, <2>1 DEF SendMessageBack, Task
<1>7. ASSUME NEW w \in Workers, RemoveMessage(w) PROVE TaskOK'
  BY <1>2, <1>7 DEF RemoveMessage, Task
<1>8. ASSUME NEW w \in Workers, UpdateOffset(w) PROVE TaskOK'
  BY <1>2, <1>8 DEF UpdateOffset, NoTask
<1> QED
  BY <1>3, <1>4, <1>5, <1>6, <1>7, <1>8 DEF ConsumeNext, DiscardRequest, OnTimeOut

\* m_msgCount follows the tree.
LEMMA NextCountMatches ==
    ASSUME TypeOK, MemoryOK, PullOK, HeldOnce, CountMatches, Next
    PROVE  CountMatches'
<1> USE DEF brokerVars, clientVars, pqVars, pullVars, workVars
<1>1. ASSUME NEW p \in PQs, OnFound(p) PROVE CountMatches'
  <2>1. /\ msgTreeMap'[p] = msgTreeMap[p] \cup reply[p].msgs
        /\ msgCount'[p] = msgCount[p] + Cardinality(reply[p].msgs)
        /\ \A q \in PQs \ {p} : msgTreeMap'[q] = msgTreeMap[q] /\ msgCount'[q] = msgCount[q]
    BY <1>1 DEF OnFound, PutMessage, TypeOK
  <2>2. reply[p].msgs \cap msgTreeMap[p] = {}
    <3>1. /\ reply[p].msgs = {o \in Matching : nextOffset[p] <= o /\ o < reply[p].next}
          /\ \A o \in msgTreeMap[p] : o < nextOffset[p]
      BY <1>1 DEF OnFound, PullOK, PullAt
    <3>2. nextOffset[p] \in Int /\ \A o \in msgTreeMap[p] : o \in Int
      BY ConstantsAssumption DEF TypeOK, Offsets, LongMax, Messages
    <3> QED
      BY <3>1, <3>2
  <2>3. /\ IsFiniteSet(reply[p].msgs) /\ IsFiniteSet(msgTreeMap[p])
        /\ Cardinality(reply[p].msgs) \in Int /\ Cardinality(msgTreeMap[p]) \in Int
    BY MessagesFinite DEF TypeOK, PullReplies
  <2>4. Cardinality(msgTreeMap[p] \cup reply[p].msgs)
           = Cardinality(msgTreeMap[p]) + Cardinality(reply[p].msgs)
    <3> DEFINE T == msgTreeMap[p]
               S == reply[p].msgs
    <3>1. /\ IsFiniteSet(S) /\ IsFiniteSet(T) /\ T \cap S = {}
          /\ Cardinality(S) \in Int /\ Cardinality(T) \in Int
      BY <2>2, <2>3
    <3> HIDE DEF S, T
    <3>2. Cardinality(T \cup S) = Cardinality(T) + Cardinality(S) - Cardinality(T \cap S)
      BY <3>1, FS_Union
    <3>3. Cardinality(T \cap S) = 0
      BY <3>1, FS_EmptySet
    <3>4. Cardinality(T \cup S) = Cardinality(T) + Cardinality(S)
      BY <3>1, <3>2, <3>3
    <3> QED
      BY <3>4 DEF S, T
  <2> QED
    BY <2>1, <2>4 DEF CountMatches
<1>2. ASSUME NEW w \in Workers, RemoveMessage(w) PROVE CountMatches'
  <2> DEFINE p == task[w].pq
             T == msgTreeMap[p]
             S == task[w].msgs
  <2>0. p \in PQs
    BY <1>2 DEF RemoveMessage, MemoryOK
  <2>1. /\ msgTreeMap'[p] = T \ S
        /\ msgCount'[p] = IF T = {} THEN msgCount[p] ELSE msgCount[p] - Cardinality(S)
        /\ \A q \in PQs \ {p} : msgTreeMap'[q] = msgTreeMap[q] /\ msgCount'[q] = msgCount[q]
    BY <1>2, <2>0 DEF RemoveMessage, TypeOK
  <2>2. S \subseteq T /\ IsFiniteSet(T) /\ Cardinality(T) \in Int
    <3>1. S \subseteq T
      BY DEF HeldOnce, NoMessageFreed
    <3>2. T \in SUBSET Messages
      BY <2>0 DEF TypeOK
    <3> HIDE DEF T
    <3> QED
      BY <3>1, <3>2, MessagesFinite
  <2>3. Cardinality(T \ S) = Cardinality(T) - Cardinality(S)
    <3> HIDE DEF T, S
    <3>1. T \cap S = S
      BY <2>2
    <3> QED
      BY <2>2, <3>1, FS_Difference
  <2>4. msgCount[p] = Cardinality(T)
    BY <2>0 DEF CountMatches
  <2>5. msgCount'[p] = Cardinality(msgTreeMap'[p])
    <3> HIDE DEF T, S, p
    <3>1. T = {} => T \ S = T
      OBVIOUS
    <3> QED
      BY <2>1, <2>3, <2>4, <3>1
  <2> QED
    BY <2>1, <2>5 DEF CountMatches
<1>3. ASSUME NEW c \in Clients, Crash(c) PROVE CountMatches'
  <2>1. \A q \in PQs : \/ msgTreeMap'[q] = {} /\ msgCount'[q] = 0
                       \/ msgTreeMap'[q] = msgTreeMap[q] /\ msgCount'[q] = msgCount[q]
    BY <1>3 DEF Crash
  <2> QED
    BY <2>1, FS_EmptySet DEF CountMatches
<1>4. ASSUME UNCHANGED <<msgTreeMap, msgCount>> PROVE CountMatches'
  BY <1>4 DEF CountMatches
<1>5. CASE BrokerNext
  BY <1>4, <1>5 DEF BrokerNext, Produce, Expire, DeliverCommit, PersistAll
<1>6. ASSUME NEW c \in Clients, RebalanceNext(c) PROVE CountMatches'
  BY <1>4, <1>6 DEF RebalanceNext, EraseProcessQueue, SetDropped, RemoveUnnecessaryMessageQueue,
     TruncateMessageQueueNotMyTopic, ComputePullFromWhere, ReadOffset, AddProcessQueue,
     ChangeSubscription
<1>7. ASSUME NEW p \in PQs, PullNext(p), ~OnFound(p) PROVE CountMatches'
  BY <1>4, <1>7 DEF PullNext, PullDropped, PullLater, PullKernel, BrokerPull, OnNoNewMsg,
     OnNoMatchedMsg, OnOffsetIllegal, OnException
<1>8. ASSUME ConsumeNext, ~ \E w \in Workers : RemoveMessage(w) PROVE CountMatches'
  BY <1>4, <1>8 DEF ConsumeNext, DiscardRequest, StartRequest, ConsumeMessage, SendMessageBack,
     UpdateOffset, OnTimeOut
<1> QED
  BY <1>1, <1>2, <1>3, <1>5, <1>6, <1>7, <1>8, NextByActor

-----------------------------------------------------------------------------
\* The inductive invariant of the pull path and of the requests.
HoldInv ==
    TypeOK /\ MemoryOK /\ PullOK /\ OffsetsBounded /\ TaskOK /\ HeldOnce /\ CountMatches

\* The invariant holds at the start, when the trees are empty.
LEMMA InitHoldInv == Init => HoldInv
<1> SUFFICES ASSUME Init PROVE HoldInv
  OBVIOUS
<1>1. TypeOK /\ MemoryOK
  BY InitTypeOK, InitMemoryOK
<1>2. PullOK /\ OffsetsBounded
  BY ConstantsAssumption
     DEF Init, PullOK, PullAt, OffsetsBounded, NoReply, NoOffset, Idle, NoTask, LongMax
<1>3. TaskOK /\ HeldOnce
  BY DEF Init, TaskOK, HeldOnce, NoMessageShared, NoMessageFreed, NoMessageForgotten, NoTask
<1>4. CountMatches
  BY FS_EmptySet DEF Init, CountMatches
<1> QED
  BY <1>1, <1>2, <1>3, <1>4 DEF HoldInv

\* Every step preserves it, unless a replica that lags serves pulls.
LEMMA NextHoldInv == ~ReplicaLags /\ HoldInv /\ [Next]_vars => HoldInv'
<1> SUFFICES ASSUME ~ReplicaLags, HoldInv, [Next]_vars PROVE HoldInv'
  OBVIOUS
<1> USE DEF HoldInv
<1>1. TypeOK' /\ MemoryOK'
  BY NextMemoryOK
<1>2. CASE UNCHANGED vars
  <2> USE <1>2 DEF vars, brokerVars, clientVars, pqVars, pullVars, workVars
  <2>1. PullOK' /\ OffsetsBounded'
    BY DEF PullOK, PullAt, OffsetsBounded
  <2>2. TaskOK' /\ CountMatches'
    BY DEF TaskOK, CountMatches
  <2>3. HeldOnce'
    BY HeldFrame
  <2> QED
    BY <1>1, <2>1, <2>2, <2>3
<1>3. CASE Next
  <2>1. PullOK'
    BY <1>1, <1>3, NextByActor, BrokerPullOK, RebalancePullOK, PullPullOK, ConsumePullOK,
       CrashPullOK
  <2>2. OffsetsBounded'
    BY <1>1, <1>3, NextByActor, BrokerOffsetsBounded, RebalanceOffsetsBounded,
       PullOffsetsBounded, ConsumeOffsetsBounded, CrashOffsetsBounded
  <2>3. TaskOK'
    BY <1>3, NextByActor, OutsideTaskOK, ConsumeTaskOK
  <2>4. HeldOnce'
    BY <1>1, <1>3, NextByActor, OutsideHeld, ConsumeHeld, CrashHeld
  <2>5. CountMatches'
    BY <1>3, NextCountMatches
  <2> QED
    BY <1>1, <2>1, <2>2, <2>3, <2>4, <2>5
<1> QED
  BY <1>2, <1>3

\* The invariant holds in every behaviour whose pulls the master serves.
LEMMA HoldInvHolds == ~ReplicaLags => (Spec => []HoldInv)
<1>1. Init => HoldInv
  BY InitHoldInv
<1>2. ASSUME ~ReplicaLags PROVE HoldInv /\ [Next]_vars => HoldInv'
  BY <1>2, NextHoldInv
<1> SUFFICES ASSUME ~ReplicaLags PROVE Spec => []HoldInv
  OBVIOUS
<1> QED
  BY <1>1, <1>2, PTL DEF Spec

\* Unless a slave that lags answers a pull, every message in the tree of a live
\* ProcessQueue is held by exactly one request: submitConsumeRequest, failed
\* send-backs, the timer and crashes forget none, and no message is consumed by
\* two requests at a time or deleted while a request holds it.
THEOREM HeldOnceHolds == ~ReplicaLags => (Spec => []HeldOnce)
<1>1. HoldInv => HeldOnce
  BY DEF HoldInv
<1> QED
  BY <1>1, HoldInvHolds, PTL

\* Under the same condition m_msgCount, which flow control and correctTagsOffset
\* read, is the number of messages in the tree.
THEOREM CountMatchesHolds == ~ReplicaLags => (Spec => []CountMatches)
<1>1. HoldInv => CountMatches
  BY DEF HoldInv
<1> QED
  BY <1>1, HoldInvHolds, PTL

-----------------------------------------------------------------------------
(* At-least-once delivery.  The inductive invariant says that no offset    *)
(* anywhere passes an unfinished message (OffsetsSafe) and that every      *)
(* message a PullRequest has passed is finished or still in its tree       *)
(* (TreesCover).                                                           *)

\* SafeOffset after the step, of a value.
SafeNext(v) == \A o \in Matching : o < v => o \in Done'

\* What is done stays done, and a safe offset safe.
LEMMA DoneGrows ==
    ASSUME TypeOK, TypeOK', Next
    PROVE  Done \subseteq Done' /\ \A v : SafeOffset(v) => SafeNext(v)
<1> USE DEF brokerVars, clientVars, pqVars, pullVars, workVars
<1>1. minOffset \in Int /\ minOffset' \in Int /\ \A o \in Messages : o \in Int
  BY ConstantsAssumption DEF TypeOK, Messages
<1>2. finished \cup vanished \subseteq (finished \cup vanished)' /\ minOffset <= minOffset'
  <2>1. CASE BrokerNext
    BY <1>1, <2>1 DEF BrokerNext, Produce, Expire, DeliverCommit, PersistAll
  <2>2. ASSUME NEW c \in Clients, RebalanceNext(c)
        PROVE  UNCHANGED <<finished, vanished, minOffset>>
    BY <2>2 DEF RebalanceNext, EraseProcessQueue, SetDropped,
       RemoveUnnecessaryMessageQueue, TruncateMessageQueueNotMyTopic, ComputePullFromWhere,
       ReadOffset, AddProcessQueue, ChangeSubscription
  <2>3. ASSUME NEW c \in Clients, Crash(c)
        PROVE  UNCHANGED <<finished, vanished, minOffset>>
    BY <2>3 DEF Crash
  <2>4. ASSUME NEW p \in PQs, PullNext(p)
        PROVE  UNCHANGED <<finished, vanished, minOffset>>
    BY <2>4 DEF PullNext, PullDropped, PullLater, PullKernel, BrokerPull, OnFound,
       OnNoNewMsg, OnNoMatchedMsg, OnOffsetIllegal, OnException
  <2>5. ASSUME ConsumeNext
        PROVE  UNCHANGED minOffset /\ finished \cup vanished \subseteq (finished \cup vanished)'
    <3>1. UNCHANGED minOffset
      BY <2>5 DEF ConsumeNext, DiscardRequest, StartRequest, ConsumeMessage,
         SendMessageBack, RemoveMessage, UpdateOffset, OnTimeOut
    <3>2. finished \cup vanished \subseteq (finished \cup vanished)'
      BY <2>5 DEF ConsumeNext, DiscardRequest, StartRequest, ConsumeMessage,
         SendMessageBack, RemoveMessage, UpdateOffset, OnTimeOut
    <3> QED
      BY <3>1, <3>2
  <2> QED
    BY <1>1, <2>1, <2>2, <2>3, <2>4, <2>5, NextByActor
<1>3. Done \subseteq Done'
  BY <1>1, <1>2 DEF Done
<1> QED
  BY <1>3 DEF SafeOffset, SafeNext

\* 0 and -1 are safe whatever is done.
LEMMA SmallSafe == \A v \in {0, -1} : SafeNext(v)
  BY ConstantsAssumption DEF SafeNext

\* OffsetsSafe after a step, part by part.
LEMMA OffsetsSafeNext ==
    ASSUME SafeNext(brokerOffset'), \A v \in commits' : SafeNext(v),
           \A c \in Clients : SafeNext(offsetTable'[c]) /\ SafeNext(rebalance'[c].off),
           \A p \in PQs : SafeNext(pullCommit'[p]),
           \A w \in Workers : SafeNext(task'[w].off)
    PROVE  OffsetsSafe'
  BY DEF SafeNext, OffsetsSafe, SafeOffset

\* A commit stores an offset that was safe when it was sent.
LEMMA BrokerSafe ==
    ASSUME TypeOK, TypeOK', OffsetsSafe, BrokerNext
    PROVE  OffsetsSafe'
<1> USE DEF brokerVars, clientVars, pqVars, pullVars, workVars
<1>0. \A v : SafeOffset(v) => SafeNext(v)
  BY DoneGrows DEF Next, BrokerNext
<1>1. UNCHANGED <<rebalance, pullCommit, task>>
  BY DEF BrokerNext, Produce, Expire, DeliverCommit, PersistAll
<1>2. brokerOffset' = brokerOffset \/ brokerOffset' \in commits
  BY DEF BrokerNext, Produce, Expire, DeliverCommit, PersistAll
<1>3. \A v \in commits' : v \in commits \/ \E c \in Clients : v = offsetTable[c]
  BY DEF BrokerNext, Produce, Expire, DeliverCommit, PersistAll
<1>4. \A d \in Clients : offsetTable'[d] \in {offsetTable[d], -1}
  BY DEF BrokerNext, Produce, Expire, DeliverCommit, PersistAll, TypeOK, NoOffset
<1>5. /\ SafeNext(brokerOffset') /\ \A v \in commits' : SafeNext(v)
      /\ \A c \in Clients : SafeNext(offsetTable'[c]) /\ SafeNext(rebalance'[c].off)
      /\ \A p \in PQs : SafeNext(pullCommit'[p])
      /\ \A w \in Workers : SafeNext(task'[w].off)
  BY <1>0, <1>1, <1>2, <1>3, <1>4, SmallSafe DEF OffsetsSafe
<1> QED
  BY <1>5, OffsetsSafeNext

\* A client starts where the broker's offset says, or at the first message.
LEMMA RebalanceSafe ==
    ASSUME TypeOK, TypeOK', BootOffset = 0, OffsetsSafe, NEW c \in Clients, RebalanceNext(c)
    PROVE  OffsetsSafe'
<1> USE DEF brokerVars, clientVars, pqVars, pullVars, workVars
<1>0. \A v : SafeOffset(v) => SafeNext(v)
  BY DoneGrows DEF Next, RebalanceNext
<1>1. UNCHANGED <<brokerOffset, pullCommit, task>>
  BY DEF RebalanceNext, EraseProcessQueue, SetDropped, RemoveUnnecessaryMessageQueue,
     TruncateMessageQueueNotMyTopic, ComputePullFromWhere, ReadOffset, AddProcessQueue,
     ChangeSubscription
<1>2. commits' = commits
  BY DEF RebalanceNext, EraseProcessQueue, SetDropped, RemoveUnnecessaryMessageQueue,
     TruncateMessageQueueNotMyTopic, ComputePullFromWhere, ReadOffset, AddProcessQueue,
     ChangeSubscription, PersistSends
<1>3. /\ \A d \in Clients : offsetTable'[d] \in {offsetTable[d], -1, rebalance[c].off}
      /\ \A d \in Clients :
            rebalance'[d].off \in {rebalance[d].off, -1, 0, brokerOffset}
  <2>1. CASE \/ EraseProcessQueue(c) \/ SetDropped(c) \/ TruncateMessageQueueNotMyTopic(c)
             \/ ChangeSubscription(c) \/ \E p \in PQs : AddProcessQueue(c, p)
    <3>1. UNCHANGED offsetTable
      BY <2>1 DEF EraseProcessQueue, SetDropped, TruncateMessageQueueNotMyTopic,
         ChangeSubscription, AddProcessQueue
    <3>2. \A d \in Clients : rebalance'[d] = rebalance[d] \/ rebalance'[d].off = -1
      BY <2>1 DEF EraseProcessQueue, SetDropped, TruncateMessageQueueNotMyTopic,
         ChangeSubscription, AddProcessQueue, TypeOK, Idle, NoOffset
    <3> QED
      BY <3>1, <3>2
  <2>2. CASE RemoveUnnecessaryMessageQueue(c)
    BY <2>2 DEF RemoveUnnecessaryMessageQueue, TypeOK, Idle, NoOffset
  <2>3. CASE ComputePullFromWhere(c)
    <3>1. UNCHANGED offsetTable
      BY <2>3 DEF ComputePullFromWhere
    <3>2. /\ \A d \in Clients \ {c} : rebalance'[d] = rebalance[d]
          /\ rebalance'[c].off \in QueryAnswers \/ rebalance'[c].off = BootOffset
      BY <2>3 DEF ComputePullFromWhere, TypeOK
    <3>3. QueryAnswers \subseteq {brokerOffset, -1}
      BY DEF QueryAnswers, NoOffset
    <3> QED
      BY <3>1, <3>2, <3>3
  <2>4. CASE ReadOffset(c)
    <3>1. /\ \A d \in Clients : offsetTable'[d] \in {offsetTable[d], rebalance[c].off}
          /\ \A d \in Clients \ {c} : rebalance'[d] = rebalance[d]
          /\ rebalance'[c].off \in {rebalance[c].off, BootOffset}
      BY <2>4 DEF ReadOffset, updateOffset, UpdatedOffset, TypeOK
    <3> QED
      BY <3>1
  <2> QED
    BY <2>1, <2>2, <2>3, <2>4 DEF RebalanceNext
<1>4. /\ SafeNext(brokerOffset') /\ \A v \in commits' : SafeNext(v)
      /\ \A d \in Clients : SafeNext(offsetTable'[d]) /\ SafeNext(rebalance'[d].off)
      /\ \A p \in PQs : SafeNext(pullCommit'[p])
      /\ \A w \in Workers : SafeNext(task'[w].off)
  BY <1>0, <1>1, <1>2, <1>3, SmallSafe DEF OffsetsSafe
<1> QED
  BY <1>4, OffsetsSafeNext

\* With an empty tree the position pulled to is safe, and so is a smaller one.
LEMMA EmptyTreeSafe ==
    ASSUME TypeOK, TreesCover, NEW p \in PQs, owner[p] \in Clients, msgTreeMap[p] = {}
    PROVE  SafeOffset(nextOffset[p])
  BY DEF TreesCover, CoverAt, Covered, SafeOffset

\* Where OFFSET_ILLEGAL brings the request is below every stored message, or the
\* request was past all of them with nothing in its tree.
LEMMA FixedOffsetSafe ==
    ASSUME TypeOK, PullOK, TreesCover, NEW p \in PQs, owner[p] \in Clients,
           reply[p].status = "OFFSET_ILLEGAL"
    PROVE  SafeOffset(FixedOffset(p))
<1>1. /\ minOffset \in Int /\ maxOffset \in Int /\ nextOffset[p] \in Int /\ FixedOffset(p) \in Int
      /\ maxOffset <= MaxOffset /\ MaxOffset \in Int
      /\ \A o \in Matching : o \in Int /\ o \in Messages
  BY ConstantsAssumption DEF TypeOK, Offsets, LongMax, FixedOffset, PullReplies, Messages
<1>2. /\ FixedOffset(p) <= maxOffset
      /\ FixedOffset(p) <= minOffset \/ nextOffset[p] = LongMax
  BY FixedOffsetBounded DEF PullOK
<1>3. CASE FixedOffset(p) <= minOffset
  BY <1>1, <1>3 DEF SafeOffset, Done
<1>4. CASE nextOffset[p] = LongMax
  <2>1. msgTreeMap[p] = {} /\ FixedOffset(p) <= nextOffset[p]
    BY <1>1, <1>2, <1>4 DEF PullOK, PullAt, LongMax
  <2>2. SafeOffset(nextOffset[p])
    BY <2>1, EmptyTreeSafe
  <2> QED
    BY <1>1, <2>1, <2>2 DEF SafeOffset
<1> QED
  BY <1>2, <1>3, <1>4

\* correctTagsOffset and OFFSET_ILLEGAL write safe offsets.
LEMMA PullSafe ==
    ASSUME TypeOK, TypeOK', MemoryOK, PullOK, CountMatches, OffsetsSafe, TreesCover,
           NEW p \in PQs, PullNext(p)
    PROVE  OffsetsSafe'
<1> USE DEF brokerVars, clientVars, pqVars, pullVars, workVars
<1>0. \A v : SafeOffset(v) => SafeNext(v)
  <2>1. Next
    BY NoMsgs DEF Next, PullNext
  <2> QED
    BY <2>1, DoneGrows
<1>1. UNCHANGED <<rebalance, task>> /\ owner[p] \in Clients
  BY DEF PullNext, PullDropped, PullLater, PullKernel, BrokerPull, OnFound, OnNoNewMsg,
     OnNoMatchedMsg, OnOffsetIllegal, OnException, MemoryOK
<1>2. brokerOffset' \in {brokerOffset, pullCommit[p]}
  BY DEF PullNext, PullDropped, PullLater, PullKernel, BrokerPull, OnFound, OnNoNewMsg,
     OnNoMatchedMsg, OnOffsetIllegal, OnException
<1>3. \A v \in commits' : v \in commits \/ v = pullCommit[p]
  BY DEF PullNext, PullDropped, PullLater, PullKernel, BrokerPull, OnFound, OnNoNewMsg,
     OnNoMatchedMsg, OnOffsetIllegal, OnException
<1>4. \A q \in PQs : pullCommit'[q] \in {pullCommit[q], -1, offsetTable[owner[p]]}
  BY DEF PullNext, PullDropped, PullLater, PullKernel, BrokerPull, OnFound, OnNoNewMsg,
     OnNoMatchedMsg, OnOffsetIllegal, OnException, TypeOK, NoOffset
<1>5. \A d \in Clients : SafeOffset(offsetTable'[d])
  <2>0. \A d \in Clients : SafeOffset(offsetTable[d])
    BY DEF OffsetsSafe
  <2>1. CASE OnNoNewMsg(p)
    <3>1. CASE msgCount[p] # 0
      BY <2>0, <2>1, <3>1 DEF OnNoNewMsg, CorrectTagsOffset
    <3>2. CASE msgCount[p] = 0
      <4>1. msgTreeMap[p] = {}
        <5>1. IsFiniteSet(msgTreeMap[p]) /\ Cardinality(msgTreeMap[p]) = 0
          BY <3>2, MessagesFinite DEF CountMatches, TypeOK
        <5> QED
          BY <5>1, FS_EmptySet
      <4>2. SafeOffset(reply[p].next)
        BY <1>1, <2>1, <4>1, EmptyTreeSafe DEF PullOK, PullAt, OnNoNewMsg
      <4>3. \A d \in Clients : offsetTable'[d] \in {offsetTable[d], reply[p].next}
        BY <2>1 DEF OnNoNewMsg, CorrectTagsOffset, updateOffset, UpdatedOffset, TypeOK
      <4> QED
        BY <2>0, <4>2, <4>3
    <3> QED
      BY <3>1, <3>2
  <2>2. CASE OnOffsetIllegal(p)
    <3>1. SafeOffset(FixedOffset(p))
      BY <1>1, <2>2, FixedOffsetSafe DEF OnOffsetIllegal
    <3>2. \A d \in Clients : offsetTable'[d] \in {offsetTable[d], FixedOffset(p)}
      BY <2>2 DEF OnOffsetIllegal, updateOffset, UpdatedOffset, TypeOK
    <3> QED
      BY <2>0, <3>1, <3>2
  <2>3. ASSUME ~OnNoNewMsg(p), ~OnOffsetIllegal(p) PROVE UNCHANGED offsetTable
    BY <2>3 DEF PullNext, PullDropped, PullLater, PullKernel, BrokerPull, OnFound,
       OnNoMatchedMsg, OnException
  <2> QED
    BY <2>0, <2>1, <2>2, <2>3
<1>6. /\ SafeNext(brokerOffset') /\ \A v \in commits' : SafeNext(v)
      /\ \A d \in Clients : SafeNext(offsetTable'[d]) /\ SafeNext(rebalance'[d].off)
      /\ \A q \in PQs : SafeNext(pullCommit'[q])
      /\ \A w \in Workers : SafeNext(task'[w].off)
  BY <1>0, <1>1, <1>2, <1>3, <1>4, <1>5, SmallSafe DEF OffsetsSafe
<1> QED
  BY <1>6, OffsetsSafeNext

\* removeMessage returns an offset below which everything is done: what the tree
\* had there is what the task consumed.
LEMMA RemoveResultSafe ==
    ASSUME TypeOK, MemoryOK, PullOK, TaskOK, TreesCover, NEW w \in Workers,
           task[w].pc = "remove"
    PROVE  SafeOffset(RemoveResult(task[w].pq, task[w].msgs))
<1> DEFINE p == task[w].pq
           S == task[w].msgs
           T == msgTreeMap[p]
<1>1. p \in PQs /\ owner[p] \in Clients
  BY DEF MemoryOK
<1>2. /\ T \in SUBSET Messages /\ queueOffsetMax[p] \in Int /\ nextOffset[p] \in Int
      /\ \A o \in Matching : o \in Int
  BY <1>1, ConstantsAssumption DEF TypeOK, Offsets, LongMax
<1>3. S \subseteq Done /\ CoverAt(p)
  BY <1>1 DEF TaskOK, Done, TreesCover
<1> SUFFICES SafeOffset(RemoveResult(p, S))
  OBVIOUS
<1> HIDE DEF p, S
<1>4. CASE T = {}
  <2>1. RemoveResult(p, S) = -1
    BY <1>4 DEF RemoveResult, NoOffset
  <2>2. \A o \in Matching : o \in Nat
    BY ConstantsAssumption
  <2> QED
    BY <2>1, <2>2 DEF SafeOffset
<1>5. CASE T # {} /\ T \ S = {}
  <2>1. RemoveResult(p, S) = queueOffsetMax[p] + 1
    BY <1>5 DEF RemoveResult
  <2>2. Covered(p, queueOffsetMax[p] + 1)
    BY <1>3, <1>5 DEF CoverAt
  <2> QED
    BY <1>3, <1>5, <2>1, <2>2 DEF Covered, SafeOffset
<1>6. CASE T # {} /\ T \ S # {}
  <2>1. RemoveResult(p, S) = Least(T \ S)
    BY <1>6 DEF RemoveResult
  <2>2. Least(T \ S) \in T \ S /\ \A y \in T \ S : Least(T \ S) <= y
    BY <1>2, <1>6, LeastIsMinimum
  <2>3. \A o \in T : o < nextOffset[p] /\ o \in Int
    BY <1>1, <1>2 DEF PullOK, PullAt, Messages
  <2>4. ASSUME NEW o \in Matching, o < Least(T \ S) PROVE o \in Done
    <3>1. o < nextOffset[p]
      BY <1>2, <2>2, <2>3, <2>4
    <3>2. o \in Done \/ o \in T
      BY <1>3, <3>1 DEF CoverAt, Covered
    <3>3. o \notin T \ S
      BY <1>2, <2>2, <2>3, <2>4
    <3> QED
      BY <1>3, <3>2, <3>3
  <2> QED
    BY <2>1, <2>4 DEF SafeOffset
<1> QED
  BY <1>4, <1>5, <1>6

\* A consume thread writes what removeMessage returned.
LEMMA ConsumeSafe ==
    ASSUME TypeOK, TypeOK', MemoryOK, PullOK, TaskOK, OffsetsSafe, TreesCover, ConsumeNext
    PROVE  OffsetsSafe'
<1> USE DEF brokerVars, clientVars, pqVars, pullVars, workVars
<1>0. \A v : SafeOffset(v) => SafeNext(v)
  <2>1. Next
    BY Zenon DEF Next, ConsumeNext
  <2> QED
    BY <2>1, DoneGrows
<1>1. UNCHANGED <<brokerOffset, commits, rebalance, pullCommit>>
  BY DEF ConsumeNext, DiscardRequest, StartRequest, ConsumeMessage, SendMessageBack,
     RemoveMessage, UpdateOffset, OnTimeOut
<1>2. \A v \in Workers : \/ task'[v] = task[v] \/ task'[v].off = -1
                         \/ \E w \in Workers :
                               /\ task[w].pc = "remove"
                               /\ task'[v].off = RemoveResult(task[w].pq, task[w].msgs)
  <2>1. ASSUME NEW w \in Workers, RemoveMessage(w)
        PROVE  \A v \in Workers :
                  \/ task'[v] = task[v]
                  \/ /\ task[w].pc = "remove"
                     /\ task'[v].off = RemoveResult(task[w].pq, task[w].msgs)
    BY <2>1 DEF RemoveMessage, Task, TypeOK
  <2>2. ASSUME NEW w \in Workers, NEW t, task' = [task EXCEPT ![w] = t], t.off = -1
        PROVE  \A v \in Workers : task'[v] = task[v] \/ task'[v].off = -1
    BY <2>2 DEF TypeOK
  <2>3. ASSUME NEW r \in work, NEW w \in Workers, StartRequest(w, r)
        PROVE  \A v \in Workers : task'[v] = task[v] \/ task'[v].off = -1
    BY <2>2, <2>3 DEF StartRequest, Task, NoOffset
  <2>4. ASSUME NEW w \in Workers, NEW k \in 0 .. Cardinality(task[w].msgs), ConsumeMessage(w, k)
        PROVE  \A v \in Workers : task'[v] = task[v] \/ task'[v].off = -1
    BY <2>2, <2>4 DEF ConsumeMessage, Task, NoOffset
  <2>5. ASSUME NEW w \in Workers, NEW kept \in SUBSET task[w].failed,
       NEW gone \in SUBSET task[w].failed, SendMessageBack(w, kept, gone)
        PROVE  \A v \in Workers : task'[v] = task[v] \/ task'[v].off = -1
    BY <2>2, <2>5 DEF SendMessageBack, Task, NoOffset
  <2>6. ASSUME NEW w \in Workers, UpdateOffset(w)
        PROVE  \A v \in Workers : task'[v] = task[v] \/ task'[v].off = -1
    BY <2>2, <2>6 DEF UpdateOffset, NoTask, NoOffset
  <2> QED
    BY <2>1, <2>3, <2>4, <2>5, <2>6 DEF ConsumeNext, DiscardRequest, OnTimeOut
<1>3. \A d \in Clients : \/ offsetTable'[d] = offsetTable[d]
                         \/ \E w \in Workers : offsetTable'[d] = task[w].off
  <2>1. ASSUME NEW w \in Workers, UpdateOffset(w)
        PROVE  \A d \in Clients : offsetTable'[d] \in {offsetTable[d], task[w].off}
    BY <2>1 DEF UpdateOffset, updateOffset, UpdatedOffset, TypeOK
  <2>2. UNCHANGED offsetTable \/ \E w \in Workers : UpdateOffset(w)
    BY DEF ConsumeNext, DiscardRequest, StartRequest, ConsumeMessage, SendMessageBack,
       RemoveMessage, OnTimeOut
  <2> QED
    BY <2>1, <2>2
<1>4. \A w \in Workers : SafeNext(task'[w].off)
  BY <1>0, <1>2, SmallSafe, RemoveResultSafe DEF OffsetsSafe
<1>5. /\ SafeNext(brokerOffset') /\ \A v \in commits' : SafeNext(v)
      /\ \A d \in Clients : SafeNext(offsetTable'[d]) /\ SafeNext(rebalance'[d].off)
      /\ \A q \in PQs : SafeNext(pullCommit'[q])
  BY <1>0, <1>1, <1>3 DEF OffsetsSafe
<1> QED
  BY <1>4, <1>5, OffsetsSafeNext

\* A crash only forgets offsets, or leaves those of its pulls in flight.
LEMMA CrashSafe ==
    ASSUME TypeOK, TypeOK', OffsetsSafe, NEW c \in Clients, Crash(c)
    PROVE  OffsetsSafe'
<1>0. \A v : SafeOffset(v) => SafeNext(v)
  <2>1. Next
    BY DEF Next
  <2> QED
    BY <2>1, DoneGrows
<1>1. NoTask.off = -1 /\ Idle.off = -1 /\ brokerOffset' = brokerOffset
  BY DEF NoTask, Idle, NoOffset, Crash
<1>2. /\ \A d \in Clients : offsetTable'[d] = offsetTable[d] \/ offsetTable'[d] = -1
      /\ \A d \in Clients : rebalance'[d] = rebalance[d] \/ rebalance'[d] = Idle
  BY DEF Crash, TypeOK, NoOffset
<1>3. /\ \A v \in commits' : v \in commits \/ \E q \in PQs : v = pullCommit[q]
      /\ \A q \in PQs : pullCommit'[q] \in {pullCommit[q], -1}
  BY DEF Crash, NoOffset
<1>4. \A w \in Workers : task'[w] = task[w] \/ task'[w] = NoTask
  BY DEF Crash
<1>5. /\ SafeNext(brokerOffset') /\ \A v \in commits' : SafeNext(v)
      /\ \A d \in Clients : SafeNext(offsetTable'[d]) /\ SafeNext(rebalance'[d].off)
      /\ \A q \in PQs : SafeNext(pullCommit'[q])
      /\ \A w \in Workers : SafeNext(task'[w].off)
  BY <1>0, <1>1, <1>2, <1>3, <1>4, SmallSafe DEF OffsetsSafe
<1> QED
  BY <1>5, OffsetsSafeNext

\* A tree that loses no unfinished message below a position that does not move
\* goes on covering it.
LEMMA CoverAtFrame ==
    ASSUME NEW p \in PQs, Done \subseteq Done', CoverAt(p), nextOffset'[p] = nextOffset[p],
           queueOffsetMax'[p] = queueOffsetMax[p],
           msgTreeMap'[p] \subseteq msgTreeMap[p], msgTreeMap[p] \ msgTreeMap'[p] \subseteq Done
    PROVE  CoverAt(p)'
<1>1. \A o : o \in Done \/ o \in msgTreeMap[p] => o \in Done' \/ o \in msgTreeMap'[p]
  OBVIOUS
<1>2. Covered(p, nextOffset[p])'
  BY <1>1 DEF CoverAt, Covered
<1>3. msgTreeMap'[p] # {} => Covered(p, queueOffsetMax[p] + 1)'
  BY <1>1 DEF CoverAt, Covered
<1> QED
  BY <1>2, <1>3 DEF CoverAt

\* The broker's and the timer's steps touch no tree.
LEMMA BrokerCover ==
    ASSUME TypeOK, TypeOK', TreesCover, BrokerNext
    PROVE  TreesCover'
<1>1. UNCHANGED <<owner, msgTreeMap, queueOffsetMax, nextOffset>>
  BY DEF BrokerNext, Produce, Expire, DeliverCommit, PersistAll, pqVars, pullVars
<1>2. Done \subseteq Done'
  BY DoneGrows DEF Next, BrokerNext
<1> QED
  BY <1>1, <1>2, CoverAtFrame DEF TreesCover

\* A new ProcessQueue starts with an empty tree at a safe offset.
LEMMA RebalanceCover ==
    ASSUME TypeOK, TypeOK', MemoryOK, OffsetsSafe, TreesCover,
           NEW c \in Clients, RebalanceNext(c)
    PROVE  TreesCover'
<1>0. Done \subseteq Done'
  BY DoneGrows DEF Next, RebalanceNext
<1>1. CASE \E p \in PQs : AddProcessQueue(c, p)
  <2>1. PICK p \in PQs : AddProcessQueue(c, p)
    BY <1>1
  <2>2. /\ UNCHANGED <<msgTreeMap, queueOffsetMax>>
        /\ owner[p] \notin Clients /\ nextOffset'[p] = rebalance[c].off
        /\ \A q \in PQs \ {p} : owner'[q] = owner[q] /\ nextOffset'[q] = nextOffset[q]
    BY <2>1, ConstantsAssumption DEF AddProcessQueue, TypeOK
  <2>3. msgTreeMap[p] = {}
    BY <2>2 DEF MemoryOK
  <2>4. CoverAt(p)'
    <3>1. SafeOffset(rebalance[c].off)
      BY DEF OffsetsSafe
    <3> QED
      BY <1>0, <2>2, <2>3, <3>1 DEF CoverAt, Covered, SafeOffset
  <2>5. ASSUME NEW q \in PQs \ {p}, owner'[q] \in Clients PROVE CoverAt(q)'
    BY <1>0, <2>2, <2>5, CoverAtFrame DEF TreesCover
  <2> QED
    BY <2>4, <2>5 DEF TreesCover
<1>2. ASSUME ~ \E p \in PQs : AddProcessQueue(c, p) PROVE TreesCover'
  <2>1. UNCHANGED <<owner, msgTreeMap, queueOffsetMax, nextOffset>>
    BY <1>2 DEF RebalanceNext, EraseProcessQueue, SetDropped, RemoveUnnecessaryMessageQueue,
       TruncateMessageQueueNotMyTopic, ComputePullFromWhere, ReadOffset, ChangeSubscription,
       pqVars, pullVars
  <2> QED
    BY <1>0, <2>1, CoverAtFrame DEF TreesCover
<1> QED
  BY <1>1, <1>2

\* A reply brings every message between the request's old and new position.
LEMMA PullCover ==
    ASSUME TypeOK, TypeOK', MemoryOK, PullOK, TreesCover, NEW p \in PQs, PullNext(p)
    PROVE  TreesCover'
<1> USE DEF brokerVars, clientVars, pqVars, pullVars, workVars
<1>0. Done = Done'
  BY DEF PullNext, PullDropped, PullLater, PullKernel, BrokerPull, OnFound, OnNoNewMsg,
     OnNoMatchedMsg, OnOffsetIllegal, OnException, Done
<1>1. /\ UNCHANGED owner /\ owner[p] \in Clients
      /\ \A q \in PQs \ {p} : /\ msgTreeMap'[q] = msgTreeMap[q]
                              /\ queueOffsetMax'[q] = queueOffsetMax[q]
                              /\ nextOffset'[q] = nextOffset[q]
  <2>1. UNCHANGED owner /\ owner[p] \in Clients
    BY DEF PullNext, PullDropped, PullLater, PullKernel, BrokerPull, OnFound, OnNoNewMsg,
       OnNoMatchedMsg, OnOffsetIllegal, OnException, MemoryOK
  <2>2. \A q \in PQs \ {p} : /\ msgTreeMap'[q] = msgTreeMap[q]
                             /\ queueOffsetMax'[q] = queueOffsetMax[q]
                             /\ nextOffset'[q] = nextOffset[q]
    BY DEF PullNext, PullDropped, PullLater, PullKernel, BrokerPull, OnFound, OnNoNewMsg,
       OnNoMatchedMsg, OnOffsetIllegal, OnException, PutMessage, TypeOK
  <2> QED
    BY <2>1, <2>2
<1>2. /\ \A q \in PQs : queueOffsetMax[q] \in Int /\ nextOffset[q] \in Int
      /\ \A o \in Matching : o \in Int
      /\ reply[p].next \in Int /\ CoverAt(p)
  BY <1>1, ConstantsAssumption DEF TypeOK, Offsets, LongMax, PullReplies, TreesCover
<1>3. CoverAt(p)'
  <2>1. CASE OnFound(p)
    <3>1. /\ nextOffset'[p] = reply[p].next
          /\ msgTreeMap'[p] = msgTreeMap[p] \cup reply[p].msgs
          /\ queueOffsetMax'[p] = IF reply[p].msgs = {} THEN queueOffsetMax[p]
                                  ELSE Greatest(reply[p].msgs)
      BY <2>1 DEF OnFound, PutMessage, TypeOK
    <3>2. /\ nextOffset[p] < reply[p].next
          /\ reply[p].msgs = {o \in Matching : nextOffset[p] <= o /\ o < reply[p].next}
      BY <2>1 DEF OnFound, PullOK, PullAt
    <3>3. Covered(p, nextOffset[p])'
      BY <1>0, <1>2, <3>1, <3>2 DEF CoverAt, Covered
    <3>4. CASE reply[p].msgs = {}
      <4>1. msgTreeMap'[p] = msgTreeMap[p] /\ queueOffsetMax'[p] = queueOffsetMax[p]
        BY <3>1, <3>4
      <4> QED
        BY <1>0, <1>2, <3>3, <4>1 DEF CoverAt, Covered
    <3>5. CASE reply[p].msgs # {}
      <4>1. reply[p].msgs \in SUBSET Messages
        BY DEF TypeOK, PullReplies
      <4>2. Greatest(reply[p].msgs) \in reply[p].msgs
        BY <3>5, <4>1, GreatestIsMaximum
      <4>3. queueOffsetMax'[p] \in Int /\ queueOffsetMax'[p] < reply[p].next
        BY <1>2, <3>1, <3>2, <3>5, <4>2
      <4>4. \A o \in Matching : o < queueOffsetMax'[p] + 1 => o < nextOffset'[p]
        BY <1>2, <3>1, <4>3
      <4> QED
        BY <3>3, <4>4 DEF CoverAt, Covered
    <3> QED
      BY <3>4, <3>5
  <2>2. ASSUME ~OnFound(p) PROVE UNCHANGED <<msgTreeMap, queueOffsetMax>>
    BY <2>2 DEF PullNext, PullDropped, PullLater, PullKernel, BrokerPull, OnNoNewMsg,
       OnNoMatchedMsg, OnOffsetIllegal, OnException
  <2>3. ASSUME ~OnFound(p), Covered(p, nextOffset[p])' PROVE CoverAt(p)'
    BY <1>0, <1>2, <2>2, <2>3 DEF CoverAt, Covered
  <2>4. CASE OnNoNewMsg(p)
    <3>1. nextOffset'[p] = nextOffset[p] /\ ~OnFound(p)
      BY <2>4 DEF OnNoNewMsg, OnFound, TypeOK, PullOK, PullAt
    <3> QED
      BY <1>0, <1>2, <2>2, <2>3, <3>1 DEF CoverAt, Covered
  <2>5. CASE OnNoMatchedMsg(p)
    <3>1. nextOffset'[p] = reply[p].next /\ ~OnFound(p)
      BY <2>5 DEF OnNoMatchedMsg, OnFound, TypeOK
    <3>2. {o \in Matching : nextOffset[p] <= o /\ o < reply[p].next} = {}
      BY <2>5 DEF OnNoMatchedMsg, PullOK, PullAt
    <3>3. \A o \in Matching : o < reply[p].next => o < nextOffset[p]
      BY <1>2, <3>2
    <3> QED
      BY <1>0, <1>2, <2>2, <2>3, <3>1, <3>3 DEF CoverAt, Covered
  <2>6. CASE OnOffsetIllegal(p)
    <3>1. nextOffset'[p] = FixedOffset(p) /\ ~OnFound(p)
      BY <2>6 DEF OnOffsetIllegal, OnFound, TypeOK
    <3>2. SafeOffset(FixedOffset(p))
      BY <1>1, <2>6, FixedOffsetSafe DEF OnOffsetIllegal
    <3> QED
      BY <1>0, <2>3, <3>1, <3>2 DEF Covered, SafeOffset
  <2>7. ASSUME ~OnFound(p), ~OnNoNewMsg(p), ~OnNoMatchedMsg(p), ~OnOffsetIllegal(p)
        PROVE  CoverAt(p)'
    <3>1. UNCHANGED nextOffset
      BY <2>7 DEF PullNext, PullDropped, PullLater, PullKernel, BrokerPull, OnException
    <3> QED
      BY <1>0, <1>2, <2>2, <2>3, <2>7, <3>1 DEF CoverAt, Covered
  <2> QED
    BY <2>1, <2>4, <2>5, <2>6, <2>7
<1>4. ASSUME NEW q \in PQs \ {p}, owner'[q] \in Clients PROVE CoverAt(q)'
  BY <1>0, <1>1, <1>4, CoverAtFrame DEF TreesCover
<1> QED
  BY <1>3, <1>4 DEF TreesCover

\* A consume thread removes only what is finished.
LEMMA ConsumeCover ==
    ASSUME TypeOK, TypeOK', MemoryOK, TaskOK, TreesCover, ConsumeNext
    PROVE  TreesCover'
<1> USE DEF brokerVars, clientVars, pqVars, pullVars, workVars
<1>0. Done \subseteq Done'
  <2>1. Next
    BY Zenon DEF Next, ConsumeNext
  <2> QED
    BY <2>1, DoneGrows
<1>1. UNCHANGED <<owner, queueOffsetMax, nextOffset>>
  BY DEF ConsumeNext, DiscardRequest, StartRequest, ConsumeMessage, SendMessageBack,
     RemoveMessage, UpdateOffset, OnTimeOut
<1>2. \A p \in PQs : /\ msgTreeMap'[p] \subseteq msgTreeMap[p]
                     /\ msgTreeMap[p] \ msgTreeMap'[p] \subseteq Done
  <2>1. ASSUME NEW w \in Workers, RemoveMessage(w)
        PROVE  \A p \in PQs : /\ msgTreeMap'[p] \subseteq msgTreeMap[p]
                              /\ msgTreeMap[p] \ msgTreeMap'[p] \subseteq Done
    <3>1. task[w].msgs \subseteq Done
      BY <2>1 DEF RemoveMessage, TaskOK, Done
    <3>2. \A p \in PQs : msgTreeMap'[p] \in {msgTreeMap[p], msgTreeMap[p] \ task[w].msgs}
      BY <2>1 DEF RemoveMessage, TypeOK
    <3> QED
      BY <3>1, <3>2
  <2>2. ASSUME ~ \E w \in Workers : RemoveMessage(w) PROVE UNCHANGED msgTreeMap
    BY <2>2 DEF ConsumeNext, DiscardRequest, StartRequest, ConsumeMessage, SendMessageBack,
       UpdateOffset, OnTimeOut
  <2> QED
    BY <2>1, <2>2
<1> QED
  BY <1>0, <1>1, <1>2, CoverAtFrame DEF TreesCover

\* The ProcessQueues of the other clients survive a crash as they are.
LEMMA CrashCover ==
    ASSUME TypeOK, TypeOK', TreesCover, NEW c \in Clients, Crash(c)
    PROVE  TreesCover'
<1>0. Done \subseteq Done'
  BY DoneGrows DEF Next
<1>1. \A p \in PQs : owner'[p] \in Clients =>
         /\ owner'[p] = owner[p] /\ msgTreeMap'[p] = msgTreeMap[p]
         /\ queueOffsetMax'[p] = queueOffsetMax[p] /\ nextOffset'[p] = nextOffset[p]
  BY ConstantsAssumption DEF Crash
<1> QED
  BY <1>0, <1>1, CoverAtFrame DEF TreesCover

-----------------------------------------------------------------------------
\* The inductive invariant of at-least-once delivery.
DeliveryInv == HoldInv /\ OffsetsSafe /\ TreesCover

\* At the start the broker holds offset 0 or none, and no client owns the queue.
LEMMA InitDeliveryInv == Init => DeliveryInv
<1> SUFFICES ASSUME Init PROVE DeliveryInv
  OBVIOUS
<1>1. \A v \in {0, -1} : SafeOffset(v)
  BY ConstantsAssumption DEF SafeOffset
<1>2. /\ brokerOffset \in {0, -1} /\ commits = {}
      /\ \A c \in Clients : offsetTable[c] = -1 /\ rebalance[c].off = -1
      /\ \A p \in PQs : pullCommit[p] = -1 /\ owner[p] \notin Clients
      /\ \A w \in Workers : task[w].off = -1
  BY ConstantsAssumption DEF Init, NoOffset, Idle, NoTask
<1> QED
  BY <1>1, <1>2, InitHoldInv DEF DeliveryInv, OffsetsSafe, TreesCover

\* Every step preserves it, whichever thread, client or broker takes it.
LEMMA NextDeliveryInv ==
    ~ReplicaLags /\ BootOffset = 0 /\ DeliveryInv /\ [Next]_vars => DeliveryInv'
<1> SUFFICES ASSUME ~ReplicaLags, BootOffset = 0, DeliveryInv, [Next]_vars
             PROVE  DeliveryInv'
  OBVIOUS
<1> USE DEF DeliveryInv
<1>1. HoldInv' /\ TypeOK'
  <2>1. HoldInv'
    BY NextHoldInv
  <2> QED
    BY <2>1 DEF HoldInv
<1>2. TypeOK /\ MemoryOK /\ PullOK /\ TaskOK /\ CountMatches
  BY DEF HoldInv
<1>3. CASE UNCHANGED vars
  BY <1>1, <1>3 DEF vars, brokerVars, clientVars, pqVars, pullVars, workVars, OffsetsSafe,
     SafeOffset, TreesCover, CoverAt, Covered, Done
<1>4. CASE Next
  <2>1. OffsetsSafe'
    BY <1>1, <1>2, <1>4, NextByActor, BrokerSafe, RebalanceSafe, PullSafe, ConsumeSafe,
       CrashSafe
  <2>2. TreesCover'
    BY <1>1, <1>2, <1>4, NextByActor, BrokerCover, RebalanceCover, PullCover, ConsumeCover,
       CrashCover
  <2> QED
    BY <1>1, <2>1, <2>2
<1> QED
  BY <1>3, <1>4

\* At-least-once delivery of a group that starts at the first message when it has
\* no offset, with pulls served by the master: whatever the clients, threads,
\* batches, lost and reordered updates, crashes and rebalances, the offset the
\* broker stores never passes a message that is not acknowledged, stored again,
\* expired, or lost by the send that replaces a failed consumerSendMessageBack.
THEOREM AtLeastOnceHolds ==
    ~ReplicaLags /\ BootOffset = 0 => (Spec => []AtLeastOnce)
<1>1. Init => DeliveryInv
  BY InitDeliveryInv
<1>2. ASSUME ~ReplicaLags, BootOffset = 0
      PROVE  DeliveryInv /\ [Next]_vars => DeliveryInv'
  BY <1>2, NextDeliveryInv
<1>3. DeliveryInv => AtLeastOnce
  BY DEF DeliveryInv, OffsetsSafe, SafeOffset, AtLeastOnce
<1> SUFFICES ASSUME ~ReplicaLags, BootOffset = 0 PROVE Spec => []AtLeastOnce
  OBVIOUS
<1> QED
  BY <1>1, <1>2, <1>3, PTL DEF Spec
=============================================================================
