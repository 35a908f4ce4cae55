----------------------- MODULE OrderlyConsumeProofs -----------------------
(***************************************************************************)
(* Orderly consumption, for any number of consume threads, ProcessQueues   *)
(* and messages and any batch sizes: the queue has one request at a time,  *)
(* messages that wait have it, the listener gets them in order, the offset *)
(* follows what was committed, and the message count is exact.             *)
(***************************************************************************)
EXTENDS OrderlyConsume, FiniteSetTheorems, WellFoundedInduction, TLAPS

-----------------------------------------------------------------------------
(* Sets of messages. *)

\* Sets of messages are finite.
LEMMA MessagesFinite ==
    ASSUME NEW S \in SUBSET Messages
    PROVE  IsFiniteSet(S) /\ Cardinality(S) \in Nat /\ S \subseteq Nat
<1>1. IsFiniteSet(Messages) /\ Messages \subseteq Nat
  BY OrderlyAssumption, FS_Interval DEF Messages
<1>2. IsFiniteSet(S)
  BY <1>1, FS_Subset
<1>3. QED BY <1>1, <1>2, FS_CardinalityType

\* The last entry of the temporary tree, m_msgTreeMapTemp.rbegin().
LEMMA GreatestIsMaximum ==
    ASSUME NEW S \in SUBSET Messages, S # {}
    PROVE  Greatest(S) \in S /\ \A y \in S : y <= Greatest(S)
<1> DEFINE R == OpToRel(<, Nat)
           T == {n \in Nat : \A y \in S : y <= n}
<1>1. S \subseteq Nat /\ MaxOffset \in T
  BY OrderlyAssumption, MessagesFinite DEF Messages
<1>2. PICK m \in T : \A n \in T : <<n, m>> \notin R
  BY <1>1, WFMin, NatLessThanWellFounded
<1>3. \A n \in T : ~(n < m)
  BY <1>2 DEF OpToRel
<1>4. m \in S
  <2> SUFFICES ASSUME m \notin S PROVE FALSE
    OBVIOUS
  <2>1. PICK y \in S : TRUE
    OBVIOUS
  <2>2. \A z \in S : z <= m - 1
    BY <1>1
  <2>3. m - 1 \in T
    BY <1>1, <2>1, <2>2
  <2>4. QED BY <1>3, <2>3
<1>5. \E x \in S : \A y \in S : x >= y
  BY <1>1, <1>4
<1>6. Greatest(S) \in S /\ \A y \in S : Greatest(S) >= y
  BY <1>5 DEF Greatest
<1>7. QED BY <1>1, <1>6

\* takeMessages takes some messages of a tree that has any, the first ones.
LEMMA FirstMessagesFirst ==
    ASSUME NEW tree \in SUBSET Messages
    PROVE  /\ FirstMessages(tree) \subseteq tree
           /\ \A t \in FirstMessages(tree), o \in tree \ FirstMessages(tree) : t < o
<1> DEFINE Before(o) == {x \in tree : x < o}
<1>1. tree \subseteq Nat
  BY MessagesFinite
<1>2. \A o \in tree : IsFiniteSet(Before(o)) /\ Cardinality(Before(o)) \in Nat
  <2> SUFFICES ASSUME NEW o \in tree PROVE IsFiniteSet(Before(o)) /\ Cardinality(Before(o)) \in Nat
    OBVIOUS
  <2>1. Before(o) \in SUBSET Messages
    OBVIOUS
  <2>2. QED BY <2>1, MessagesFinite
<1>3. ASSUME NEW t \in FirstMessages(tree), NEW o \in tree \ FirstMessages(tree) PROVE t < o
  <2> SUFFICES ASSUME o <= t PROVE FALSE
    BY <1>1 DEF FirstMessages
  <2>1. t \in tree /\ Cardinality(Before(t)) < ConsumeBatch
    BY DEF FirstMessages
  <2>2. Before(o) \in SUBSET Before(t)
    <3>1. ASSUME NEW x \in tree, x < o PROVE x < t
      <4>1. x \in Nat /\ o \in Nat /\ t \in Nat
        BY <1>1, <2>1
      <4>2. QED BY <3>1, <4>1
    <3>2. QED BY <3>1
  <2>3. Cardinality(Before(o)) <= Cardinality(Before(t))
    BY <1>2, <2>1, <2>2, FS_Subset
  <2>4. Cardinality(Before(o)) < ConsumeBatch
    <3>1. Cardinality(Before(o)) \in Nat /\ Cardinality(Before(t)) \in Nat /\ ConsumeBatch \in Nat
      BY <1>2, <2>1, OrderlyAssumption
    <3> HIDE DEF Before
    <3>2. QED BY <2>1, <2>3, <3>1
  <2>5. QED BY <2>4 DEF FirstMessages
<1>4. QED BY <1>3 DEF FirstMessages

\* Moving messages from one tree to the other, or adding new ones.
LEMMA DisjointUnionCounts ==
    ASSUME NEW S \in SUBSET Messages, NEW T \in SUBSET Messages, S \cap T = {}
    PROVE  Cardinality(S \cup T) = Cardinality(S) + Cardinality(T)
<1>1. /\ IsFiniteSet(S) /\ Cardinality(S) \in Nat
      /\ IsFiniteSet(T) /\ Cardinality(T) \in Nat
  BY MessagesFinite
<1>2. Cardinality(S \cup T) = Cardinality(S) + Cardinality(T) - Cardinality(S \cap T)
  BY <1>1, FS_Union
<1>3. QED BY <1>1, <1>2, FS_EmptySet

\* Moving messages from one tree to the other keeps the number of both.
LEMMA MoveCounts ==
    ASSUME NEW S \in SUBSET Messages, NEW T \in SUBSET Messages, NEW M \in SUBSET S, S \cap T = {}
    PROVE  Cardinality(S \ M) + Cardinality(T \cup M) = Cardinality(S) + Cardinality(T)
<1>1. Cardinality(T \cup M) = Cardinality(T) + Cardinality(M)
  BY DisjointUnionCounts
<1>2. Cardinality((S \ M) \cup M) = Cardinality(S \ M) + Cardinality(M)
  BY DisjointUnionCounts
<1>3. (S \ M) \cup M = S
  OBVIOUS
<1>4. /\ Cardinality(S \ M) \in Nat /\ Cardinality(M) \in Nat /\ Cardinality(T) \in Nat
  BY MessagesFinite
<1>5. QED BY <1>1, <1>2, <1>3, <1>4
-----------------------------------------------------------------------------
(* The inductive invariant. *)

TypeOK ==
    /\ stored \in Int /\ offsetTable \in Int
    /\ finished \in SUBSET Messages /\ lost \in SUBSET Messages /\ abandoned \in SUBSET PQs
    /\ table \in PQs \cup {NoPQ} /\ created \in SUBSET PQs
    /\ giving \in [pc : {"idle", "drop", "remove"}, pq : PQs \cup {NoPQ}]
    /\ dropped \in [PQs -> BOOLEAN]
    /\ msgTreeMap \in [PQs -> SUBSET Messages] /\ msgTreeMapTemp \in [PQs -> SUBSET Messages]
    /\ msgCount \in [PQs -> Int] /\ consuming \in [PQs -> BOOLEAN]
    /\ locked \in [PQs -> BOOLEAN] /\ expired \in [PQs -> BOOLEAN]
    /\ nextOffset \in [PQs -> Int] /\ inflight \in [PQs -> BOOLEAN] /\ minOffset \in Int
    /\ work \in SUBSET PQs /\ later \in SUBSET PQs /\ tryLock \in SUBSET PQs
    /\ thread \in [Workers -> [pc : {"idle", "loop", "take", "listener", "clear", "update"},
                               pq : PQs \cup {NoPQ}, msgs : SUBSET Messages, off : Int]]
    /\ hung \in BOOLEAN /\ stoped \in BOOLEAN

\* Only the thread that has the queue's lock runs a request.
MutexOK ==
    \A w \in Workers : IF w = mutex THEN thread[w].pc # "idle" /\ thread[w].pq \in PQs
                                    ELSE thread[w] = Idle

\* m_consuming is set exactly while there is a request, unless it was abandoned.
RequestsOK ==
    /\ work \cap later = {} /\ work \cap tryLock = {} /\ later \cap tryLock = {}
    /\ \A p \in work \cup later \cup tryLock : consuming[p] /\ \A w \in Workers : thread[w].pq # p
    /\ \A w \in Workers : thread[w].pq \in PQs => consuming[thread[w].pq]
    /\ \A p \in PQs \ abandoned :
          /\ consuming[p] => p \in work \cup later \cup tryLock \/ \E w \in Workers : thread[w].pq = p
          /\ msgTreeMap[p] # {} => consuming[p]

\* A ProcessQueue is empty until it is made.
CreatedOK ==
    \A p \in PQs \ created : ~inflight[p] /\ msgTreeMap[p] = {} /\ msgTreeMapTemp[p] = {}

\* A listener has a batch of the temporary tree.
BatchOK ==
    \A w \in Workers : thread[w].pc = "listener" =>
       thread[w].msgs # {} /\ thread[w].msgs \subseteq msgTreeMapTemp[thread[w].pq]

\* What was pulled precedes the next offset.
PulledOK ==
    \A p \in PQs : \A o \in msgTreeMap[p] \cup msgTreeMapTemp[p] : o < nextOffset[p]

\* A message that need not be consumed: committed, thrown away or expired.
Passed(o) == o \in finished \cup lost \/ o < minOffset

\* A matching message below the next offset is in a tree, unless it is
\* finished with; below an offset that is to be stored it is finished with.
CoverOK ==
    /\ \A p \in PQs : \A o \in Matching : o < nextOffset[p] =>
          Passed(o) \/ o \in msgTreeMap[p] \cup msgTreeMapTemp[p]
    /\ \A w \in Workers : thread[w].pc = "update" =>
          \A o \in Matching : o < thread[w].off => Passed(o)

\* A lagging replica sends the request back over what it has pulled; requests and
\* locks stay in order then too, and the rest is for pulls the master serves.
IInv ==
    /\ TypeOK /\ MutexOK /\ RequestsOK /\ CreatedOK /\ BatchOK
    /\ ~ReplicaLags =>
          PulledOK /\ TakenInOrder /\ CoverOK /\ CommittedFirst /\ BothTreesCounted

\* The inductive invariant says what the five properties promise.
LEMMA IInvImplies ==
    IInv => /\ OneRequest /\ WaitingHasRequest
            /\ ~ReplicaLags => TakenInOrder /\ CommittedFirst /\ BothTreesCounted
<1> SUFFICES ASSUME IInv PROVE OneRequest /\ WaitingHasRequest
  BY DEF IInv
<1>1. ASSUME NEW p \in PQs PROVE Cardinality(Running(p)) <= 1
  <2>1. Running(p) \in SUBSET {mutex}
    BY OrderlyAssumption DEF IInv, MutexOK, Running, Idle, Thread
  <2>2. IsFiniteSet({mutex}) /\ Cardinality({mutex}) = 1
    BY FS_Singleton
  <2>3. Cardinality(Running(p)) <= Cardinality({mutex})
    BY <2>1, <2>2, FS_Subset
  <2>4. QED BY <2>2, <2>3
<1>2. OneRequest
  BY <1>1 DEF IInv, RequestsOK, OneRequest, Running
<1>3. WaitingHasRequest
  BY DEF IInv, TypeOK, RequestsOK, WaitingHasRequest, Running
<1>4. QED BY <1>2, <1>3

\* An idle thread's record is well typed.
LEMMA IdleType ==
    Idle \in [pc : {"idle", "loop", "take", "listener", "clear", "update"},
              pq : PQs \cup {NoPQ}, msgs : SUBSET Messages, off : Int]
BY DEF Idle, Thread, NoOffset

\* At the start there is no message and no request.
LEMMA InitIInv == Init => IInv
<1> SUFFICES ASSUME Init PROVE IInv
  OBVIOUS
<1> USE DEF Init
<1>1. TypeOK
  <2>1. /\ stored \in Int /\ offsetTable \in Int /\ minOffset \in Int
        /\ giving \in [pc : {"idle", "drop", "remove"}, pq : PQs \cup {NoPQ}]
    BY DEF NoOffset, NotGiving
  <2>2. /\ finished \in SUBSET Messages /\ lost \in SUBSET Messages /\ abandoned \in SUBSET PQs
        /\ table \in PQs \cup {NoPQ} /\ created \in SUBSET PQs
        /\ work \in SUBSET PQs /\ later \in SUBSET PQs /\ tryLock \in SUBSET PQs
    OBVIOUS
  <2>3. /\ msgTreeMap \in [PQs -> SUBSET Messages] /\ msgTreeMapTemp \in [PQs -> SUBSET Messages]
        /\ msgCount \in [PQs -> Int] /\ nextOffset \in [PQs -> Int]
    OBVIOUS
  <2>4. /\ dropped \in [PQs -> BOOLEAN] /\ consuming \in [PQs -> BOOLEAN]
        /\ locked \in [PQs -> BOOLEAN] /\ expired \in [PQs -> BOOLEAN]
        /\ inflight \in [PQs -> BOOLEAN] /\ hung \in BOOLEAN /\ stoped \in BOOLEAN
    OBVIOUS
  <2>5. QED BY <2>1, <2>2, <2>3, <2>4, IdleType DEF TypeOK
<1>2. MutexOK /\ RequestsOK /\ CreatedOK /\ BatchOK
  BY OrderlyAssumption DEF MutexOK, RequestsOK, CreatedOK, BatchOK, Idle, Thread
<1>3. PulledOK /\ TakenInOrder
  BY DEF PulledOK, TakenInOrder, Idle, Thread
<1>4. CoverOK /\ CommittedFirst
  <2>1. Matching \subseteq Nat
    BY OrderlyAssumption
  <2>2. QED BY <2>1 DEF CoverOK, Passed, CommittedFirst, NoOffset, Idle, Thread
<1>5. BothTreesCounted
  BY FS_EmptySet DEF BothTreesCounted
<1>6. QED BY <1>1, <1>2, <1>3, <1>4, <1>5 DEF IInv
-----------------------------------------------------------------------------
(* Steps that leave the trees alone. *)

\* A step that leaves the trees alone, and brings no thread to its listener.
LEMMA TreesFrame ==
    ASSUME IInv, TypeOK',
           UNCHANGED <<msgTreeMap, msgTreeMapTemp, msgCount, nextOffset, finished, lost, created>>,
           minOffset <= minOffset',
           \A p \in PQs : inflight'[p] => inflight[p] \/ p \in created,
           \A w \in Workers : thread'[w].pc \in {"listener", "update"} => thread'[w] = thread[w]
    PROVE  /\ CreatedOK' /\ BatchOK'
           /\ ~ReplicaLags => PulledOK' /\ TakenInOrder' /\ CoverOK' /\ BothTreesCounted'
<1>1. CreatedOK' /\ BatchOK' /\ (~ReplicaLags => BothTreesCounted')
  BY DEF IInv, CreatedOK, BatchOK, BothTreesCounted
<1>2. ~ReplicaLags => PulledOK' /\ TakenInOrder'
  BY DEF IInv, PulledOK, TakenInOrder
<1>3. ~ReplicaLags => CoverOK'
  <2>1. Matching \subseteq Nat /\ minOffset \in Int /\ minOffset' \in Int
    BY OrderlyAssumption DEF IInv, TypeOK
  <2>2. \A o \in Matching : Passed(o) => Passed(o)'
    BY <2>1 DEF Passed
  <2>3. QED BY <2>2 DEF IInv, CoverOK
<1>4. QED BY <1>1, <1>2, <1>3

\* Steps of the rebalance thread, the pull service, the clock and the timer's
\* hanging lockAll.
LEMMA TableSteps ==
    ASSUME IInv,
           \/ EraseProcessQueue \/ SetDropped \/ RemoveUnnecessaryMessageQueue \/ PersistAll
           \/ LockMQPeriodically \/ Expire
           \/ \E p \in PQs : PullMessage(p) \/ LockExpires(p)
    PROVE  IInv'
<1> USE DEF offsetVars, tableVars, treeVars, lockVars, pullVars, workVars
<1>1. /\ UNCHANGED <<treeVars, nextOffset, finished, lost, abandoned, created, workVars>>
      /\ minOffset' \in Int /\ minOffset <= minOffset'
      /\ \A p \in PQs : inflight'[p] => inflight[p] \/ p \in created
  <2>1. CASE \E p \in PQs : PullMessage(p)
    BY <2>1 DEF PullMessage, IInv, TypeOK
  <2>2. CASE \E p \in PQs : LockExpires(p)
    BY <2>2 DEF LockExpires, IInv, TypeOK
  <2>3. CASE Expire
    BY <2>3 DEF Expire, IInv, TypeOK
  <2>4. QED BY <2>1, <2>2, <2>3 DEF EraseProcessQueue, SetDropped, PersistAll,
              RemoveUnnecessaryMessageQueue, LockMQPeriodically, IInv, TypeOK
<1>2. stored' \in {stored, offsetTable} /\ offsetTable' \in {offsetTable, NoOffset}
  BY DEF EraseProcessQueue, SetDropped, RemoveUnnecessaryMessageQueue, PersistAll,
         LockMQPeriodically, PullMessage, LockExpires, Expire
<1>3. TypeOK'
  <2>1. /\ stored' \in Int /\ offsetTable' \in Int
    BY <1>2 DEF IInv, TypeOK, NoOffset
  <2>2. /\ table' \in PQs \cup {NoPQ} /\ giving' \in [pc : {"idle", "drop", "remove"}, pq : PQs \cup {NoPQ}]
    BY DEF EraseProcessQueue, SetDropped, RemoveUnnecessaryMessageQueue, PersistAll,
           LockMQPeriodically, PullMessage, LockExpires, Expire, IInv, TypeOK, NotGiving
  <2>3. /\ dropped' \in [PQs -> BOOLEAN] /\ locked' \in [PQs -> BOOLEAN] /\ expired' \in [PQs -> BOOLEAN]
        /\ inflight' \in [PQs -> BOOLEAN] /\ hung' \in BOOLEAN /\ stoped' \in BOOLEAN
    BY DEF EraseProcessQueue, SetDropped, RemoveUnnecessaryMessageQueue, PersistAll,
           LockMQPeriodically, PullMessage, LockExpires, Expire, IInv, TypeOK
  <2>4. QED BY <1>1, <2>1, <2>2, <2>3 DEF IInv, TypeOK
<1>4. MutexOK' /\ RequestsOK'
  BY <1>1 DEF IInv, MutexOK, RequestsOK
<1>5. ~ReplicaLags => CommittedFirst'
  <2>1. Matching \subseteq Nat /\ minOffset \in Int
    BY OrderlyAssumption DEF IInv, TypeOK
  <2>2. stored \in Int /\ offsetTable \in Int /\ stored' \in Int /\ offsetTable' \in Int
    BY <1>3 DEF IInv, TypeOK
  <2>3. ASSUME ~ReplicaLags, NEW o \in Matching, o < stored' \/ o < offsetTable'
        PROVE  o \in finished' \cup lost' \/ o < minOffset'
    <3>1. o \in Nat /\ (o < stored \/ o < offsetTable)
      BY <1>2, <2>1, <2>2, <2>3 DEF NoOffset
    <3>2. o \in finished \cup lost \/ o < minOffset
      BY <2>3, <3>1 DEF IInv, CommittedFirst
    <3>3. QED BY <1>1, <2>1, <3>1, <3>2
  <2>4. QED BY <2>3 DEF CommittedFirst
<1>6. QED BY <1>1, <1>3, <1>4, <1>5, TreesFrame DEF IInv, TypeOK

\* A new ProcessQueue starts at the stored offset, which only passes what is
\* finished with.
LEMMA AddProcessQueueStep ==
    ASSUME IInv, NEW p \in PQs, AddProcessQueue(p)
    PROVE  IInv'
<1>1. /\ p \notin created /\ created' = created \cup {p} /\ table' = p
      /\ nextOffset' = [nextOffset EXCEPT ![p] = stored] /\ offsetTable' = stored
      /\ UNCHANGED <<stored, finished, lost, abandoned, giving, dropped, msgTreeMap,
                     msgTreeMapTemp, msgCount, consuming, locked, expired, hung, stoped,
                     inflight, minOffset, work, later, tryLock, mutex, thread>>
  BY DEF AddProcessQueue, treeVars, lockVars, workVars
<1>2. TypeOK'
  BY <1>1 DEF IInv, TypeOK
<1>3. MutexOK' /\ RequestsOK' /\ CreatedOK' /\ BatchOK'
  BY <1>1 DEF IInv, MutexOK, RequestsOK, CreatedOK, BatchOK
<1>4. ~ReplicaLags => PulledOK' /\ TakenInOrder'
  BY <1>1 DEF IInv, TypeOK, PulledOK, TakenInOrder, CreatedOK
<1>5. ~ReplicaLags => CoverOK' /\ CommittedFirst'
  BY <1>1 DEF IInv, TypeOK, CoverOK, Passed, CommittedFirst
<1>6. ~ReplicaLags => BothTreesCounted'
  BY <1>1 DEF IInv, BothTreesCounted
<1>7. QED BY <1>2, <1>3, <1>4, <1>5, <1>6 DEF IInv

\* The timer thread's steps only move a request.
LEMMA TimerSteps ==
    ASSUME IInv, NEW p \in PQs,
           OnTimeOutLater(p) \/ \E lockOK \in LockBatchMQ : OnTimeOutTryLock(p, lockOK)
    PROVE  IInv'
<1>1. /\ \/ p \in later /\ later' = later \ {p} /\ work' = work \cup {p} /\ tryLock' = tryLock
         \/ p \in tryLock /\ tryLock' = tryLock \ {p} /\ later' = later \cup {p} /\ work' = work
      /\ UNCHANGED <<offsetVars, tableVars, treeVars, hung, stoped, pullVars, mutex, thread>>
  BY DEF OnTimeOutLater, OnTimeOutTryLock, lockVars
<1>2. locked' \in [PQs -> BOOLEAN] /\ expired' \in [PQs -> BOOLEAN]
  <2>1. CASE UNCHANGED <<locked, expired>>
    BY <2>1 DEF IInv, TypeOK
  <2>2. CASE /\ table \in PQs
             /\ locked' = [locked EXCEPT ![table] = TRUE]
             /\ expired' = [expired EXCEPT ![table] = FALSE]
    BY <2>2 DEF IInv, TypeOK
  <2>3. table # NoPQ => table \in PQs
    BY DEF IInv, TypeOK
  <2>4. QED BY <2>1, <2>2, <2>3 DEF OnTimeOutLater, OnTimeOutTryLock, Lock, lockVars
<1>3. TypeOK'
  BY <1>1, <1>2 DEF IInv, TypeOK, offsetVars, tableVars, treeVars, pullVars
<1>4. MutexOK' /\ RequestsOK'
  <2>1. work' \cup later' \cup tryLock' = work \cup later \cup tryLock
    BY <1>1
  <2>2. work' \cap later' = {} /\ work' \cap tryLock' = {} /\ later' \cap tryLock' = {}
    BY <1>1 DEF IInv, RequestsOK
  <2>3. QED BY <1>1, <2>1, <2>2 DEF IInv, MutexOK, RequestsOK, treeVars, offsetVars
<1>5. ~ReplicaLags => CommittedFirst'
  BY <1>1 DEF IInv, CommittedFirst, offsetVars, pullVars
<1>6. /\ UNCHANGED <<msgTreeMap, msgTreeMapTemp, msgCount, nextOffset, finished, lost, created,
                     inflight, thread, minOffset>>
      /\ minOffset <= minOffset'
  BY <1>1 DEF offsetVars, tableVars, treeVars, pullVars, IInv, TypeOK
<1>7. QED BY <1>3, <1>4, <1>5, <1>6, TreesFrame DEF IInv, TypeOK

-----------------------------------------------------------------------------
(* A pull's answer. *)
LEMMA OnFoundStep ==
    ASSUME IInv, NEW p \in PQs, NEW n \in 0 .. MaxOffset, OnFound(p, n)
    PROVE  IInv'
<1> DEFINE msgs == Pulled(p, n)
           tree == msgTreeMap[p] \cup msgs
<1>1. /\ inflight[p] /\ n > nextOffset[p]
      /\ inflight' = [inflight EXCEPT ![p] = FALSE]
      /\ nextOffset' = [nextOffset EXCEPT ![p] = n]
      /\ msgTreeMap' = [msgTreeMap EXCEPT ![p] = tree]
      /\ msgCount' = [msgCount EXCEPT ![p] = msgCount[p] + Cardinality(msgs)]
      /\ consuming' = [consuming EXCEPT ![p] = consuming[p] \/ NeedsDispatch(p, tree)]
      /\ work' = IF NeedsDispatch(p, tree) THEN work \cup {p} ELSE work
      /\ abandoned' = IF NeedsDispatch(p, tree) THEN abandoned \ {p} ELSE abandoned
      /\ UNCHANGED <<stored, offsetTable, finished, lost, table, giving, created, dropped,
                     msgTreeMapTemp, locked, expired, hung, stoped, minOffset, later, tryLock,
                     mutex, thread>>
  BY DEF OnFound, Answered, PutMessage, tableVars, lockVars
<1>2. /\ msgs \in SUBSET Messages /\ n \in Int /\ nextOffset[p] \in Int /\ Messages \subseteq Nat
      /\ Matching \subseteq Nat /\ \A o \in msgs : nextOffset[p] <= o /\ o < n
      /\ \A o \in Matching : nextOffset[p] <= o /\ o < n => o \in msgs
  BY OrderlyAssumption DEF IInv, TypeOK, Messages, Pulled
<1> HIDE DEF msgs
<1>3. Cardinality(msgs) \in Nat
  BY <1>2, MessagesFinite
<1>4. consuming' \in [PQs -> BOOLEAN] /\ \A q \in PQs : q # p => consuming'[q] = consuming[q]
  BY <1>1 DEF IInv, TypeOK
<1>5. consuming'[p] <=> consuming[p] \/ tree # {}
  BY <1>1 DEF IInv, TypeOK, NeedsDispatch
<1>6. TypeOK'
  <2>1. nextOffset' \in [PQs -> Int] /\ inflight' \in [PQs -> BOOLEAN]
    BY <1>1, <1>2 DEF IInv, TypeOK
  <2>2. tree \in SUBSET Messages /\ msgCount[p] + Cardinality(msgs) \in Int
    <3>1. msgTreeMap[p] \in SUBSET Messages /\ msgCount[p] \in Int
      BY DEF IInv, TypeOK
    <3>2. msgCount[p] + Cardinality(msgs) \in Int
      BY <1>3, <3>1
    <3>3. msgs \in SUBSET Messages
      BY <1>2
    <3>4. tree \in SUBSET Messages
      BY <3>1, <3>3
    <3>5. QED BY <3>2, <3>4
  <2> HIDE DEF tree
  <2>3. msgTreeMap' \in [PQs -> SUBSET Messages] /\ msgCount' \in [PQs -> Int]
    BY <1>1, <2>2 DEF IInv, TypeOK
  <2>4. work' \in SUBSET PQs /\ abandoned' \in SUBSET PQs
    BY <1>1 DEF IInv, TypeOK
  <2>5. QED BY <1>1, <1>4, <2>1, <2>3, <2>4 DEF IInv, TypeOK
<1>7. MutexOK' /\ CreatedOK' /\ BatchOK'
  BY <1>1 DEF IInv, TypeOK, MutexOK, CreatedOK, BatchOK
<1>8. RequestsOK'
  <2>1. CASE NeedsDispatch(p, tree)
    <3>1. /\ ~consuming[p] /\ consuming'[p] /\ work' = work \cup {p} /\ abandoned' = abandoned \ {p}
          /\ p \notin work \cup later \cup tryLock /\ \A w \in Workers : thread[w].pq # p
      BY <1>1, <1>5, <2>1 DEF NeedsDispatch, IInv, RequestsOK
    <3>2. \A q \in PQs : q # p => msgTreeMap'[q] = msgTreeMap[q]
      BY <1>1 DEF IInv, TypeOK
    <3>3. work' \cap later' = {} /\ work' \cap tryLock' = {} /\ later' \cap tryLock' = {}
      BY <1>1, <3>1 DEF IInv, RequestsOK
    <3>4. \A q \in work' \cup later' \cup tryLock' : consuming'[q] /\ \A w \in Workers : thread'[w].pq # q
      BY <1>1, <1>4, <3>1 DEF IInv, TypeOK, RequestsOK
    <3>5. \A w \in Workers : thread'[w].pq \in PQs => consuming'[thread'[w].pq]
      BY <1>1, <1>4, <3>1 DEF IInv, RequestsOK
    <3>6. ASSUME NEW q \in PQs \ abandoned'
          PROVE  /\ consuming'[q] => \/ q \in work' \cup later' \cup tryLock'
                                     \/ \E w \in Workers : thread'[w].pq = q
                 /\ msgTreeMap'[q] # {} => consuming'[q]
      <4>1. CASE q = p
        BY <1>1, <3>1, <4>1
      <4>2. CASE q # p
        <5>1. q \in PQs \ abandoned /\ msgTreeMap'[q] = msgTreeMap[q] /\ consuming'[q] = consuming[q]
          BY <1>4, <3>1, <3>2, <3>6, <4>2
        <5>2. QED BY <1>1, <3>1, <5>1 DEF IInv, RequestsOK
      <4>3. QED BY <4>1, <4>2
    <3>7. QED BY <3>3, <3>4, <3>5, <3>6 DEF RequestsOK
  <2>2. CASE ~NeedsDispatch(p, tree)
    <3>1. work' = work /\ abandoned' = abandoned /\ \A q \in PQs : consuming'[q] <=> consuming[q]
      BY <1>1, <1>4, <1>5, <2>2 DEF NeedsDispatch
    <3>2. \A q \in PQs \ abandoned : msgTreeMap'[q] # {} => consuming[q]
      BY <1>1, <2>2 DEF NeedsDispatch, IInv, TypeOK, RequestsOK
    <3>3. QED BY <1>1, <3>1, <3>2 DEF IInv, TypeOK, RequestsOK
  <2>3. QED BY <2>1, <2>2
<1>9. ~ReplicaLags => PulledOK' /\ TakenInOrder'
  <2> SUFFICES ASSUME ~ReplicaLags PROVE PulledOK' /\ TakenInOrder'
    OBVIOUS
  <2>1. ASSUME NEW q \in PQs, NEW o \in msgTreeMap'[q] \cup msgTreeMapTemp'[q] PROVE o < nextOffset'[q]
    <3>1. CASE q # p
      BY <1>1, <3>1 DEF IInv, TypeOK, PulledOK
    <3>2. CASE q = p
      <4>1. o \in Nat
        BY <1>2, <1>6, <2>1 DEF TypeOK
      <4>2. CASE o \in msgs
        BY <1>1, <1>2, <3>2, <4>2 DEF IInv, TypeOK
      <4>3. CASE o \in msgTreeMap[p] \cup msgTreeMapTemp[p]
        BY <1>1, <1>2, <3>2, <4>1, <4>3 DEF IInv, TypeOK, PulledOK
      <4>4. QED BY <1>1, <2>1, <3>2, <4>2, <4>3 DEF IInv, TypeOK
    <3>3. QED BY <3>1, <3>2
  <2>2. ASSUME NEW q \in PQs, NEW t \in msgTreeMapTemp'[q], NEW o \in msgTreeMap'[q] PROVE t < o
    <3>1. CASE o \in msgTreeMap[q]
      BY <1>1, <3>1 DEF IInv, TakenInOrder
    <3>2. CASE q = p /\ o \in msgs
      <4>1. t \in Nat /\ o \in Nat /\ t < nextOffset[p] /\ nextOffset[p] <= o
        BY <1>1, <1>2, <3>2 DEF IInv, TypeOK, PulledOK
      <4>2. QED BY <1>2, <4>1
    <3>3. QED BY <1>1, <2>2, <3>1, <3>2 DEF IInv, TypeOK
  <2>3. QED BY <1>1, <2>1, <2>2 DEF IInv, PulledOK, TakenInOrder
<1>10. ~ReplicaLags => CoverOK' /\ CommittedFirst'
  <2> SUFFICES ASSUME ~ReplicaLags PROVE CoverOK' /\ CommittedFirst'
    OBVIOUS
  <2>1. ASSUME NEW q \in PQs, NEW o \in Matching, o < nextOffset'[q]
        PROVE  Passed(o) \/ o \in msgTreeMap'[q] \cup msgTreeMapTemp[q]
    <3>1. CASE q # p
      BY <1>1, <2>1, <3>1 DEF IInv, TypeOK, CoverOK
    <3>2. CASE q = p /\ o < nextOffset[p]
      BY <1>1, <3>2 DEF IInv, TypeOK, CoverOK
    <3>3. CASE q = p /\ ~(o < nextOffset[p])
      BY <1>1, <1>2, <2>1, <3>3 DEF IInv, TypeOK
    <3>4. QED BY <3>1, <3>2, <3>3
  <2>2. QED BY <1>1, <2>1 DEF IInv, CoverOK, Passed, CommittedFirst
<1>11. ~ReplicaLags => BothTreesCounted'
  <2> SUFFICES ASSUME ~ReplicaLags PROVE BothTreesCounted'
    OBVIOUS
  <2>1. msgTreeMap[p] \cap msgs = {}
    <3> SUFFICES ASSUME NEW o \in msgTreeMap[p], o \in msgs PROVE FALSE
      OBVIOUS
    <3>1. o < nextOffset[p] /\ nextOffset[p] <= o /\ o \in Nat
      BY <1>2 DEF IInv, PulledOK
    <3>2. QED BY <1>2, <3>1
  <2>2. Cardinality(tree) = Cardinality(msgTreeMap[p]) + Cardinality(msgs)
    BY <1>2, <2>1, DisjointUnionCounts DEF IInv, TypeOK
  <2>3. \A q \in PQs : Cardinality(msgTreeMap[q]) \in Nat /\ Cardinality(msgTreeMapTemp[q]) \in Nat
    BY MessagesFinite DEF IInv, TypeOK
  <2> HIDE DEF tree
  <2>4. ASSUME NEW q \in PQs
        PROVE  LET m == Cardinality(msgTreeMap'[q]) + Cardinality(msgTreeMapTemp[q])
               IN  msgCount'[q] >= m /\ (lost = {} => msgCount'[q] = m)
    <3>1. CASE q # p
      BY <1>1, <3>1 DEF IInv, TypeOK, BothTreesCounted
    <3>2. CASE q = p
      <4>1. msgCount'[q] = msgCount[p] + Cardinality(msgs) /\ msgTreeMap'[q] = tree /\ msgCount[p] \in Int
        BY <1>1, <3>2 DEF IInv, TypeOK
      <4>2. LET m == Cardinality(msgTreeMap[p]) + Cardinality(msgTreeMapTemp[p])
            IN  msgCount[p] >= m /\ (lost = {} => msgCount[p] = m)
        BY DEF IInv, BothTreesCounted
      <4>3. QED BY <1>3, <2>2, <2>3, <3>2, <4>1, <4>2
    <3>3. QED BY <3>1, <3>2
  <2>5. QED BY <1>1, <2>4 DEF BothTreesCounted
<1>12. QED BY <1>6, <1>7, <1>8, <1>9, <1>10, <1>11 DEF IInv

\* An answer without messages: the trees, requests and threads stay, the
\* request moves to n and the offset table may be set to v.
LEMMA AnsweredFrame ==
    ASSUME IInv, NEW p \in PQs, NEW n \in Int, Answered(p, n), offsetTable' \in Int,
           UNCHANGED <<stored, finished, lost, abandoned, tableVars, treeVars, lockVars,
                       minOffset, workVars>>
    PROVE  /\ TypeOK' /\ MutexOK' /\ RequestsOK' /\ CreatedOK' /\ BatchOK'
           /\ ~ReplicaLags => BothTreesCounted' /\ TakenInOrder'
           /\ nextOffset'[p] = n /\ \A q \in PQs : q # p => nextOffset'[q] = nextOffset[q]
<1> USE DEF tableVars, treeVars, lockVars, workVars
<1>1. /\ nextOffset' = [nextOffset EXCEPT ![p] = n] /\ inflight' = [inflight EXCEPT ![p] = FALSE]
  BY DEF Answered
<1>2. TypeOK'
  BY <1>1 DEF IInv, TypeOK
<1>3. MutexOK' /\ RequestsOK'
  BY DEF IInv, MutexOK, RequestsOK
<1>4. CreatedOK' /\ BatchOK'
  BY <1>1 DEF IInv, TypeOK, CreatedOK, BatchOK
<1>5. ~ReplicaLags => BothTreesCounted' /\ TakenInOrder'
  BY DEF IInv, BothTreesCounted, TakenInOrder
<1>6. nextOffset'[p] = n /\ \A q \in PQs : q # p => nextOffset'[q] = nextOffset[q]
  BY <1>1 DEF IInv, TypeOK
<1>7. QED BY <1>2, <1>3, <1>4, <1>5, <1>6

\* correctTagsOffset raises the offset over a queue that has nothing to consume.
LEMMA OnNoNewMsgStep ==
    ASSUME IInv, NEW p \in PQs, OnNoNewMsg(p)
    PROVE  IInv'
<1>1. /\ Answered(p, nextOffset[p]) /\ nextOffset[p] \in Int
      /\ offsetTable' = offsetTable \/ (msgCount[p] = 0 /\ offsetTable' = nextOffset[p])
      /\ UNCHANGED <<stored, finished, lost, abandoned, tableVars, treeVars, lockVars, minOffset,
                     workVars>>
  BY DEF OnNoNewMsg, CorrectTagsOffset, IInv, TypeOK
<1>2. offsetTable' \in Int
  BY <1>1 DEF IInv, TypeOK
<1>3. /\ TypeOK' /\ MutexOK' /\ RequestsOK' /\ CreatedOK' /\ BatchOK'
      /\ ~ReplicaLags => BothTreesCounted' /\ TakenInOrder'
      /\ \A q \in PQs : nextOffset'[q] = nextOffset[q]
  BY <1>1, <1>2, AnsweredFrame
<1>4. ~ReplicaLags => PulledOK' /\ CoverOK'
  BY <1>1, <1>3 DEF IInv, PulledOK, CoverOK, Passed, treeVars, workVars
<1>5. ~ReplicaLags => CommittedFirst'
  <2> SUFFICES ASSUME ~ReplicaLags PROVE CommittedFirst'
    OBVIOUS
  <2>1. CASE offsetTable' = offsetTable
    BY <1>1, <2>1 DEF IInv, CommittedFirst
  <2>2. CASE msgCount[p] = 0 /\ offsetTable' = nextOffset[p]
    <3>1. /\ msgTreeMap[p] \in SUBSET Messages /\ msgTreeMapTemp[p] \in SUBSET Messages
      BY DEF IInv, TypeOK
    <3>2. /\ IsFiniteSet(msgTreeMap[p]) /\ Cardinality(msgTreeMap[p]) \in Nat
          /\ IsFiniteSet(msgTreeMapTemp[p]) /\ Cardinality(msgTreeMapTemp[p]) \in Nat
      BY <3>1, MessagesFinite
    <3>3. Cardinality(msgTreeMap[p]) + Cardinality(msgTreeMapTemp[p]) <= 0
      BY <2>2, <3>2 DEF IInv, BothTreesCounted
    <3>4. Cardinality(msgTreeMap[p]) = 0 /\ Cardinality(msgTreeMapTemp[p]) = 0
      BY <3>2, <3>3
    <3>5. msgTreeMap[p] = {} /\ msgTreeMapTemp[p] = {}
      BY <3>2, <3>4, FS_EmptySet
    <3>6. \A o \in Matching : o < nextOffset[p] => Passed(o)
      BY <3>5 DEF IInv, CoverOK
    <3>7. QED BY <1>1, <2>2, <3>6 DEF IInv, CommittedFirst, Passed
  <2>3. QED BY <1>1, <2>1, <2>2
<1>6. QED BY <1>3, <1>4, <1>5 DEF IInv

\* The request moves on over messages that do not match, or to the first
\* message the broker still holds.
LEMMA MovedStep ==
    ASSUME IInv, NEW p \in PQs, NEW n \in 0 .. MaxOffset,
           OnNoMatchedMsg(p, n) \/ OnOffsetIllegal(p, n)
    PROVE  IInv'
<1>1. /\ Answered(p, n) /\ n \in Int
      /\ UNCHANGED <<stored, finished, lost, abandoned, tableVars, treeVars, lockVars, minOffset,
                     workVars>>
      /\ offsetTable' \in {offsetTable, n}
  BY OrderlyAssumption DEF OnNoMatchedMsg, OnOffsetIllegal, offsetVars
<1>2. offsetTable' \in Int
  BY <1>1 DEF IInv, TypeOK
<1>3. /\ TypeOK' /\ MutexOK' /\ RequestsOK' /\ CreatedOK' /\ BatchOK'
      /\ ~ReplicaLags => BothTreesCounted' /\ TakenInOrder'
      /\ nextOffset'[p] = n /\ \A q \in PQs : q # p => nextOffset'[q] = nextOffset[q]
  BY <1>1, <1>2, AnsweredFrame
<1>4. ~ReplicaLags => PulledOK' /\ CoverOK' /\ CommittedFirst'
  <2> SUFFICES ASSUME ~ReplicaLags PROVE PulledOK' /\ CoverOK' /\ CommittedFirst'
    OBVIOUS
  <2>1. /\ nextOffset[p] \in Int /\ minOffset \in Int /\ Matching \subseteq Nat
        /\ Messages \subseteq Nat
        /\ \A q \in PQs : msgTreeMap[q] \subseteq Messages /\ msgTreeMapTemp[q] \subseteq Messages
    BY OrderlyAssumption DEF IInv, TypeOK, Messages
  <2>2. /\ nextOffset[p] < n
        /\ \/ offsetTable' = offsetTable
              /\ \A o \in Matching : nextOffset[p] <= o => ~(o < n)
           \/ n <= minOffset /\ offsetTable' = n
    <3>1. CASE OnNoMatchedMsg(p, n)
      <4>1. nextOffset[p] < n /\ Pulled(p, n) = {} /\ offsetTable' = offsetTable
        BY <2>1, <3>1 DEF OnNoMatchedMsg, offsetVars
      <4>2. QED BY <1>1, <2>1, <4>1 DEF Pulled
    <3>2. CASE OnOffsetIllegal(p, n)
      BY <2>1, <3>2 DEF OnOffsetIllegal, FixedOffsets
    <3>3. QED BY <3>1, <3>2
  <2>3. PulledOK'
    <3> SUFFICES ASSUME NEW q \in PQs, NEW o \in msgTreeMap[q] \cup msgTreeMapTemp[q]
                 PROVE  o < nextOffset'[q]
      BY <1>1 DEF PulledOK, treeVars
    <3>1. o \in Nat /\ o < nextOffset[q]
      BY <2>1 DEF IInv, PulledOK
    <3>2. QED BY <1>1, <1>3, <2>1, <2>2, <3>1
  <2>4. CoverOK'
    <3>1. \A o : Passed(o)' <=> Passed(o)
      BY <1>1 DEF Passed
    <3>2. ASSUME NEW q \in PQs, NEW o \in Matching, o < nextOffset'[q]
          PROVE  Passed(o) \/ o \in msgTreeMap[q] \cup msgTreeMapTemp[q]
      <4>1. CASE o < nextOffset[q]
        BY <4>1 DEF IInv, CoverOK
      <4>2. CASE q = p /\ nextOffset[p] <= o
        BY <1>1, <1>3, <2>1, <2>2, <3>2, <4>2 DEF Passed
      <4>3. QED BY <1>3, <2>1, <3>2, <4>1, <4>2
    <3>3. QED BY <1>1, <3>1, <3>2 DEF IInv, CoverOK, treeVars, workVars
  <2>5. CommittedFirst'
    <3> SUFFICES ASSUME NEW o \in Matching, o < stored' \/ o < offsetTable'
                 PROVE  o \in finished' \cup lost' \/ o < minOffset'
      BY DEF CommittedFirst
    <3>1. CASE o < stored \/ o < offsetTable
      BY <1>1, <3>1 DEF IInv, CommittedFirst
    <3>2. CASE n <= minOffset /\ o < n
      BY <1>1, <2>1, <3>2
    <3>3. QED BY <1>1, <2>2, <3>1, <3>2
  <2>6. QED BY <2>3, <2>4, <2>5
<1>5. QED BY <1>3, <1>4 DEF IInv

-----------------------------------------------------------------------------
(* A consume thread, ConsumeOrderlyRequest::Do. *)

\* The record of a thread that runs a request is well typed.
LEMMA ThreadType ==
    ASSUME NEW l \in {"loop", "take", "listener", "clear", "update"}, NEW p \in PQs,
           NEW msgs \in SUBSET Messages, NEW off \in Int
    PROVE  /\ Thread(l, p, msgs, off) \in
                 [pc : {"idle", "loop", "take", "listener", "clear", "update"},
                  pq : PQs \cup {NoPQ}, msgs : SUBSET Messages, off : Int]
           /\ Thread(l, p, msgs, off).pc = l /\ Thread(l, p, msgs, off).pq = p
           /\ Thread(l, p, msgs, off).msgs = msgs /\ Thread(l, p, msgs, off).off = off
BY DEF Thread

\* The thread that is anywhere in Do has the queue's lock.
LEMMA InDo ==
    ASSUME IInv, NEW w \in Workers, thread[w].pc # "idle"
    PROVE  /\ mutex = w /\ thread[w].pq \in PQs /\ consuming[thread[w].pq]
           /\ thread[w].pq \notin work \cup later \cup tryLock
           /\ \A v \in Workers : v # w => thread[v] = Idle
           /\ Idle.pq \notin PQs /\ Idle.pc = "idle"
<1>1. Idle.pq \notin PQs /\ Idle.pc = "idle"
  BY OrderlyAssumption DEF Idle, Thread
<1>2. mutex = w /\ thread[w].pq \in PQs /\ \A v \in Workers : v # w => thread[v] = Idle
  BY <1>1 DEF IInv, MutexOK
<1>3. consuming[thread[w].pq] /\ thread[w].pq \notin work \cup later \cup tryLock
  BY <1>2 DEF IInv, RequestsOK
<1>4. QED BY <1>1, <1>2, <1>3

\* It stays in Do, with the same request, and leaves the requests alone.
LEMMA StayFrame ==
    ASSUME IInv, NEW w \in Workers, thread[w].pc # "idle",
           NEW t, t.pc # "idle", t.pq = thread[w].pq, thread' = [thread EXCEPT ![w] = t],
           UNCHANGED <<mutex, work, later, tryLock, consuming, abandoned>>,
           \A p \in PQs : msgTreeMap[p] = {} /\ p # thread[w].pq => msgTreeMap'[p] = {}
    PROVE  MutexOK' /\ RequestsOK'
<1>1. /\ mutex = w /\ thread[w].pq \in PQs /\ consuming[thread[w].pq]
      /\ \A v \in Workers : v # w => thread[v] = Idle
  BY InDo
<1>2. \A v \in Workers : thread'[v] = IF v = w THEN t ELSE thread[v]
  BY DEF IInv, TypeOK
<1>3. \A v \in Workers : thread'[v].pq = thread[v].pq
  BY <1>2
<1>4. MutexOK'
  BY <1>1, <1>2 DEF MutexOK, IInv
<1>5. RequestsOK'
  BY <1>1, <1>3 DEF IInv, RequestsOK
<1>6. QED BY <1>4, <1>5

\* It leaves Do, and its request is left for later or abandoned.
LEMMA LeaveFrame ==
    ASSUME IInv, NEW w \in Workers, thread[w].pc # "idle", Leave(w),
           UNCHANGED <<work, tryLock, consuming>>,
           \/ later' = later \cup {thread[w].pq} /\ abandoned' = abandoned
           \/ later' = later /\ abandoned' = abandoned \cup {thread[w].pq},
           \A p \in PQs : msgTreeMap[p] = {} /\ p # thread[w].pq => msgTreeMap'[p] = {}
    PROVE  MutexOK' /\ RequestsOK'
<1> DEFINE p == thread[w].pq
<1>1. /\ mutex = w /\ p \in PQs /\ consuming[p] /\ p \notin work \cup later \cup tryLock
      /\ \A v \in Workers : v # w => thread[v] = Idle
      /\ Idle.pq \notin PQs /\ Idle.pc = "idle"
  BY InDo
<1>2. mutex' = NoWorker /\ \A v \in Workers : thread'[v] = Idle
  BY <1>1 DEF Leave, IInv, TypeOK
<1>3. MutexOK'
  BY <1>2, OrderlyAssumption DEF MutexOK
<1>4. work' \cap later' = {} /\ work' \cap tryLock' = {} /\ later' \cap tryLock' = {}
  BY <1>1 DEF IInv, RequestsOK
<1>5. \A q \in work' \cup later' \cup tryLock' : q \in PQs /\ consuming'[q]
  BY <1>1 DEF IInv, TypeOK, RequestsOK
<1>6. ASSUME NEW q \in PQs \ abandoned'
      PROVE  /\ consuming'[q] => q \in work' \cup later' \cup tryLock'
             /\ msgTreeMap'[q] # {} => consuming'[q]
  <2>1. CASE q = p
    BY <1>1, <1>6, <2>1
  <2>2. CASE q # p
    <3>1. \A v \in Workers : thread[v].pq # q
      BY <1>1, <2>2
    <3>2. QED BY <1>6, <2>2, <3>1 DEF IInv, RequestsOK
  <2>3. QED BY <2>1, <2>2
<1>7. QED BY <1>1, <1>2, <1>3, <1>4, <1>5, <1>6 DEF RequestsOK

\* A thread that leaves Do leaves the other threads alone.
LEMMA LeaveType ==
    ASSUME IInv, NEW w \in Workers, Leave(w)
    PROVE  /\ thread' \in [Workers -> [pc : {"idle", "loop", "take", "listener", "clear", "update"},
                                       pq : PQs \cup {NoPQ}, msgs : SUBSET Messages, off : Int]]
           /\ \A v \in Workers : thread'[v].pc \in {"listener", "update"} => thread'[v] = thread[v]
<1>1. Idle.pc = "idle"
  BY DEF Idle, Thread
<1>2. QED BY <1>1, IdleType DEF IInv, TypeOK, Leave

\* Do starts under the queue's lock, or hands its request to the lock retry.
LEMMA StartDoStep ==
    ASSUME IInv, NEW w \in Workers, NEW p \in PQs, StartDo(w, p)
    PROVE  IInv'
<1> DEFINE t == Thread("loop", p, {}, NoOffset)
<1>1. /\ p \in work /\ thread[w] = Idle /\ mutex = NoWorker /\ work' = work \ {p}
      /\ \/ mutex' = w /\ thread' = [thread EXCEPT ![w] = t] /\ tryLock' = tryLock
         \/ tryLock' = tryLock \cup {p} /\ UNCHANGED <<mutex, thread>>
      /\ UNCHANGED <<stored, offsetTable, finished, lost, abandoned, table, giving, created, dropped,
                     msgTreeMap, msgTreeMapTemp, msgCount, consuming, locked, expired, hung,
                     stoped, nextOffset, inflight, minOffset, later>>
  BY DEF StartDo, offsetVars, tableVars, treeVars, lockVars, pullVars
<1>2. /\ t \in [pc : {"idle", "loop", "take", "listener", "clear", "update"},
                pq : PQs \cup {NoPQ}, msgs : SUBSET Messages, off : Int]
      /\ t.pc = "loop" /\ t.pq = p /\ Idle.pq \notin PQs
  BY ThreadType, OrderlyAssumption DEF NoOffset, Idle, Thread
<1> HIDE DEF t
<1>3. TypeOK'
  BY <1>1, <1>2 DEF IInv, TypeOK
<1>4. \A v \in Workers : thread[v] = Idle
  BY <1>1, OrderlyAssumption DEF IInv, MutexOK
<1>5. MutexOK'
  BY <1>1, <1>2, <1>4 DEF IInv, TypeOK, MutexOK
<1>6. RequestsOK'
  <2>1. CASE mutex' = w /\ thread' = [thread EXCEPT ![w] = t] /\ tryLock' = tryLock
    <3>1. \A v \in Workers : thread'[v].pq = IF v = w THEN p ELSE Idle.pq
      BY <1>2, <1>4, <2>1 DEF IInv, TypeOK
    <3>2. p \notin later \cup tryLock /\ consuming[p]
      BY <1>1 DEF IInv, RequestsOK
    <3>3. \A q \in work' \cup later' \cup tryLock' : q \in PQs /\ q # p
      BY <1>1, <2>1, <3>2 DEF IInv, TypeOK
    <3>4. work' \cap later' = {} /\ work' \cap tryLock' = {} /\ later' \cap tryLock' = {}
      BY <1>1, <2>1 DEF IInv, RequestsOK
    <3>5. \A q \in work' \cup later' \cup tryLock' : consuming'[q] /\ \A v \in Workers : thread'[v].pq # q
      BY <1>1, <1>2, <2>1, <3>1, <3>3 DEF IInv, RequestsOK
    <3>6. \A v \in Workers : thread'[v].pq \in PQs => consuming'[thread'[v].pq]
      BY <1>1, <1>2, <3>1, <3>2
    <3>7. ASSUME NEW q \in PQs \ abandoned'
          PROVE  /\ consuming'[q] => \/ q \in work' \cup later' \cup tryLock'
                                     \/ \E v \in Workers : thread'[v].pq = q
                 /\ msgTreeMap'[q] # {} => consuming'[q]
      <4>1. \A v \in Workers : thread[v].pq # q
        BY <1>2, <1>4
      <4>2. QED BY <1>1, <2>1, <3>1, <4>1 DEF IInv, RequestsOK
    <3>8. QED BY <3>4, <3>5, <3>6, <3>7 DEF RequestsOK
  <2>2. CASE tryLock' = tryLock \cup {p} /\ UNCHANGED <<mutex, thread>>
    <3>1. work' \cup later' \cup tryLock' = work \cup later \cup tryLock
      BY <1>1, <2>2
    <3>2. work' \cap later' = {} /\ work' \cap tryLock' = {} /\ later' \cap tryLock' = {}
      BY <1>1, <2>2 DEF IInv, RequestsOK
    <3>3. QED BY <1>1, <2>2, <3>1, <3>2 DEF IInv, RequestsOK
  <2>3. QED BY <1>1, <2>1, <2>2
<1>7. \A v \in Workers : thread'[v].pc \in {"listener", "update"} => thread'[v] = thread[v]
  BY <1>1, <1>2 DEF IInv, TypeOK
<1>8. ~ReplicaLags => CommittedFirst'
  BY <1>1 DEF IInv, CommittedFirst
<1>9. QED BY <1>1, <1>3, <1>5, <1>6, <1>7, <1>8, TreesFrame DEF IInv, TypeOK

\* The loop's checks and the listener's SUCCESS without autoCommit.
LEMMA LoopSteps ==
    ASSUME IInv, NEW w \in Workers, BreakLoop(w) \/ ConsumedTooLong(w) \/ PassChecks(w) \/ ConsumeNext(w)
    PROVE  IInv'
<1> USE DEF offsetVars, tableVars, treeVars, lockVars, pullVars
<1>1. /\ thread[w].pc # "idle"
      /\ UNCHANGED <<stored, offsetTable, finished, lost, tableVars, treeVars, lockVars, pullVars,
                     work, tryLock>>
  BY DEF BreakLoop, ConsumedTooLong, PassChecks, ConsumeNext
<1>2. /\ thread' \in [Workers -> [pc : {"idle", "loop", "take", "listener", "clear", "update"},
                                  pq : PQs \cup {NoPQ}, msgs : SUBSET Messages, off : Int]]
      /\ later' \in SUBSET PQs /\ abandoned' \in SUBSET PQs /\ MutexOK' /\ RequestsOK'
      /\ \A v \in Workers : thread'[v].pc \in {"listener", "update"} => thread'[v] = thread[v]
  <2>1. CASE BreakLoop(w) \/ ConsumedTooLong(w)
    <3>1. /\ Leave(w)
          /\ \/ later' = later \cup {thread[w].pq} /\ abandoned' = abandoned
             \/ later' = later /\ abandoned' = abandoned \cup {thread[w].pq}
      BY <2>1 DEF BreakLoop, ConsumedTooLong
    <3>2. MutexOK' /\ RequestsOK'
      BY <1>1, <3>1, LeaveFrame
    <3>3. thread[w].pq \in PQs
      BY <1>1, InDo
    <3>4. later' \in SUBSET PQs /\ abandoned' \in SUBSET PQs
      BY <3>1, <3>3 DEF IInv, TypeOK
    <3>5. QED BY <3>1, <3>2, <3>4, LeaveType
  <2>2. CASE PassChecks(w) \/ ConsumeNext(w)
    <3>1. PICK t : /\ thread' = [thread EXCEPT ![w] = t]
                   /\ t = [thread[w] EXCEPT !.pc = "take"] \/ t = Thread("loop", thread[w].pq, {}, NoOffset)
      BY <2>2 DEF PassChecks, ConsumeNext, IInv, TypeOK
    <3>2. UNCHANGED <<mutex, later, abandoned>>
      BY <2>2 DEF PassChecks, ConsumeNext
    <3>3. thread[w].pq \in PQs
      BY <1>1, InDo
    <3>4. /\ t \in [pc : {"idle", "loop", "take", "listener", "clear", "update"},
                    pq : PQs \cup {NoPQ}, msgs : SUBSET Messages, off : Int]
          /\ t.pc \in {"loop", "take"} /\ t.pq = thread[w].pq
      BY <3>1, <3>3 DEF IInv, TypeOK, Thread, NoOffset
    <3>5. MutexOK' /\ RequestsOK'
      BY <1>1, <3>1, <3>2, <3>4, StayFrame
    <3>6. QED BY <3>1, <3>2, <3>4, <3>5 DEF IInv, TypeOK
  <2>3. QED BY <2>1, <2>2
<1>3. TypeOK'
  BY <1>1, <1>2 DEF IInv, TypeOK
<1>4. ~ReplicaLags => CommittedFirst'
  BY <1>1 DEF IInv, CommittedFirst
<1>5. QED BY <1>1, <1>2, <1>3, <1>4, TreesFrame DEF IInv, TypeOK

\* A step that empties m_consuming found the tree empty, or abandons the queue.
LEMMA ClearConsumingStep ==
    ASSUME IInv, NEW w \in Workers, ClearConsuming(w)
    PROVE  IInv'
<1> DEFINE p == thread[w].pq
<1>1. /\ thread[w].pc = "clear" /\ Leave(w) /\ consuming' = [consuming EXCEPT ![p] = FALSE]
      /\ abandoned' = IF msgTreeMap[p] = {} THEN abandoned ELSE abandoned \cup {p}
      /\ UNCHANGED <<stored, offsetTable, finished, lost, table, giving, created, dropped,
                     msgTreeMap, msgTreeMapTemp, msgCount, locked, expired, hung, stoped,
                     nextOffset, inflight, minOffset, work, later, tryLock>>
  BY DEF ClearConsuming, tableVars, lockVars, pullVars
<1>2. /\ p \in PQs /\ p \notin work \cup later \cup tryLock /\ Idle.pq \notin PQs
      /\ \A v \in Workers : v # w => thread[v] = Idle
  BY <1>1, InDo
<1>3. mutex' = NoWorker /\ \A v \in Workers : thread'[v] = Idle
  BY <1>1, <1>2 DEF Leave, IInv, TypeOK
<1>4. TypeOK'
  BY <1>1, <1>2, LeaveType DEF IInv, TypeOK
<1>5. MutexOK'
  BY <1>3, OrderlyAssumption DEF MutexOK
<1>6. RequestsOK'
  <2>1. \A q \in PQs : consuming'[q] <=> consuming[q] /\ q # p
    BY <1>1 DEF IInv, TypeOK
  <2>2. \A q \in work' \cup later' \cup tryLock' : q \in PQs /\ consuming'[q]
    BY <1>1, <1>2, <2>1 DEF IInv, TypeOK, RequestsOK
  <2>3. ASSUME NEW q \in PQs \ abandoned'
        PROVE  /\ consuming'[q] => q \in work' \cup later' \cup tryLock'
               /\ msgTreeMap'[q] # {} => consuming'[q]
    <3>1. CASE q = p
      BY <1>1, <2>1, <2>3, <3>1
    <3>2. CASE q # p
      <4>1. \A v \in Workers : thread[v].pq # q
        BY <1>2, <3>2
      <4>2. q \in PQs \ abandoned
        BY <1>1, <2>3
      <4>3. QED BY <1>1, <2>1, <3>2, <4>1, <4>2 DEF IInv, RequestsOK
    <3>3. QED BY <3>1, <3>2
  <2>4. QED BY <1>1, <1>2, <1>3, <2>2, <2>3 DEF RequestsOK, IInv
<1>7. ~ReplicaLags => CommittedFirst'
  BY <1>1 DEF IInv, CommittedFirst
<1>8. \A v \in Workers : thread'[v].pc \in {"listener", "update"} => thread'[v] = thread[v]
  BY <1>1, LeaveType
<1>9. QED BY <1>1, <1>4, <1>5, <1>6, <1>7, <1>8, TreesFrame DEF IInv, TypeOK

\* updateOffset stores an offset below which all is committed.
LEMMA UpdateOffsetStep ==
    ASSUME IInv, NEW w \in Workers, UpdateOffset(w)
    PROVE  IInv'
<1> DEFINE t == Thread("loop", thread[w].pq, {}, NoOffset)
<1>1. /\ thread[w].pc = "update" /\ offsetTable' = thread[w].off
      /\ thread' = [thread EXCEPT ![w] = t]
      /\ UNCHANGED <<stored, finished, lost, abandoned, table, giving, created, dropped,
                     msgTreeMap, msgTreeMapTemp, msgCount, consuming, locked, expired, hung, stoped,
                     nextOffset, inflight, minOffset, work, later, tryLock, mutex>>
  BY DEF UpdateOffset, tableVars, treeVars, lockVars, pullVars
<1>2. thread[w].pq \in PQs
  BY <1>1, InDo
<1>3. /\ t \in [pc : {"idle", "loop", "take", "listener", "clear", "update"},
                pq : PQs \cup {NoPQ}, msgs : SUBSET Messages, off : Int]
      /\ t.pc = "loop" /\ t.pq = thread[w].pq
  BY <1>2 DEF NoOffset, Thread
<1> HIDE DEF t
<1>4. TypeOK'
  BY <1>1, <1>3 DEF IInv, TypeOK
<1>5. MutexOK' /\ RequestsOK'
  BY <1>1, <1>3, StayFrame
<1>6. ~ReplicaLags => CommittedFirst'
  BY <1>1 DEF IInv, CommittedFirst, CoverOK, Passed
<1>7. \A v \in Workers : thread'[v].pc \in {"listener", "update"} => thread'[v] = thread[v]
  BY <1>1, <1>3 DEF IInv, TypeOK
<1>8. QED BY <1>1, <1>4, <1>5, <1>6, <1>7, TreesFrame DEF IInv, TypeOK

\* takeMessages: the first messages of the tree go to the temporary tree, whose
\* messages precede them all.
LEMMA TakeMessagesStep ==
    ASSUME IInv, NEW w \in Workers, TakeMessages(w)
    PROVE  IInv'
<1> DEFINE p == thread[w].pq
           msgs == FirstMessages(msgTreeMap[p])
           t == Thread(IF msgs = {} THEN "clear" ELSE "listener", p, msgs, NoOffset)
<1>1. /\ thread[w].pc = "take"
      /\ msgTreeMap' = [msgTreeMap EXCEPT ![p] = msgTreeMap[p] \ msgs]
      /\ msgTreeMapTemp' = [msgTreeMapTemp EXCEPT ![p] = msgTreeMapTemp[p] \cup msgs]
      /\ thread' = [thread EXCEPT ![w] = t]
      /\ UNCHANGED <<stored, offsetTable, finished, lost, abandoned, table, giving, created, dropped,
                     msgCount, consuming, locked, expired, hung, stoped,
                     nextOffset, inflight, minOffset, work, later, tryLock, mutex>>
  BY DEF TakeMessages, offsetVars, tableVars, lockVars, pullVars
<1>2. p \in PQs /\ Idle.pc = "idle" /\ \A v \in Workers : v # w => thread[v] = Idle
  BY <1>1, InDo
<1>3. /\ msgTreeMap[p] \in SUBSET Messages /\ msgTreeMapTemp[p] \in SUBSET Messages
      /\ Messages \subseteq Nat
  BY <1>2, MessagesFinite DEF IInv, TypeOK
<1>4. /\ msgs \in SUBSET msgTreeMap[p] /\ msgs \in SUBSET Messages
      /\ \A x \in msgs, o \in msgTreeMap[p] \ msgs : x < o
  BY <1>3, FirstMessagesFirst
<1> HIDE DEF p, msgs
<1>5. /\ t \in [pc : {"idle", "loop", "take", "listener", "clear", "update"},
                pq : PQs \cup {NoPQ}, msgs : SUBSET Messages, off : Int]
      /\ t.pc = IF msgs = {} THEN "clear" ELSE "listener"
      /\ t.pq = p /\ t.msgs = msgs
  <2>1. NoOffset \in Int
    BY DEF NoOffset
  <2>2. CASE msgs = {}
    BY <1>2, <1>4, <2>1, <2>2 DEF Thread
  <2>3. CASE msgs # {}
    BY <1>2, <1>4, <2>1, <2>3 DEF Thread
  <2>4. QED BY <2>2, <2>3
<1> HIDE DEF t
<1>6. /\ \A q \in PQs : q # p => msgTreeMap'[q] = msgTreeMap[q] /\ msgTreeMapTemp'[q] = msgTreeMapTemp[q]
      /\ msgTreeMap'[p] = msgTreeMap[p] \ msgs /\ msgTreeMapTemp'[p] = msgTreeMapTemp[p] \cup msgs
      /\ thread'[w] = t /\ \A v \in Workers : v # w => thread'[v] = Idle
  BY <1>1, <1>2 DEF IInv, TypeOK
<1>7. TypeOK'
  BY <1>1, <1>3, <1>4, <1>5 DEF IInv, TypeOK
<1>8. MutexOK' /\ RequestsOK'
  BY <1>1, <1>2, <1>5, <1>6, StayFrame DEF p
<1>9. CreatedOK' /\ BatchOK'
  BY <1>1, <1>2, <1>4, <1>5, <1>6 DEF IInv, CreatedOK, BatchOK
<1>10. ~ReplicaLags => PulledOK'
  BY <1>1, <1>2, <1>4, <1>5, <1>6 DEF IInv, PulledOK
<1>11. ~ReplicaLags => TakenInOrder'
  <2> SUFFICES ASSUME ~ReplicaLags PROVE TakenInOrder'
    OBVIOUS
  <2>1. \A x \in msgTreeMapTemp[p], o \in msgTreeMap[p] : x < o
    BY <1>2 DEF IInv, TakenInOrder
  <2>2. \A x \in msgTreeMapTemp'[p], o \in msgTreeMap'[p] : x < o
    BY <1>4, <1>6, <2>1
  <2>3. \A q \in PQs : \A x \in msgTreeMapTemp'[q], o \in msgTreeMap'[q] : x < o
    BY <1>6, <2>2 DEF IInv, TakenInOrder
  <2>4. \A x \in msgTreeMapTemp'[p] \ msgs, o \in msgs : x < o
    BY <1>4, <1>6, <2>1
  <2>5. QED BY <1>2, <1>5, <1>6, <2>3, <2>4 DEF TakenInOrder
<1>12. ~ReplicaLags => CoverOK' /\ CommittedFirst'
  <2> SUFFICES ASSUME ~ReplicaLags PROVE CoverOK' /\ CommittedFirst'
    OBVIOUS
  <2>1. \A q \in PQs : msgTreeMap'[q] \cup msgTreeMapTemp'[q] = msgTreeMap[q] \cup msgTreeMapTemp[q]
    BY <1>4, <1>6
  <2>2. QED BY <1>1, <1>2, <1>5, <1>6, <2>1 DEF IInv, CoverOK, Passed, CommittedFirst
<1>13. ~ReplicaLags => BothTreesCounted'
  <2> SUFFICES ASSUME ~ReplicaLags PROVE BothTreesCounted'
    OBVIOUS
  <2>1. msgTreeMap[p] \cap msgTreeMapTemp[p] = {}
    <3>1. \A x \in msgTreeMapTemp[p], o \in msgTreeMap[p] : x < o
      BY <1>2 DEF IInv, TakenInOrder
    <3>2. \A x \in Nat : ~(x < x)
      OBVIOUS
    <3>3. msgTreeMap[p] \subseteq Nat
      BY <1>3
    <3>4. QED BY <3>1, <3>2, <3>3
  <2>2. Cardinality(msgTreeMap[p] \ msgs) + Cardinality(msgTreeMapTemp[p] \cup msgs)
          = Cardinality(msgTreeMap[p]) + Cardinality(msgTreeMapTemp[p])
    BY <1>3, <1>4, <2>1, MoveCounts
  <2>3. \A q \in PQs : Cardinality(msgTreeMap'[q]) + Cardinality(msgTreeMapTemp'[q])
                         = Cardinality(msgTreeMap[q]) + Cardinality(msgTreeMapTemp[q])
    BY <1>6, <2>2
  <2>4. QED BY <1>1, <2>3 DEF IInv, BothTreesCounted
<1>14. QED BY <1>7, <1>8, <1>9, <1>10, <1>11, <1>12, <1>13 DEF IInv

\* What the thread in the listener knows of its queue.
LEMMA InListener ==
    ASSUME IInv, NEW w \in Workers, thread[w].pc = "listener"
    PROVE  LET p == thread[w].pq
               tree == msgTreeMap[p]
               temp == msgTreeMapTemp[p]
               msgs == thread[w].msgs
           IN  /\ p \in PQs /\ tree \in SUBSET Messages /\ temp \in SUBSET Messages
               /\ Messages \subseteq Nat /\ msgs # {} /\ msgs \in SUBSET temp
               /\ msgCount[p] \in Int
               /\ Cardinality(tree) \in Nat /\ Cardinality(temp) \in Nat
               /\ Idle.pc = "idle" /\ \A v \in Workers : v # w => thread[v] = Idle
<1> DEFINE p == thread[w].pq
<1>1. p \in PQs /\ Idle.pc = "idle" /\ \A v \in Workers : v # w => thread[v] = Idle
  BY InDo
<1>2. /\ msgTreeMap[p] \in SUBSET Messages /\ msgTreeMapTemp[p] \in SUBSET Messages
      /\ msgCount[p] \in Int
  BY <1>1 DEF IInv, TypeOK
<1>3. /\ Messages \subseteq Nat
      /\ Cardinality(msgTreeMap[p]) \in Nat /\ Cardinality(msgTreeMapTemp[p]) \in Nat
  BY <1>2, MessagesFinite
<1>4. thread[w].msgs # {} /\ thread[w].msgs \in SUBSET msgTreeMapTemp[p]
  BY <1>1 DEF IInv, BatchOK
<1>5. QED BY <1>1, <1>2, <1>3, <1>4

\* And, with pulls that the master serves, of the order of its messages.
LEMMA ListenerOrder ==
    ASSUME IInv, ~ReplicaLags, NEW w \in Workers, thread[w].pc = "listener"
    PROVE  LET p == thread[w].pq
               tree == msgTreeMap[p]
               temp == msgTreeMapTemp[p]
               msgs == thread[w].msgs
           IN  /\ tree \cap temp = {}
               /\ \A x \in temp, o \in tree : x < o
               /\ \A x \in temp \ msgs, o \in msgs : x < o
               /\ msgCount[p] >= Cardinality(tree) + Cardinality(temp)
               /\ lost = {} => msgCount[p] = Cardinality(tree) + Cardinality(temp)
<1> DEFINE p == thread[w].pq
<1>1. p \in PQs /\ msgTreeMap[p] \in SUBSET Messages /\ Messages \subseteq Nat
  BY InListener
<1>2. /\ \A x \in msgTreeMapTemp[p], o \in msgTreeMap[p] : x < o
      /\ \A x \in msgTreeMapTemp[p] \ thread[w].msgs, o \in thread[w].msgs : x < o
  BY <1>1 DEF IInv, TakenInOrder
<1>3. msgTreeMap[p] \cap msgTreeMapTemp[p] = {}
  <2>1. \A x \in Nat : ~(x < x)
    OBVIOUS
  <2>2. msgTreeMap[p] \subseteq Nat
    BY <1>1
  <2>3. QED BY <1>2, <2>1, <2>2
<1>4. /\ msgCount[p] >= Cardinality(msgTreeMap[p]) + Cardinality(msgTreeMapTemp[p])
      /\ lost = {} => msgCount[p] = Cardinality(msgTreeMap[p]) + Cardinality(msgTreeMapTemp[p])
  BY <1>1 DEF IInv, BothTreesCounted
<1>5. QED BY <1>2, <1>3, <1>4

\* commit: everything up to the greatest offset of the temporary tree is
\* finished with then.
LEMMA CommitStep ==
    ASSUME IInv, NEW w \in Workers, Commit(w)
    PROVE  IInv'
<1> DEFINE p == thread[w].pq
           off == CommitOffset(p)
           t == Thread("update", p, {}, off)
<1>1. /\ thread[w].pc = "listener"
      /\ finished' = finished \cup msgTreeMapTemp[p]
      /\ msgTreeMapTemp' = [msgTreeMapTemp EXCEPT ![p] = {}]
      /\ msgCount' = [msgCount EXCEPT ![p] = msgCount[p] - Cardinality(msgTreeMapTemp[p])]
      /\ thread' = [thread EXCEPT ![w] = t]
      /\ UNCHANGED <<stored, offsetTable, lost, abandoned, table, giving, created, dropped,
                     msgTreeMap, consuming, locked, expired, hung, stoped,
                     nextOffset, inflight, minOffset, work, later, tryLock, mutex>>
  BY DEF Commit, CommitCount, tableVars, lockVars, pullVars
<1>2. /\ p \in PQs /\ msgTreeMap[p] \in SUBSET Messages /\ msgTreeMapTemp[p] \in SUBSET Messages
      /\ Messages \subseteq Nat /\ msgTreeMapTemp[p] # {} /\ msgCount[p] \in Int
      /\ Cardinality(msgTreeMap[p]) \in Nat /\ Cardinality(msgTreeMapTemp[p]) \in Nat
      /\ Idle.pc = "idle" /\ \A v \in Workers : v # w => thread[v] = Idle
  BY <1>1, InListener
<1>3. ~ReplicaLags =>
         /\ \A x \in msgTreeMapTemp[p], o \in msgTreeMap[p] : x < o
         /\ msgCount[p] >= Cardinality(msgTreeMap[p]) + Cardinality(msgTreeMapTemp[p])
         /\ lost = {} => msgCount[p] = Cardinality(msgTreeMap[p]) + Cardinality(msgTreeMapTemp[p])
  BY <1>1, ListenerOrder
<1>4. PICK g \in msgTreeMapTemp[p] : g \in Nat /\ off = g + 1
  BY <1>2, GreatestIsMaximum DEF CommitOffset
<1>5. off \in Int
  BY <1>4
<1> HIDE DEF p, off
<1>6. /\ t \in [pc : {"idle", "loop", "take", "listener", "clear", "update"},
                pq : PQs \cup {NoPQ}, msgs : SUBSET Messages, off : Int]
      /\ t.pc = "update" /\ t.pq = p /\ t.off = off
  BY <1>2, <1>5 DEF Thread
<1> HIDE DEF t
<1>7. /\ \A q \in PQs : q # p => msgTreeMapTemp'[q] = msgTreeMapTemp[q] /\ msgCount'[q] = msgCount[q]
      /\ msgTreeMapTemp'[p] = {} /\ msgCount'[p] = msgCount[p] - Cardinality(msgTreeMapTemp[p])
      /\ thread'[w] = t /\ \A v \in Workers : v # w => thread'[v] = Idle
  BY <1>1, <1>2 DEF IInv, TypeOK
<1>8. TypeOK'
  <2>1. msgCount[p] - Cardinality(msgTreeMapTemp[p]) \in Int
    BY <1>2
  <2>2. msgCount' \in [PQs -> Int] /\ msgTreeMapTemp' \in [PQs -> SUBSET Messages]
    BY <1>1, <2>1 DEF IInv, TypeOK
  <2>3. finished' \in SUBSET Messages
    BY <1>1, <1>2 DEF IInv, TypeOK
  <2>4. QED BY <1>1, <1>6, <2>2, <2>3 DEF IInv, TypeOK
<1>9. MutexOK' /\ RequestsOK'
  BY <1>1, <1>6, StayFrame DEF p
<1>10. CreatedOK' /\ BatchOK' /\ (~ReplicaLags => PulledOK')
  BY <1>1, <1>2, <1>6, <1>7 DEF IInv, CreatedOK, BatchOK, PulledOK
<1>11. ~ReplicaLags => TakenInOrder'
  <2> SUFFICES ASSUME ~ReplicaLags PROVE TakenInOrder'
    OBVIOUS
  <2>1. \A q \in PQs : \A x \in msgTreeMapTemp'[q], o \in msgTreeMap'[q] : x < o
    BY <1>1, <1>7 DEF IInv, TakenInOrder
  <2>2. \A v \in Workers : thread'[v].pc # "listener"
    BY <1>2, <1>6, <1>7
  <2>3. QED BY <2>1, <2>2 DEF TakenInOrder
<1>12. ~ReplicaLags => CoverOK' /\ CommittedFirst'
  <2> SUFFICES ASSUME ~ReplicaLags PROVE CoverOK' /\ CommittedFirst'
    OBVIOUS
  <2>1. ASSUME NEW o \in Matching, o < off PROVE Passed(o)'
    <3>1. o \in Nat /\ o <= g /\ g < nextOffset[p] /\ nextOffset[p] \in Int
      BY <1>2, <1>4, <2>1, OrderlyAssumption DEF IInv, TypeOK, PulledOK
    <3>2. Passed(o) \/ o \in msgTreeMap[p] \cup msgTreeMapTemp[p]
      BY <1>2, <1>4, <3>1 DEF IInv, CoverOK
    <3>3. o \notin msgTreeMap[p]
      BY <1>2, <1>3, <1>4, <3>1
    <3>4. QED BY <1>1, <3>2, <3>3 DEF p, Passed
  <2>2. \A q \in PQs : \A o \in Matching : o < nextOffset'[q] =>
           Passed(o)' \/ o \in msgTreeMap'[q] \cup msgTreeMapTemp'[q]
    BY <1>1, <1>7 DEF IInv, CoverOK, Passed, p
  <2>3. CommittedFirst'
    BY <1>1 DEF IInv, CommittedFirst
  <2>4. QED BY <1>2, <1>6, <1>7, <2>1, <2>2, <2>3 DEF CoverOK
<1>13. ~ReplicaLags => BothTreesCounted'
  <2> SUFFICES ASSUME ~ReplicaLags PROVE BothTreesCounted'
    OBVIOUS
  <2>1. ASSUME NEW q \in PQs
        PROVE  LET n == Cardinality(msgTreeMap'[q]) + Cardinality(msgTreeMapTemp'[q])
               IN  msgCount'[q] >= n /\ (lost' = {} => msgCount'[q] = n)
    <3>1. CASE q # p
      BY <1>1, <1>7, <3>1 DEF IInv, BothTreesCounted
    <3>2. CASE q = p
      <4>1. Cardinality(msgTreeMapTemp'[p]) = 0
        BY <1>7, FS_EmptySet
      <4>2. QED BY <1>1, <1>2, <1>3, <1>7, <3>2, <4>1
    <3>3. QED BY <3>1, <3>2
  <2>2. QED BY <2>1 DEF BothTreesCounted
<1>14. QED BY <1>8, <1>9, <1>10, <1>11, <1>12, <1>13 DEF IInv

\* rollback and makeMessageToCosumeAgain put messages back into the tree; the
\* first one drops what was there.
LEMMA PutBackStep ==
    ASSUME IInv, NEW w \in Workers, Rollback(w) \/ Suspend(w)
    PROVE  IInv'
<1> DEFINE p == thread[w].pq
           tree == msgTreeMap[p]
           temp == msgTreeMapTemp[p]
           msgs == thread[w].msgs
<1>1. PICK T, U, L :
         /\ \/ T = temp /\ U = {} /\ L = tree
            \/ T = tree \cup msgs /\ U = temp \ msgs /\ L = {}
         /\ msgTreeMap' = [msgTreeMap EXCEPT ![p] = T]
         /\ msgTreeMapTemp' = [msgTreeMapTemp EXCEPT ![p] = U]
         /\ lost' = lost \cup L
  <2>1. CASE Rollback(w)
    BY <2>1 DEF Rollback
  <2>2. CASE Suspend(w)
    <3>1. /\ msgTreeMap' = [msgTreeMap EXCEPT ![p] = tree \cup msgs]
          /\ msgTreeMapTemp' = [msgTreeMapTemp EXCEPT ![p] = temp \ msgs]
          /\ lost' = lost \cup {}
      BY <2>2 DEF Suspend, offsetVars
    <3> HIDE DEF p, tree, temp, msgs
    <3>2. QED BY <3>1, Zenon
  <2>3. QED BY <2>1, <2>2
<1>2. /\ thread[w].pc = "listener" /\ Leave(w) /\ later' = later \cup {p}
      /\ UNCHANGED <<stored, offsetTable, finished, abandoned, table, giving, created, dropped,
                     msgCount, consuming, locked, expired, hung, stoped,
                     nextOffset, inflight, minOffset, work, tryLock>>
  BY DEF Rollback, Suspend, offsetVars, tableVars, lockVars, pullVars
<1>3. /\ p \in PQs /\ tree \in SUBSET Messages /\ temp \in SUBSET Messages
      /\ Messages \subseteq Nat /\ msgs # {} /\ msgs \in SUBSET temp /\ msgCount[p] \in Int
      /\ Cardinality(tree) \in Nat /\ Cardinality(temp) \in Nat
      /\ Idle.pc = "idle" /\ \A v \in Workers : v # w => thread[v] = Idle
  BY <1>2, InListener
<1>4. ~ReplicaLags =>
         /\ tree \cap temp = {}
         /\ \A x \in temp, o \in tree : x < o
         /\ \A x \in temp \ msgs, o \in msgs : x < o
         /\ msgCount[p] >= Cardinality(tree) + Cardinality(temp)
         /\ lost = {} => msgCount[p] = Cardinality(tree) + Cardinality(temp)
  BY <1>2, ListenerOrder
<1> HIDE DEF p, tree, temp, msgs
<1>5. /\ T \in SUBSET Messages /\ U \in SUBSET Messages /\ L \in SUBSET tree
      /\ T \cup U \cup L = tree \cup temp
      /\ ~ReplicaLags => \A x \in U, o \in T : x < o
  BY <1>1, <1>3, <1>4
<1>6. /\ \A q \in PQs : q # p => msgTreeMap'[q] = msgTreeMap[q] /\ msgTreeMapTemp'[q] = msgTreeMapTemp[q]
      /\ msgTreeMap'[p] = T /\ msgTreeMapTemp'[p] = U
      /\ \A v \in Workers : thread'[v] = Idle
  BY <1>1, <1>2, <1>3 DEF IInv, TypeOK, Leave
<1>7. TypeOK'
  BY <1>1, <1>2, <1>3, <1>5, LeaveType DEF IInv, TypeOK
<1>8. MutexOK' /\ RequestsOK'
  BY <1>2, <1>6, LeaveFrame DEF p
<1>9. CreatedOK' /\ BatchOK' /\ (~ReplicaLags => PulledOK')
  <2>1. p \in created
    BY <1>3 DEF IInv, CreatedOK, p, temp
  <2>2. CreatedOK' /\ BatchOK'
    BY <1>2, <1>3, <1>6, <2>1 DEF IInv, CreatedOK, BatchOK
  <2>3. ~ReplicaLags => \A o \in T \cup U : o < nextOffset[p]
    BY <1>3, <1>5 DEF IInv, PulledOK, p, tree, temp
  <2>4. QED BY <1>2, <1>3, <1>6, <2>2, <2>3 DEF IInv, PulledOK
<1>10. ~ReplicaLags => TakenInOrder'
  BY <1>3, <1>5, <1>6 DEF IInv, TakenInOrder
<1>11. ~ReplicaLags => CoverOK' /\ CommittedFirst'
  <2> SUFFICES ASSUME ~ReplicaLags PROVE CoverOK' /\ CommittedFirst'
    OBVIOUS
  <2>1. \A q \in PQs : \A o \in Matching : o < nextOffset[q] =>
           Passed(o)' \/ o \in msgTreeMap'[q] \cup msgTreeMapTemp'[q]
    <3> SUFFICES ASSUME NEW q \in PQs, NEW o \in Matching, o < nextOffset[q]
                 PROVE  Passed(o)' \/ o \in msgTreeMap'[q] \cup msgTreeMapTemp'[q]
      OBVIOUS
    <3>1. Passed(o) \/ o \in msgTreeMap[q] \cup msgTreeMapTemp[q]
      BY DEF IInv, CoverOK
    <3>2. CASE Passed(o)
      BY <1>1, <1>2, <3>2 DEF Passed
    <3>3. CASE q # p
      BY <1>6, <3>1, <3>2, <3>3
    <3>4. CASE q = p /\ o \in tree \cup temp
      BY <1>1, <1>5, <1>6, <3>4 DEF Passed
    <3>5. QED BY <3>1, <3>2, <3>3, <3>4 DEF tree, temp
  <2>2. QED BY <1>1, <1>2, <1>3, <1>6, <2>1 DEF IInv, CoverOK, CommittedFirst
<1>12. ~ReplicaLags => BothTreesCounted'
  <2> SUFFICES ASSUME ~ReplicaLags PROVE BothTreesCounted'
    OBVIOUS
  <2>1. Cardinality(T) + Cardinality(U) <= msgCount[p]
        /\ (lost' = {} => msgCount[p] = Cardinality(T) + Cardinality(U))
    <3>1. CASE T = temp /\ U = {} /\ L = tree
      <4>1. Cardinality(U) = 0 /\ (lost' = {} => lost = {} /\ Cardinality(tree) = 0)
        BY <1>1, <3>1, FS_EmptySet
      <4>2. QED BY <1>3, <1>4, <3>1, <4>1
    <3>2. CASE T = tree \cup msgs /\ U = temp \ msgs /\ L = {}
      <4>1. Cardinality(U) + Cardinality(T) = Cardinality(temp) + Cardinality(tree)
        BY <1>3, <1>4, <3>2, MoveCounts
      <4>2. lost' = lost
        BY <1>1, <3>2
      <4>3. Cardinality(T) \in Nat /\ Cardinality(U) \in Nat
        BY <1>5, MessagesFinite
      <4>4. QED BY <1>3, <1>4, <4>1, <4>2, <4>3
    <3>3. QED BY <1>1, <3>1, <3>2
  <2>2. ASSUME NEW q \in PQs
        PROVE  LET n == Cardinality(msgTreeMap'[q]) + Cardinality(msgTreeMapTemp'[q])
               IN  msgCount'[q] >= n /\ (lost' = {} => msgCount'[q] = n)
    <3>1. CASE q # p
      BY <1>1, <1>2, <1>6, <3>1 DEF IInv, BothTreesCounted
    <3>2. CASE q = p
      <4>1. Cardinality(T) \in Nat /\ Cardinality(U) \in Nat
        BY <1>5, MessagesFinite
      <4>2. QED BY <1>2, <1>3, <1>6, <2>1, <3>2, <4>1
    <3>3. QED BY <3>1, <3>2
  <2>3. QED BY <2>2 DEF BothTreesCounted
<1>13. QED BY <1>7, <1>8, <1>9, <1>10, <1>11, <1>12 DEF IInv
-----------------------------------------------------------------------------

\* Every step keeps the invariant.
LEMMA NextIInv == IInv /\ [Next]_vars => IInv'
<1> SUFFICES ASSUME IInv, [Next]_vars PROVE IInv'
  OBVIOUS
<1>1. CASE \/ EraseProcessQueue \/ SetDropped \/ RemoveUnnecessaryMessageQueue \/ PersistAll
           \/ LockMQPeriodically \/ Expire
           \/ \E p \in PQs : PullMessage(p) \/ LockExpires(p)
  BY <1>1, TableSteps
<1>2. CASE \E p \in PQs : AddProcessQueue(p)
  BY <1>2, AddProcessQueueStep
<1>3. CASE \E p \in PQs : \E n \in 0 .. MaxOffset : OnFound(p, n)
  BY <1>3, OnFoundStep
<1>14. CASE \E p \in PQs : OnNoNewMsg(p)
  BY <1>14, OnNoNewMsgStep
<1>15. CASE \E p \in PQs : \E n \in 0 .. MaxOffset : OnNoMatchedMsg(p, n) \/ OnOffsetIllegal(p, n)
  BY <1>15, MovedStep
<1>4. CASE \E p \in PQs : OnTimeOutLater(p) \/ \E lockOK \in LockBatchMQ : OnTimeOutTryLock(p, lockOK)
  BY <1>4, TimerSteps
<1>5. CASE \E p \in PQs : \E w \in Workers : StartDo(w, p)
  BY <1>5, StartDoStep
<1>6. CASE \E w \in Workers : BreakLoop(w) \/ ConsumedTooLong(w) \/ PassChecks(w) \/ ConsumeNext(w)
  BY <1>6, LoopSteps
<1>7. CASE \E w \in Workers : TakeMessages(w)
  BY <1>7, TakeMessagesStep
<1>8. CASE \E w \in Workers : ClearConsuming(w)
  BY <1>8, ClearConsumingStep
<1>9. CASE \E w \in Workers : UpdateOffset(w)
  BY <1>9, UpdateOffsetStep
<1>10. CASE \E w \in Workers : Commit(w)
  BY <1>10, CommitStep
<1>11. CASE \E w \in Workers : Rollback(w) \/ Suspend(w)
  BY <1>11, PutBackStep
<1>12. CASE UNCHANGED vars
  <2>1. TypeOK' /\ MutexOK' /\ RequestsOK'
    BY <1>12 DEF IInv, TypeOK, MutexOK, RequestsOK, vars, offsetVars, tableVars, treeVars,
                 lockVars, pullVars, workVars
  <2>2. /\ ~ReplicaLags => CommittedFirst'
        /\ UNCHANGED <<treeVars, nextOffset, finished, lost, created, inflight, thread, minOffset>>
    BY <1>12 DEF IInv, CommittedFirst, vars, offsetVars, tableVars, pullVars, workVars
  <2>3. QED BY <2>1, <2>2, TreesFrame DEF IInv, TypeOK, treeVars
<1>13. QED BY <1>1, <1>2, <1>3, <1>4, <1>5, <1>6, <1>7, <1>8, <1>9, <1>10, <1>11, <1>12, <1>14,
              <1>15
           DEF Next, ProcessConsumeResult

\* The invariant holds throughout.
LEMMA InvHolds == Spec => []IInv
<1>1. QED BY InitIInv, NextIInv, PTL DEF Spec

\* A queue never has two requests, and m_consuming is set while it has one: no
\* second thread consumes it and no second timer brings it back.
THEOREM OneRequestHolds == Spec => []OneRequest
<1>1. IInv => OneRequest
  BY IInvImplies
<1>2. QED BY <1>1, InvHolds, PTL

\* Messages that wait have a request, unless Do ended without the lock or a
\* message came between takeMessages' test and its clearing of m_consuming.
THEOREM WaitingHasRequestHolds == Spec => []WaitingHasRequest
<1>1. IInv => WaitingHasRequest
  BY IInvImplies
<1>2. QED BY <1>1, InvHolds, PTL

\* With pulls that the master serves, the listener gets messages in the order of
\* their offsets, for any batch size and through suspensions, rollbacks, commits of
\* several batches and OFFSET_ILLEGAL answers.
THEOREM TakenInOrderHolds == ~ReplicaLags => (Spec => []TakenInOrder)
<1> SUFFICES ASSUME ~ReplicaLags PROVE Spec => []TakenInOrder
  OBVIOUS
<1>1. IInv => TakenInOrder
  BY IInvImplies
<1>2. QED BY <1>1, InvHolds, PTL

\* Under the same condition no offset that is cached or stored, be it by a commit,
\* by correctTagsOffset or by an OFFSET_ILLEGAL answer, passes a message whose
\* consumption was not committed, except what a rollback dropped and what expired.
THEOREM CommittedFirstHolds == ~ReplicaLags => (Spec => []CommittedFirst)
<1> SUFFICES ASSUME ~ReplicaLags PROVE Spec => []CommittedFirst
  OBVIOUS
<1>1. IInv => CommittedFirst
  BY IInvImplies
<1>2. QED BY <1>1, InvHolds, PTL

\* Under the same condition m_msgCount is the size of the two trees until a rollback
\* drops messages, and never less.
THEOREM BothTreesCountedHolds == ~ReplicaLags => (Spec => []BothTreesCounted)
<1> SUFFICES ASSUME ~ReplicaLags PROVE Spec => []BothTreesCounted
  OBVIOUS
<1>1. IInv => BothTreesCounted
  BY IInvImplies
<1>2. QED BY <1>1, InvHolds, PTL
=============================================================================
