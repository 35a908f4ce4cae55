------------------------------ MODULE Producer ------------------------------
(***************************************************************************)
(* DefaultMQProducerImpl: application threads send messages of one topic   *)
(* through one producer.  A send looks up the topic's queues, tries up to  *)
(* three of them and hands each attempt to MQClientAPIImpl, whose calls    *)
(* keep the promise of RpcCalls; what a response means is decided by       *)
(* processSendResponse, for asynchronous sends on the remoting threads.    *)
(*                                                                         *)
(* A queue is <<broker, id>>.  A body is abstracted to the number of times *)
(* it went through compress and to whether it still is over the threshold. *)
(* Two commands whose frames run into each other on a connection (mixed in *)
(* RpcCalls) are left to Remoting, and so are hooks, which change nothing. *)
(* Sends with a MessageQueueSelector are not implemented in the code.      *)
(***************************************************************************)
EXTENDS Integers, Sequences, FiniteSets

CONSTANTS
    Threads,   \* application threads, each sending one message
    Modes,     \* the communication modes used, of "SYNC", "ASYNC" and "ONEWAY"
    Routes,    \* queue lists the name server's answers may lead to; <<>> when no queue can be written
    RetryAnotherBrokerWhenNotStoreOK,
    NoBroker

MaxTries == 3

ASSUME ProducerAssumption ==
    /\ Modes \subseteq {"SYNC", "ASYNC", "ONEWAY"}
    /\ RetryAnotherBrokerWhenNotStoreOK \in BOOLEAN
    /\ \A r \in Routes : r \in Seq({r[i] : i \in DOMAIN r}) /\ \A i \in 1 .. Len(r) : r[i][1] # NoBroker

BrokersOf(queues) == {queues[i][1] : i \in 1 .. Len(queues)}

Brokers  == UNION {BrokersOf(r) : r \in Routes}
Attempts == Threads \X (1 .. MaxTries)
Stored   == {"SUCCESS", "FLUSH_DISK_TIMEOUT"}   \* FLUSH_SLAVE_TIMEOUT, SLAVE_NOT_AVAILABLE: as the second
Refused  == {"SYSTEM_ERROR"}

VARIABLES
    serviceState, \* m_serviceState
    publish,      \* m_topicPublishInfoTable: the topic's queues, with m_sendWhichQueue
    addrs,        \* the brokers whose master is in m_brokerAddrTable
    job,          \* thread -> its send: locals of sendDefaultImpl and the message's body
    outcome,      \* thread -> how its send returned
    called,       \* thread -> calls of its SendCallback
    code,         \* attempt -> the response's code, "none" while there is none
    wire, disk,   \* external: requests sent, and what brokers stored of them
    status, answered, mixed   \* the calls: see RpcCalls

locals == <<job, outcome>>
tables == <<publish, addrs>>
rpc    == <<status, answered, mixed>>
net    == <<wire, code, disk>>
vars   == <<serviceState, tables, locals, called, net, rpc>>

Calls == INSTANCE RpcCalls WITH Calls <- Attempts, Oneway <- {}

Idle == [pc |-> "idle", mode |-> "SYNC", direct |-> FALSE, times |-> 0, queues |-> <<>>, which |-> 0,
         mq |-> NoBroker, zips |-> 0, big |-> FALSE, flag |-> FALSE, expired |-> FALSE]

Attempt(t) == <<t, job[t].times + 1>>

Init ==
    /\ serviceState = "CREATE_JUST"
    /\ publish = [queues |-> <<>>, which |-> 0] /\ addrs = {}
    /\ job = [t \in Threads |-> Idle]
    /\ outcome = [t \in Threads |-> "none"] /\ called = [t \in Threads |-> <<>>]
    /\ wire = {} /\ code = [a \in Attempts |-> "none"] /\ disk = {}
    /\ Calls!Init

Returns(t, how) ==
    /\ job' = [job EXCEPT ![t].pc = "done"] /\ outcome' = [outcome EXCEPT ![t] = how]
    /\ UNCHANGED <<serviceState, called>>
-----------------------------------------------------------------------------
(* Life cycle, and the tables other threads write. *)

\* Registering fails when the group is taken; the producer may then be started again.
Start ==
    /\ serviceState = "CREATE_JUST"
    /\ serviceState' \in {"RUNNING", "CREATE_JUST"}
    /\ UNCHANGED <<tables, locals, called, net, rpc>>

Shutdown ==
    /\ serviceState = "RUNNING" /\ serviceState' = "SHUTDOWN_ALREADY"
    /\ UNCHANGED <<tables, locals, called, net, rpc>>

\* updateTopicPublishInfo keeps the table's counter.
UpdateTopicPublishInfo(queues) == publish' = [publish EXCEPT !.queues = queues]

\* The periodic refresh finds a route that differs from the one before.
RouteChanges ==
    /\ serviceState = "RUNNING"
    /\ \E r \in Routes \ {publish.queues} :
          UpdateTopicPublishInfo(r) /\ addrs' = addrs \cup BrokersOf(r)
    /\ UNCHANGED <<serviceState, locals, called, net, rpc>>

\* cleanOfflineBroker writes an older copy of the table back.
AddressDropped(b) ==
    /\ b \in addrs /\ addrs' = addrs \ {b}
    /\ UNCHANGED <<serviceState, publish, locals, called, net, rpc>>
-----------------------------------------------------------------------------
(* The application's call. *)

\* A topic and a body by what Validators tells apart; characters are not checked.
Messages == [topic : {"blank", "tooLong", "TBW102", "ok"}, body : {"NULL", "empty", "tooLong", "ok"}]

CheckTopic(topic) == topic \notin {"blank", "tooLong", "TBW102"}

CheckMessage(msg) == CheckTopic(msg.topic) /\ msg.body \notin {"NULL", "empty", "tooLong"}

MakeSureStateOK == serviceState = "RUNNING"

\* send and sendOneway, with and without a queue given.
SendBegins(t, mode, direct, msg) ==
    /\ job[t].pc = "idle"
    /\ IF MakeSureStateOK /\ CheckMessage(msg)
         THEN /\ \E big \in BOOLEAN, q \in IF direct THEN Brokers ELSE {NoBroker} :
                    job' = [job EXCEPT ![t] = [Idle EXCEPT !.pc = IF direct THEN "kernel" ELSE "find",
                               !.mode = mode, !.direct = direct, !.mq = q, !.big = big]]
              /\ UNCHANGED <<serviceState, outcome, called>>
         ELSE Returns(t, "exception")
    /\ UNCHANGED <<tables, net, rpc>>

\* What the topic is known by after both refreshes, each of which may be skipped
\* or remain without an answer.
TryToFindTopicPublishInfo ==
    IF publish.queues # <<>>
      THEN UNCHANGED tables
      ELSE \E r \in Routes \cup {<<>>} :
              UpdateTopicPublishInfo(r) /\ addrs' = addrs \cup BrokersOf(r)

\* sendDefaultImpl works on a copy of the table's entry, counter included.
FindTopic(t) ==
    /\ job[t].pc = "find"
    /\ TryToFindTopicPublishInfo
    /\ IF publish'.queues = <<>>
         THEN Returns(t, "exception")
         ELSE /\ job' = [job EXCEPT ![t].pc = "select", ![t].queues = publish'.queues,
                                    ![t].which = publish'.which]
              /\ UNCHANGED <<serviceState, outcome, called>>
    /\ UNCHANGED <<net, rpc>>

\* The queue to use, or NoBroker; after a failure one of another broker.
SelectOneMessageQueue(queues, which, lastBroker) ==
    LET at(i) == queues[((which + i) % Len(queues)) + 1][1]
        other == {i \in 0 .. Len(queues) - 1 : at(i) # lastBroker}
    IN  IF lastBroker = NoBroker THEN at(0)
        ELSE IF other = {} THEN NoBroker
        ELSE at(CHOOSE i \in other : \A j \in other : i <= j)

Select(t) ==
    LET j == job[t]
        q == SelectOneMessageQueue(j.queues, j.which, j.mq)
    IN  /\ j.pc = "select"
        /\ IF j.times < MaxTries /\ ~j.expired /\ q # NoBroker
             THEN /\ job' = [job EXCEPT ![t].pc = "kernel", ![t].mq = q, ![t].which = @ + 1]
                  /\ UNCHANGED <<serviceState, outcome, called>>
             ELSE Returns(t, "exception")   \* Retry many times, still failed
        /\ UNCHANGED <<tables, net, rpc>>

\* Mutant: a failed attempt is not counted.
FailsUncounted(t) ==
    IF job[t].direct
      THEN Returns(t, IF job[t].mode = "SYNC" THEN "exception" ELSE "returned")
      ELSE job' = [job EXCEPT ![t].pc = "select"] /\ UNCHANGED <<serviceState, outcome, called>>

\* An exception out of sendKernelImpl: sendDefaultImpl goes on, a send to a
\* given queue passes it on or, without a result to return, swallows it.
Fails(t) ==
    IF job[t].direct
      THEN Returns(t, IF job[t].mode = "SYNC" THEN "exception" ELSE "returned")
      ELSE /\ \E late \in BOOLEAN :
                 job' = [job EXCEPT ![t].pc = "select", ![t].times = @ + 1, ![t].expired = late]
           /\ UNCHANGED <<serviceState, outcome, called>>
-----------------------------------------------------------------------------
(* sendKernelImpl and MQClientAPIImpl::sendMessage. *)

\* The table of topics is still filled, so the second look finds no more than the first.
NoAddress(t) ==
    /\ job[t].pc = "kernel" /\ job[t].mq \notin addrs
    /\ TryToFindTopicPublishInfo
    /\ job[t].mq \notin addrs' /\ Fails(t)
    /\ UNCHANGED <<net, rpc>>

\* The body that replaces the message's own stays; compress may fail.
TryToCompressMessage(t, zipped) ==
    /\ zipped => job[t].big
    /\ \E big \in IF zipped THEN BOOLEAN ELSE {job[t].big} :
          job' = [job EXCEPT ![t].pc = "invoke", ![t].flag = zipped, ![t].big = big,
                             ![t].zips = IF zipped THEN @ + 1 ELSE @]

SendKernel(t) ==
    /\ job[t].pc = "kernel"
    /\ IF job[t].mq \in addrs THEN UNCHANGED tables
       ELSE TryToFindTopicPublishInfo /\ job[t].mq \in addrs'
    /\ \E zipped \in BOOLEAN : TryToCompressMessage(t, zipped)
    /\ UNCHANGED <<serviceState, outcome, called, net, rpc>>

Copy(t) == [from |-> Attempt(t), zips |-> job[t].zips, flag |-> job[t].flag]

\* Asynchronous and one-way sends return at once.
SendMessage(t) ==
    /\ job[t].pc = "invoke" /\ Calls!Issue(Attempt(t))
    /\ wire' = wire \cup {Copy(t)}
    /\ IF job[t].mode = "SYNC"
         THEN job' = [job EXCEPT ![t].pc = "waiting"] /\ UNCHANGED <<serviceState, outcome, called>>
         ELSE Returns(t, "returned")
    /\ UNCHANGED <<tables, code, disk>>

\* A look-up of the route, and every command, may have to connect first, and takes
\* the lock of the transport table: connect and SSL_connect end when the server
\* lets them, and whoever else needs the table waits as long.
ConnectHangs(t) ==
    /\ \/ job[t].pc = "invoke"
       \/ publish.queues = <<>> /\ job[t].pc = "find"
       \/ publish.queues = <<>> /\ job[t].pc = "kernel" /\ job[t].mq \notin addrs
    /\ job' = [job EXCEPT ![t].pc = "hung"]
    /\ UNCHANGED <<serviceState, tables, outcome, called, net, rpc>>

\* No connection: invokeSync's NULL makes a default SendResult, the -1 of
\* invokeAsync and invokeOneway is ignored.
SendDisconnected(t) ==
    /\ job[t].pc = "invoke" /\ Calls!EndWithout(Attempt(t))
    /\ Returns(t, IF job[t].mode = "SYNC" THEN "SEND_OK" ELSE "returned")
    /\ UNCHANGED <<tables, net>>

\* Mutant: a refusal is not thrown.
ProcessSendResponseLenient(c) == IF c = "FLUSH_DISK_TIMEOUT" THEN c ELSE "SEND_OK"

\* The status of a response; anything else is thrown.
ProcessSendResponse(c) ==
    CASE c = "SUCCESS"            -> "SEND_OK"
      [] c = "FLUSH_DISK_TIMEOUT" -> "FLUSH_DISK_TIMEOUT"
      [] OTHER                    -> "exception"

\* Without a response there is no SendResult, and sendMessage returns the one it began with.
SendMessageSync(t) ==
    IF status[Attempt(t)] = "answer" THEN ProcessSendResponse(code[Attempt(t)]) ELSE "SEND_OK"

\* Mutant: whether to try another broker is not asked.
AgainAlways(t, result) == result = "FLUSH_DISK_TIMEOUT" /\ ~job[t].direct

\* sendDefaultImpl's continue: the next round of its loop.
Again(t, result) ==
    result = "FLUSH_DISK_TIMEOUT" /\ RetryAnotherBrokerWhenNotStoreOK /\ ~job[t].direct

SyncReturns(t) ==
    LET result == SendMessageSync(t)
    IN  /\ job[t].pc = "waiting" /\ status[Attempt(t)] \in Calls!Ended
        /\ IF result = "exception" \/ Again(t, result) THEN Fails(t) ELSE Returns(t, result)
        /\ UNCHANGED <<tables, net, rpc>>

\* A synchronous call ends with its answer or when its time is over.
CallEnds(t) ==
    /\ job[t].pc = "waiting"
    /\ Calls!EndWithAnswer(Attempt(t)) \/ Calls!EndWithout(Attempt(t))
    /\ UNCHANGED <<serviceState, tables, locals, called, net>>

\* ProducerInvokeCallback::operationComplete.
OperationComplete(t) ==
    /\ job[t].mode = "ASYNC" /\ outcome[t] = "returned"
    /\ Calls!EndWithAnswer(Attempt(t))
    /\ called' = [called EXCEPT ![t] = Append(@, ProcessSendResponse(code[Attempt(t)]))]
    /\ UNCHANGED <<serviceState, tables, locals, net>>

ResponseLost(t) ==
    /\ job[t].mode # "SYNC" /\ outcome[t] = "returned" /\ status[Attempt(t)] = "pending"
    /\ Calls!EndWithout(Attempt(t))
    /\ UNCHANGED <<serviceState, tables, locals, called, net>>
-----------------------------------------------------------------------------
(* Brokers. *)

\* A request that arrives is handled once, even when its caller has given up.
BrokerHandles(copy) ==
    /\ wire' = wire \ {copy}
    /\ \E c \in Stored \cup Refused :
          /\ code' = [code EXCEPT ![copy.from] = c]
          /\ disk' = IF c \in Stored THEN disk \cup {copy} ELSE disk
    /\ IF job[copy.from[1]].mode = "ONEWAY" THEN UNCHANGED rpc ELSE Calls!Answer(copy.from)
    /\ UNCHANGED <<serviceState, tables, locals, called>>

\* What a thread does on its own account.
Step(t) ==
    \/ FindTopic(t) \/ Select(t) \/ NoAddress(t) \/ SendKernel(t)
    \/ SendMessage(t) \/ SendDisconnected(t) \/ CallEnds(t) \/ SyncReturns(t)

Next ==
    \/ Start \/ Shutdown \/ RouteChanges \/ \E b \in Brokers : AddressDropped(b)
    \/ \E t \in Threads :
          \/ \E mode \in Modes, direct \in BOOLEAN, msg \in Messages : SendBegins(t, mode, direct, msg)
          \/ Step(t) \/ ConnectHangs(t) \/ OperationComplete(t) \/ ResponseLost(t)
    \/ \E copy \in wire : BrokerHandles(copy)

Spec == Init /\ [][Next]_vars

\* A thread that is not held up in a connect runs, and a synchronous call that was
\* sent ends: its wait is timed.
FairSpec == Spec /\ \A t \in Threads : WF_vars(Step(t))
-----------------------------------------------------------------------------
(* Properties. *)

CopiesOf(t) == {c \in disk : c.from[1] = t}

\* A send leaves at most one copy on the brokers, and none if it throws, so that
\* the application may send again: sendDefaultImpl goes on only after a broker has
\* refused the message or could not be asked.  (With
\* retryAnotherBrokerWhenNotStoreOK it also goes on after a copy was stored.)
NoHiddenCopy ==
    ~RetryAnotherBrokerWhenNotStoreOK =>
        \A t \in Threads : Cardinality(CopiesOf(t)) <= IF outcome[t] = "exception" THEN 0 ELSE 1

\* The compressed flag in the header of a copy says what tryToCompressMessage did.
\* (A later attempt compresses what the earlier one left in the message.)
Readable(c) == c.zips = IF c.flag THEN 1 ELSE 0

\* ProducerInvokeCallback calls back at most once, with success exactly when the
\* broker has stored the message, and then consumers can read it.
CallbackTrue ==
    \A t \in Threads :
        /\ Len(called[t]) <= 1
        /\ called[t] # <<>> => (called[t][1] # "exception" <=> CopiesOf(t) # {})
        /\ called[t] # <<>> => \A c \in CopiesOf(t) : Readable(c)

\* Every send returns, whatever routes, addresses and responses do:
\* sendDefaultImpl's loop is bounded by its tries, and each synchronous call by
\* its timeout.  Only connecting is outside of both: a server that lets the
\* handshake hang holds the send for ever.
SendReturns == \A t \in Threads : job[t].pc # "idle" ~> job[t].pc \in {"done", "hung"}

\* include/SendResult.h on SendStatus: each of the four means that the message
\* has reached the master.
SendOkMeansStored == \A t \in Threads : outcome[t] = "SEND_OK" => CopiesOf(t) # {}
=============================================================================
