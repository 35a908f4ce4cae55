------------------------------ MODULE Remoting ------------------------------
(***************************************************************************)
(* TcpRemotingClient, ResponseFuture and the connection state of           *)
(* TcpTransport.  Callers are user and service threads, each making one    *)
(* call; an event thread polls the sockets and hands every frame received  *)
(* to a thread pool, whose workers match it with the future of its call.   *)
(* m_tcpTransportTableMutex guards the table of transports, and            *)
(* m_responseTableMutex the table of futures; a transport is a bare        *)
(* pointer that callers keep after the lock was released.  A caller that   *)
(* connects keeps the table's lock until the connection and its TLS        *)
(* handshake are made or refused, for which there is no time limit.        *)
(*                                                                         *)
(* Brokers are external: they may answer late or never, close a connection *)
(* and refuse a new one.  How a stream of bytes is cut into frames on the  *)
(* way back is TcpTransport's; here a response arrives whole.              *)
(***************************************************************************)
EXTENDS Integers, Sequences, FiniteSets

CONSTANTS
    Addrs,        \* addresses of brokers and name servers
    Calls,        \* the calls made, one per caller
    Kind,         \* call -> "sync", "async" or "oneway"
    Addr,         \* call -> the address it goes to
    HasBody,      \* the calls whose command has a body
    MaxTransports \* bound: connections made

Tids == 1 .. MaxTransports
NULL == 0

ASSUME RemotingAssumption ==
    /\ MaxTransports \in Nat \ {0} /\ HasBody \subseteq Calls
    /\ Kind \in [Calls -> {"sync", "async", "oneway"}] /\ Addr \in [Calls -> Addrs]

VARIABLES
    transport,     \* connection -> "none", "connected", "disconnected" or "deleted"
    table,         \* m_tcpTransportTable: address -> connection, or NULL
    rset,          \* m_rset
    ready,         \* what select reported to the event thread
    stop,          \* m_stop, with the thread pool destroyed
    pc, tts,       \* call -> where its caller stands, and the transport it holds
    responseTable, \* m_responseTable: the calls that have an entry
    refs,          \* call -> m_refCount of its future, 0 before it is made and once freed
    response,      \* call -> m_pResponseCommand is set
    notify,        \* call -> m_notifyFlag
    got,           \* call -> waitResponse returned the response
    called,        \* call -> operationComplete has been called
    work,          \* call -> how far a worker got with its response
    wire,          \* connection -> pieces sent that the broker did not read yet
    broker,        \* connection -> requests the broker has read and may answer
    inbox,         \* connection -> responses on their way
    peerClosed,    \* connection -> the broker has closed it
    answered, mixed,  \* history: see RpcCalls
    crashed        \* a freed transport was used, and the process died of it

conns   == <<transport, table, rset>>
event   == <<ready, stop>>
caller  == <<pc, tts, got>>
futures == <<responseTable, refs, response, notify>>
net     == <<wire, broker, inbox, peerClosed>>
history == <<answered, mixed>>
vars    == <<conns, event, caller, futures, called, work, net, history, crashed>>

Stages == {"idle", "connecting", "update", "check", "remove", "send", "body", "sendFailed", "sent", "wait",
           "cleanup", "returned", "failed"}

TypeOK ==
    /\ transport \in [Tids -> {"none", "connected", "disconnected", "deleted"}]
    /\ table \in [Addrs -> Tids \cup {NULL}]
    /\ rset \subseteq Tids /\ ready \subseteq Tids
    /\ stop \in BOOLEAN /\ crashed \in BOOLEAN
    /\ pc \in [Calls -> Stages] /\ tts \in [Calls -> Tids \cup {NULL}]
    /\ responseTable \subseteq Calls /\ refs \in [Calls -> 0 .. 2]
    /\ response \in [Calls -> BOOLEAN] /\ notify \in [Calls -> BOOLEAN]
    /\ got \in [Calls -> BOOLEAN] /\ called \in [Calls -> BOOLEAN]
    /\ work \in [Calls -> {"none", "queued", "found", "put", "notify", "callback"}]
    /\ wire \in [Tids -> Seq(Calls \X {"head", "body"})]
    /\ broker \in [Tids -> SUBSET Calls] /\ inbox \in [Tids -> Seq(Calls)]
    /\ peerClosed \in [Tids -> BOOLEAN]
    /\ answered \subseteq Calls /\ mixed \subseteq Calls

Init ==
    /\ transport = [t \in Tids |-> "none"] /\ table = [a \in Addrs |-> NULL]
    /\ rset = {} /\ ready = {} /\ stop = FALSE
    /\ pc = [c \in Calls |-> "idle"] /\ tts = [c \in Calls |-> NULL]
    /\ got = [c \in Calls |-> FALSE] /\ called = [c \in Calls |-> FALSE]
    /\ responseTable = {} /\ refs = [c \in Calls |-> 0]
    /\ response = [c \in Calls |-> FALSE] /\ notify = [c \in Calls |-> FALSE]
    /\ work = [c \in Calls |-> "none"]
    /\ wire = [t \in Tids |-> <<>>] /\ broker = [t \in Tids |-> {}]
    /\ inbox = [t \in Tids |-> <<>>] /\ peerClosed = [t \in Tids |-> FALSE]
    /\ answered = {} /\ mixed = {} /\ crashed = FALSE

(***************************************************************************)
(* Transports.                                                             *)
(***************************************************************************)
\* A thread takes a step only while the process lives.
Goto(c, l) == ~crashed /\ pc' = [pc EXCEPT ![c] = l]

Registered(c) == Kind[c] # "oneway"

\* A caller is inside connect or SSL_connect, and has m_tcpTransportTableMutex.
Connecting == \E c \in Calls : pc[c] = "connecting"

\* GetAndCreateTransport: the transport of the address, or a new one.
FindTransport(c) ==
    /\ pc[c] = "idle" /\ ~Connecting /\ table[Addr[c]] # NULL
    /\ tts' = [tts EXCEPT ![c] = table[Addr[c]]] /\ Goto(c, "check")
    /\ UNCHANGED <<conns, event, got, futures, called, work, net, history, crashed>>

Connect(c) ==
    /\ pc[c] = "idle" /\ ~Connecting /\ table[Addr[c]] = NULL
    /\ Goto(c, "connecting")
    /\ UNCHANGED <<conns, event, tts, got, futures, called, work, net, history, crashed>>

\* The server finishes the handshake, at a time of its own.
Connected(c) ==
    /\ pc[c] = "connecting"
    /\ \E t \in Tids :
          /\ transport[t] = "none" /\ \A s \in Tids : s < t => transport[s] # "none"
          /\ transport' = [transport EXCEPT ![t] = "connected"]
          /\ table' = [table EXCEPT ![Addr[c]] = t]
          /\ tts' = [tts EXCEPT ![c] = t]
    /\ Goto(c, "update")
    /\ UNCHANGED <<rset, event, got, futures, called, work, net, history, crashed>>

\* The connection is refused or broken off: the transport is deleted again, and
\* NULL makes the call fail.
ConnectFails(c) ==
    /\ pc[c] = "connecting"
    /\ Goto(c, "failed")
    /\ UNCHANGED <<conns, event, tts, got, futures, called, work, net, history, crashed>>

\* UpdateEvent, called after the table's lock was released and taken again.
UpdateEvent(c) ==
    /\ pc[c] = "update" /\ ~Connecting
    /\ rset' = {table[a] : a \in Addrs} \ {NULL}
    /\ Goto(c, "check")
    /\ UNCHANGED <<transport, table, event, tts, got, futures, called, work, net, history, crashed>>

\* RemoveTTS deletes the transport it found disconnected; m_rset keeps its
\* socket until the next UpdateEvent.
RemoveTTS(c) ==
    /\ pc[c] = "remove" /\ ~Connecting /\ transport[tts[c]] # "deleted"
    /\ transport' = [transport EXCEPT ![tts[c]] = "deleted"]
    /\ table' = [table EXCEPT ![Addr[c]] = NULL]
    /\ Goto(c, "failed")
    /\ UNCHANGED <<rset, event, tts, got, futures, called, work, net, history, crashed>>

\* Another caller deleted the transport this one still points to.  What the
\* freed memory says is undefined: it may still read as disconnected, see
\* Invoke and SendFails, or the process dies; a second delete always does.
UseAfterFree(c) ==
    /\ pc[c] \in {"check", "remove", "send", "body"} /\ transport[tts[c]] = "deleted"
    /\ ~crashed /\ crashed' = TRUE
    /\ UNCHANGED <<conns, event, caller, futures, called, work, net, history>>

(***************************************************************************)
(* invokeSync, invokeAsync and invokeOneway.                               *)
(***************************************************************************)

\* Mutant: the table's entry has no reference of its own.
NewFutureShared(c) ==
    /\ responseTable' = responseTable \cup {c} /\ refs' = [refs EXCEPT ![c] = 1]

\* The future is made with one reference, and gets another for the table.
NewFuture(c) ==
    /\ responseTable' = responseTable \cup {c} /\ refs' = [refs EXCEPT ![c] = 2]

\* The test of IsConnected, and the future of a call that expects an answer.
Invoke(c) ==
    /\ pc[c] = "check" /\ transport[tts[c]] = "connected"
    /\ Goto(c, "send")
    /\ IF Registered(c) THEN NewFuture(c) ELSE UNCHANGED <<responseTable, refs>>
    /\ UNCHANGED <<conns, event, tts, got, response, notify, called, work, net, history, crashed>>

InvokeDisconnected(c) ==
    /\ pc[c] = "check" /\ transport[tts[c]] # "connected"
    /\ Goto(c, "remove")
    /\ UNCHANGED <<conns, event, tts, got, futures, called, work, net, history, crashed>>

\* SendCmd: the head, and then the body, each sent whole under m_sendLock.
SendHead(c) ==
    /\ pc[c] = "send" /\ transport[tts[c]] = "connected"
    /\ wire' = [wire EXCEPT ![tts[c]] = Append(@, <<c, "head">>)]
    /\ Goto(c, IF c \in HasBody THEN "body" ELSE "sent")
    /\ UNCHANGED <<conns, event, tts, got, futures, called, work, broker, inbox, peerClosed,
                   history, crashed>>

SendBody(c) ==
    /\ pc[c] = "body" /\ transport[tts[c]] = "connected"
    /\ wire' = [wire EXCEPT ![tts[c]] = Append(@, <<c, "body">>)]
    /\ Goto(c, "sent")
    /\ UNCHANGED <<conns, event, tts, got, futures, called, work, broker, inbox, peerClosed,
                   history, crashed>>

\* SendOneMsg gives up and closes the transport, or finds it closed.
SendFails(c) ==
    /\ pc[c] \in {"send", "body"}
    /\ transport' = [transport EXCEPT ![tts[c]] = IF @ = "connected" THEN "disconnected" ELSE @]
    /\ Goto(c, "sendFailed")
    /\ UNCHANGED <<table, rset, event, tts, got, futures, called, work, net, history, crashed>>

\* The caller takes its future out of the table if it is still there, and
\* gives up its own reference.
Release(c) ==
    /\ responseTable' = responseTable \ {c}
    /\ refs' = [refs EXCEPT ![c] = @ - (IF c \in responseTable THEN 2 ELSE 1)]

\* Mutant: a call that could not be sent is reported to its callback as well.
AfterSendFailedCallsBack(c) ==
    /\ pc[c] = "sendFailed"
    /\ IF Registered(c) THEN Release(c) /\ Goto(c, "failed")
                        ELSE Goto(c, "returned") /\ UNCHANGED <<responseTable, refs>>
    /\ called' = [called EXCEPT ![c] = Kind[c] = "async"]
    /\ UNCHANGED <<conns, event, tts, got, response, notify, work, net, history, crashed>>

\* invokeOnewayImpl ignores the result of SendCmd.
AfterSendFailed(c) ==
    /\ pc[c] = "sendFailed"
    /\ IF Registered(c) THEN Release(c) /\ Goto(c, "failed")
                        ELSE Goto(c, "returned") /\ UNCHANGED <<responseTable, refs>>
    /\ UNCHANGED <<conns, event, tts, got, response, notify, called, work, net, history, crashed>>

\* An asynchronous call returns and leaves its future to the table.
SentAsync(c) ==
    /\ pc[c] = "sent" /\ Kind[c] # "sync"
    /\ refs' = [refs EXCEPT ![c] = IF Registered(c) THEN @ - 1 ELSE @]
    /\ Goto(c, "returned")
    /\ UNCHANGED <<conns, event, tts, got, responseTable, response, notify, called, work, net,
                   history, crashed>>

\* waitResponse looks at m_notifyFlag once.
WaitBegins(c) ==
    /\ pc[c] = "sent" /\ Kind[c] = "sync"
    /\ Goto(c, IF notify[c] THEN "cleanup" ELSE "wait")
    /\ got' = [got EXCEPT ![c] = notify[c] /\ response[c]]
    /\ UNCHANGED <<conns, event, tts, futures, called, work, net, history, crashed>>

\* Mutant: the wait has no time limit.
WaitEndsNotified(c) ==
    /\ pc[c] = "wait" /\ notify[c] /\ Goto(c, "cleanup")
    /\ got' = [got EXCEPT ![c] = response[c]]
    /\ UNCHANGED <<conns, event, tts, futures, called, work, net, history, crashed>>

\* Wait returns, notified, timed out or for no reason; what m_pResponseCommand
\* holds is returned whatever the flag says.
WaitEnds(c) ==
    /\ pc[c] = "wait" /\ Goto(c, "cleanup")
    /\ got' = [got EXCEPT ![c] = response[c]]
    /\ UNCHANGED <<conns, event, tts, futures, called, work, net, history, crashed>>

SyncReturns(c) ==
    /\ pc[c] = "cleanup" /\ Release(c) /\ Goto(c, "returned")
    /\ UNCHANGED <<conns, event, tts, got, response, notify, called, work, net, history, crashed>>

GetAndCreateTransport(c) ==
    FindTransport(c) \/ Connect(c) \/ Connected(c) \/ ConnectFails(c)

InvokeStep(c) ==
    \/ UpdateEvent(c) \/ RemoveTTS(c) \/ UseAfterFree(c)
    \/ Invoke(c) \/ InvokeDisconnected(c) \/ SendHead(c) \/ SendBody(c) \/ SendFails(c)
    \/ AfterSendFailed(c) \/ SentAsync(c) \/ WaitBegins(c) \/ WaitEnds(c) \/ SyncReturns(c)

(***************************************************************************)
(* The event thread.                                                       *)
(***************************************************************************)
Readable(t) == inbox[t] # <<>> \/ peerClosed[t]

\* One call of select on a copy of m_rset: it fails with EBADF when the set
\* holds a socket that has been closed, and then nothing is read.
Select ==
    IF \E t \in rset : transport[t] = "deleted"
    THEN ready' = {} /\ UNCHANGED rset
    ELSE ready' = {t \in rset : Readable(t)} /\ UNCHANGED rset

RunSelect ==
    /\ ~crashed /\ ~stop /\ ~Connecting /\ ready = {} /\ Select
    /\ UNCHANGED <<transport, table, stop, caller, futures, called, work, net, history, crashed>>

\* HandleSocketEvent: RecvData on the transports that are still in the table.
\* A transport that has nothing but the end of the stream is closed.
HandleSocketEvent ==
    LET ts     == ready \cap {table[a] : a \in Addrs}
        frames == UNION {{inbox[t][i] : i \in DOMAIN inbox[t]} : t \in ts}
    IN  /\ ~crashed /\ ~Connecting /\ ready # {} /\ ready' = {}
        /\ inbox' = [t \in Tids |-> IF t \in ts THEN <<>> ELSE inbox[t]]
        /\ transport' = [t \in Tids |-> IF t \in ts /\ inbox[t] = <<>> /\ transport[t] = "connected"
                                        THEN "disconnected" ELSE transport[t]]
        /\ work' = [c \in Calls |-> IF c \in frames /\ ~stop THEN "queued" ELSE work[c]]
        /\ UNCHANGED <<table, rset, stop, caller, futures, called, wire, broker,
                       peerClosed, history, crashed>>

\* m_stop, and ThreadPool::Destroy: what is queued is never run.
Shutdown ==
    /\ ~crashed /\ ~stop /\ stop' = TRUE
    /\ work' = [c \in Calls |-> IF work[c] = "queued" THEN "none" ELSE work[c]]
    /\ UNCHANGED <<conns, ready, caller, futures, called, net, history, crashed>>

(***************************************************************************)
(* A worker with a response.                                               *)
(***************************************************************************)
Stage(c, l) == ~crashed /\ work' = [work EXCEPT ![c] = l]

\* ProcessData looks the request's code up and drops a response nobody waits for.
ProcessData(c) ==
    /\ work[c] = "queued"
    /\ Stage(c, IF c \in responseTable THEN "found" ELSE "none")
    /\ UNCHANGED <<conns, event, caller, futures, called, net, history, crashed>>

\* Mutant: the future found in the first look-up is used without a second one.
ProcessResponseUnchecked(c) ==
    /\ work[c] = "found"
    /\ Stage(c, "put")
    /\ responseTable' = responseTable \ {c}
    /\ UNCHANGED <<conns, event, caller, refs, response, notify, called, net, history, crashed>>

\* processResponseCommand takes the future out of the table, if it is still
\* there, and its reference with it.
ProcessResponseCommand(c) ==
    /\ work[c] = "found"
    /\ Stage(c, IF c \in responseTable THEN "put" ELSE "none")
    /\ responseTable' = responseTable \ {c}
    /\ UNCHANGED <<conns, event, caller, refs, response, notify, called, net, history, crashed>>

\* putResponse: the pointer is set before the monitor is entered.
PutResponse(c) ==
    /\ work[c] = "put" /\ Stage(c, "notify")
    /\ response' = [response EXCEPT ![c] = TRUE]
    /\ UNCHANGED <<conns, event, caller, responseTable, refs, notify, called, net, history, crashed>>

Notify(c) ==
    /\ work[c] = "notify" /\ Stage(c, "callback")
    /\ notify' = [notify EXCEPT ![c] = TRUE]
    /\ UNCHANGED <<conns, event, caller, responseTable, refs, response, called, net, history, crashed>>

ExecuteInvokeCallback(c) ==
    /\ work[c] = "callback" /\ Stage(c, "none")
    /\ called' = [called EXCEPT ![c] = Kind[c] = "async"]
    /\ refs' = [refs EXCEPT ![c] = @ - 1]
    /\ UNCHANGED <<conns, event, caller, responseTable, response, notify, net, history, crashed>>

Worker(c) ==
    \/ ProcessData(c) \/ ProcessResponseCommand(c) \/ PutResponse(c) \/ Notify(c)
    \/ ExecuteInvokeCallback(c)

(***************************************************************************)
(* The broker's side of a connection.                                      *)
(***************************************************************************)

Up(t) == ~crashed /\ ~peerClosed[t]

\* A whole frame: the head and, if its length says so, the body.
BrokerReads(t) ==
    LET c == Head(wire[t])[1]
        n == IF c \in HasBody THEN 2 ELSE 1
    IN  /\ Up(t) /\ wire[t] # <<>> /\ Len(wire[t]) >= n
        /\ n = 2 => wire[t][2] = <<c, "body">>
        /\ broker' = [broker EXCEPT ![t] = IF Registered(c) THEN @ \cup {c} ELSE @]
        /\ wire' = [wire EXCEPT ![t] = SubSeq(@, n + 1, Len(@))]
        /\ UNCHANGED <<conns, event, caller, futures, called, work, inbox, peerClosed, history, crashed>>

\* The bytes after a head are another call's: the broker takes them for the
\* body and may answer, and then, having lost its place in the stream, it
\* closes the connection.
BrokerMixesUp(t) ==
    /\ Up(t) /\ Len(wire[t]) >= 2
    /\ LET c == wire[t][1][1]
       IN  /\ c \in HasBody /\ wire[t][2] # <<c, "body">>
           /\ \/ UNCHANGED <<inbox, answered>>
              \/ /\ Registered(c)
                 /\ inbox' = [inbox EXCEPT ![t] = Append(@, c)]
                 /\ answered' = answered \cup {c}
    /\ mixed' = mixed \cup {wire[t][i][1] : i \in DOMAIN wire[t]}
    /\ wire' = [wire EXCEPT ![t] = <<>>]
    /\ broker' = [broker EXCEPT ![t] = {}]
    /\ peerClosed' = [peerClosed EXCEPT ![t] = TRUE]
    /\ UNCHANGED <<conns, event, caller, futures, called, work, crashed>>

\* Requests are answered in any order.
BrokerAnswers(t, c) ==
    /\ c \in broker[t] /\ Up(t)
    /\ broker' = [broker EXCEPT ![t] = @ \ {c}]
    /\ inbox' = [inbox EXCEPT ![t] = Append(@, c)]
    /\ answered' = answered \cup {c}
    /\ UNCHANGED <<conns, event, caller, futures, called, work, wire, peerClosed, mixed, crashed>>

BrokerCloses(t) ==
    /\ transport[t] \in {"connected", "disconnected"} /\ Up(t)
    /\ peerClosed' = [peerClosed EXCEPT ![t] = TRUE]
    /\ broker' = [broker EXCEPT ![t] = {}]
    /\ UNCHANGED <<conns, event, caller, futures, called, work, wire, inbox, history, crashed>>

Broker ==
    \E t \in Tids :
       \/ BrokerReads(t) \/ BrokerMixesUp(t) \/ BrokerCloses(t)
       \/ \E c \in Calls : BrokerAnswers(t, c)

EventThread == RunSelect \/ HandleSocketEvent

Next ==
    \/ \E c \in Calls : GetAndCreateTransport(c) \/ InvokeStep(c) \/ Worker(c)
    \/ EventThread \/ Shutdown
    \/ Broker

Spec == Init /\ [][Next]_vars

(***************************************************************************)
(* A call that has its transport goes on: sending and waiting for the      *)
(* response have time limits, and the table's lock is got once no caller   *)
(* is connecting.  That a connect ends is not assumed: connect and         *)
(* SSL_connect block without a limit, on the server's pleasure.  Nothing   *)
(* is assumed of brokers and of the event thread.                          *)
(***************************************************************************)
CallerSpec == Spec /\ WF_vars(\E c \in Calls : InvokeStep(c))

(***************************************************************************)
(* Properties.                                                             *)
(***************************************************************************)
CallerHolds(c) ==
    Registered(c) /\ pc[c] \in {"send", "body", "sendFailed", "sent", "wait", "cleanup"}

TableOrWorkerHolds(c) == c \in responseTable \/ work[c] \in {"put", "notify", "callback"}

\* A future's count is the number of its holders, at every step of the race
\* between a response, a time-out and a failed send: it is freed exactly when
\* the last of caller, table and worker has let go of it.  "If it is found, the
\* call timed out and it can be removed here; if not, it is being processed and
\* is removed there" (invokeSyncImpl): a synchronous call that has returned
\* leaves no entry behind.
RefsExact ==
    \A c \in Calls :
       /\ refs[c] = (IF CallerHolds(c) THEN 1 ELSE 0) + (IF TableOrWorkerHolds(c) THEN 1 ELSE 0)
       /\ Kind[c] = "sync" /\ pc[c] \in {"returned", "failed"} => c \notin responseTable

\* How RpcCalls sees a call: a synchronous one ends when it returns, an
\* asynchronous one when it fails or is called back.
Status(c) ==
    IF pc[c] = "idle" THEN "idle"
    ELSE IF Kind[c] = "async" /\ called[c]
         THEN IF pc[c] = "failed" THEN "both" ELSE "answer"
    ELSE IF pc[c] = "failed" \/ (pc[c] = "returned" /\ Kind[c] = "oneway") THEN "noAnswer"
    ELSE IF pc[c] = "returned" /\ Kind[c] = "sync" THEN IF got[c] THEN "answer" ELSE "noAnswer"
    ELSE "pending"

Abstract == INSTANCE RpcCalls WITH
    Oneway <- {c \in Calls : Kind[c] = "oneway"},
    status <- [c \in Calls |-> Status(c)]

\* The remoting layer keeps RpcCalls' promise: whatever the interleaving of
\* callers, event thread, workers, time-outs and brokers, a call ends at most
\* once, and with an answer only if its broker answered it.
AbstractSpec == Abstract!Spec

\* Every call comes back to its caller, whatever the brokers it is connected to
\* do: again and again no call is under way.  Two things are outside every time
\* limit: a connect that never ends, which holds the table's lock and with it
\* the callers that connected before and those that gave a connection up; and a
\* process that died of a transport used after it was freed.
CallsReturn ==
    \/ <>[]Connecting
    \/ []<>(crashed \/ \A c \in Calls : pc[c] \in {"idle", "returned", "failed"})
=============================================================================
