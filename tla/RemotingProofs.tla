--------------------------- MODULE RemotingProofs ---------------------------
(***************************************************************************)
(* The remoting layer, for any number of calls, addresses and connections: *)
(* a future's reference count is the number of its holders, and the layer  *)
(* implements RpcCalls.                                                    *)
(***************************************************************************)
EXTENDS Remoting, SequenceTheorems, TLAPS

-----------------------------------------------------------------------------
(* The inductive invariant follows a call's frame from its caller to the   *)
(* broker and the response back to a worker: it is in one of these places  *)
(* at a time, and never comes back to an earlier one.                      *)

\* Stages before the head, and after the whole frame, was handed to the socket.
NoFuture  == {"idle", "connecting", "update", "check", "remove"}
Unsent    == NoFuture \cup {"send"}
WholeSent == {"sent", "wait", "cleanup", "returned"}

OnWire(c, part) == \E t \in Tids : \E i \in DOMAIN wire[t] : wire[t][i] = <<c, part>>
AtBroker(c)     == \E t \in Tids : c \in broker[t]
InInbox(c)      == \E t \in Tids : \E i \in DOMAIN inbox[t] : inbox[t][i] = c

\* A caller past GetAndCreateTransport holds a transport; only synchronous
\* calls wait.
CallersOK ==
    \A c \in Calls : /\ pc[c] \notin {"idle", "connecting", "failed"} => tts[c] \in Tids
                     /\ pc[c] \in {"wait", "cleanup"} => Kind[c] = "sync"

\* What is on a connection belongs to a caller that holds it; a piece of a frame
\* is on the wire once.
WireOK ==
    \A t \in Tids :
       /\ \A i \in DOMAIN wire[t] :
             /\ tts[wire[t][i][1]] = t
             /\ \A j \in DOMAIN wire[t] : wire[t][i] = wire[t][j] => i = j
       /\ \A c \in broker[t] : tts[c] = t
       /\ \A i \in DOMAIN inbox[t] : tts[inbox[t][i]] = t

\* A body is sent after its head, and the broker does not take a head without
\* its body from a connection that it keeps.
BodyOK ==
    /\ \A t \in Tids : \A i \in DOMAIN wire[t] : wire[t][i][2] = "body" =>
          /\ wire[t][i][1] \in HasBody
          /\ peerClosed[t] \/ \E j \in DOMAIN wire[t] : j < i /\ wire[t][j] = <<wire[t][i][1], "head">>
    /\ \A c \in Calls : pc[c] = "body" =>
          c \in HasBody /\ (peerClosed[tts[c]] \/ OnWire(c, "head"))

\* Where the frame and the response of a call may be.
PlaceOK(c) ==
    /\ pc[c] \in Unsent => ~OnWire(c, "head") /\ c \notin answered /\ ~AtBroker(c)
    /\ OnWire(c, "body") => pc[c] \in WholeSent
    /\ OnWire(c, "head") => c \in HasBody \/ pc[c] \in WholeSent
    /\ OnWire(c, "head") => ~AtBroker(c) /\ c \notin answered
    /\ AtBroker(c) => Registered(c) /\ c \notin answered /\ pc[c] \in WholeSent
    /\ InInbox(c) => work[c] = "none" /\ c \in answered
    /\ c \in answered => Registered(c) /\ (pc[c] \in WholeSent \/ c \in mixed)
    /\ work[c] # "none" \/ response[c] \/ got[c] \/ called[c] => c \in answered

PlacesOK == \A c \in Calls : PlaceOK(c)

\* The entry's reference goes with the entry, from the table to a worker.
TableOK ==
    \A c \in Calls : c \in responseTable =>
       /\ Registered(c) /\ pc[c] \notin NoFuture
       /\ work[c] \notin {"put", "notify", "callback"}

IInv ==
    /\ TypeOK /\ CallersOK /\ WireOK /\ BodyOK /\ PlacesOK /\ TableOK /\ RefsExact

-----------------------------------------------------------------------------
(* Types. *)
LEMMA InitTypeOK == Init => TypeOK
<1> SUFFICES ASSUME Init PROVE TypeOK
  OBVIOUS
<1>1. /\ <<>> \in Seq(Calls \X {"head", "body"}) /\ <<>> \in Seq(Calls)
  BY EmptySeq
<1>2. /\ table \in [Addrs -> Tids \cup {NULL}] /\ tts \in [Calls -> Tids \cup {NULL}]
  BY DEF Init
<1>3. /\ wire \in [Tids -> Seq(Calls \X {"head", "body"})] /\ inbox \in [Tids -> Seq(Calls)]
      /\ broker \in [Tids -> SUBSET Calls]
  BY <1>1 DEF Init
<1>4. /\ response \in [Calls -> BOOLEAN] /\ notify \in [Calls -> BOOLEAN]
      /\ got \in [Calls -> BOOLEAN] /\ called \in [Calls -> BOOLEAN]
      /\ peerClosed \in [Tids -> BOOLEAN] /\ stop \in BOOLEAN /\ crashed \in BOOLEAN
  BY DEF Init
<1>5. /\ transport \in [Tids -> {"none", "connected", "disconnected", "deleted"}]
      /\ pc \in [Calls -> Stages] /\ refs \in [Calls -> 0 .. 2]
      /\ work \in [Calls -> {"none", "queued", "found", "put", "notify", "callback"}]
  BY DEF Init, Stages
<1>6. rset \subseteq Tids /\ ready \subseteq Tids /\ responseTable \subseteq Calls
      /\ answered \subseteq Calls /\ mixed \subseteq Calls
  BY DEF Init
<1>7. QED BY <1>2, <1>3, <1>4, <1>5, <1>6 DEF TypeOK

\* Steps of a call's caller.
CallerStep(c) == GetAndCreateTransport(c) \/ InvokeStep(c)

\* What a caller's step does to the rest: only sending changes a wire.
LEMMA CallerTypeOK ==
    ASSUME IInv, NEW c \in Calls, CallerStep(c)
    PROVE  TypeOK'
<1> USE DEF conns, event, caller, futures, net, history, Goto, Stages
<1> TypeOK /\ RefsExact /\ CallersOK
  BY DEF IInv
<1>0. /\ pc \in [Calls -> Stages] /\ tts \in [Calls -> Tids \cup {NULL}] /\ refs \in [Calls -> 0 .. 2]
      /\ transport \in [Tids -> {"none", "connected", "disconnected", "deleted"}]
      /\ table \in [Addrs -> Tids \cup {NULL}] /\ Addr[c] \in Addrs
      /\ got \in [Calls -> BOOLEAN] /\ notify \in [Calls -> BOOLEAN] /\ response \in [Calls -> BOOLEAN]
  BY RemotingAssumption DEF TypeOK
<1>1. CASE FindTransport(c)
  BY <1>0, <1>1 DEF TypeOK, FindTransport
<1>2. CASE Connect(c) \/ Connected(c)
  <2>1. CASE Connect(c)
    BY <1>0, <2>1 DEF TypeOK, Connect
  <2>2. CASE Connected(c)
    <3>1. transport' \in [Tids -> {"none", "connected", "disconnected", "deleted"}]
      BY <1>0, <2>2 DEF Connected
    <3>2. table' \in [Addrs -> Tids \cup {NULL}] /\ tts' \in [Calls -> Tids \cup {NULL}]
      BY <1>0, <2>2 DEF Connected
    <3>3. pc' \in [Calls -> Stages]
      BY <1>0, <2>2 DEF Connected
    <3>4. QED BY <2>2, <3>1, <3>2, <3>3 DEF TypeOK, Connected
  <2>3. QED BY <1>2, <2>1, <2>2
<1>3. CASE ConnectFails(c)
  BY <1>0, <1>3 DEF TypeOK, ConnectFails
<1>4. CASE UpdateEvent(c)
  <2>1. rset' \subseteq Tids
    BY <1>0, <1>4 DEF UpdateEvent
  <2>2. QED BY <1>0, <1>4, <2>1 DEF TypeOK, UpdateEvent
<1>5. CASE RemoveTTS(c)
  BY <1>0, <1>5 DEF TypeOK, RemoveTTS
<1>6. CASE UseAfterFree(c)
  BY <1>6 DEF TypeOK, UseAfterFree
<1>7. CASE Invoke(c)
  <2>1. refs' \in [Calls -> 0 .. 2] /\ responseTable' \subseteq Calls
    <3>1. CASE Registered(c)
      <4>1. /\ responseTable' = responseTable \cup {c} /\ refs' = [refs EXCEPT ![c] = 2]
            /\ responseTable \subseteq Calls
        BY <1>7, <3>1 DEF TypeOK, Invoke, NewFuture
      <4>2. 2 \in 0 .. 2
        OBVIOUS
      <4>3. QED BY <1>0, <4>1, <4>2
    <3>2. CASE ~Registered(c)
      BY <1>0, <1>7, <3>2 DEF TypeOK, Invoke
    <3>3. QED BY <3>1, <3>2
  <2>2. pc' \in [Calls -> Stages]
    BY <1>0, <1>7 DEF Invoke
  <2>3. QED BY <1>7, <2>1, <2>2 DEF TypeOK, Invoke
<1>8. CASE InvokeDisconnected(c)
  BY <1>0, <1>8 DEF TypeOK, InvokeDisconnected
<1>9. CASE SendHead(c) \/ SendBody(c)
  <2>1. PICK part \in {"head", "body"} : wire' = [wire EXCEPT ![tts[c]] = Append(@, <<c, part>>)]
    BY <1>9 DEF SendHead, SendBody
  <2>2. \A t \in Tids : Append(wire[t], <<c, part>>) \in Seq(Calls \X {"head", "body"})
    BY AppendProperties DEF TypeOK
  <2>3. wire' \in [Tids -> Seq(Calls \X {"head", "body"})]
    BY <2>1, <2>2 DEF TypeOK
  <2>4. pc' \in [Calls -> Stages]
    BY <1>0, <1>9 DEF SendHead, SendBody
  <2>5. QED BY <1>9, <2>3, <2>4 DEF TypeOK, SendHead, SendBody
<1>10. CASE SendFails(c)
  BY <1>0, <1>10 DEF TypeOK, SendFails
<1>11. CASE AfterSendFailed(c)
  <2>1. refs' \in [Calls -> 0 .. 2] /\ responseTable' \subseteq Calls
    <3>1. CASE ~Registered(c)
      BY <1>0, <1>11, <3>1 DEF AfterSendFailed, TypeOK
    <3>2. CASE Registered(c)
      <4>1. CallerHolds(c) /\ Release(c)
        BY <1>11, <3>2 DEF AfterSendFailed, CallerHolds
      <4>2. refs[c] \in 1 .. 2 /\ (c \in responseTable => refs[c] = 2)
        BY <4>1 DEF RefsExact, TableOrWorkerHolds
      <4>3. QED BY <1>0, <4>1, <4>2 DEF Release, TypeOK
    <3>3. QED BY <3>1, <3>2
  <2>2. QED BY <1>0, <1>11, <2>1 DEF TypeOK, AfterSendFailed
<1>12. CASE SentAsync(c)
  <2>1. refs' \in [Calls -> 0 .. 2]
    BY <1>0, <1>12 DEF SentAsync, RefsExact, CallerHolds, TableOrWorkerHolds
  <2>2. QED BY <1>0, <1>12, <2>1 DEF TypeOK, SentAsync
<1>13. CASE WaitBegins(c) \/ WaitEnds(c)
  <2>1. got' \in [Calls -> BOOLEAN]
    BY <1>0, <1>13 DEF WaitBegins, WaitEnds
  <2>2. pc' \in [Calls -> Stages]
    BY <1>0, <1>13 DEF WaitBegins, WaitEnds
  <2>3. QED BY <1>13, <2>1, <2>2 DEF TypeOK, WaitBegins, WaitEnds
<1>14. CASE SyncReturns(c)
  <2>1. refs' \in [Calls -> 0 .. 2] /\ responseTable' \subseteq Calls
    <3>1. CallerHolds(c)
      BY <1>14 DEF SyncReturns, CallersOK, CallerHolds, Registered
    <3>2. refs[c] \in 1 .. 2 /\ (c \in responseTable => refs[c] = 2)
      BY <3>1 DEF RefsExact, TableOrWorkerHolds
    <3>3. QED BY <1>0, <1>14, <3>2 DEF SyncReturns, Release, TypeOK
  <2>2. QED BY <1>0, <1>14, <2>1 DEF TypeOK, SyncReturns
<1>15. QED BY <1>1, <1>2, <1>3, <1>4, <1>5, <1>6, <1>7, <1>8, <1>9, <1>10, <1>11, <1>12, <1>13,
              <1>14 DEF CallerStep, GetAndCreateTransport, InvokeStep

\* The event thread, the workers, shutdown and the brokers keep the types.
LEMMA OtherTypeOK ==
    ASSUME IInv, (\E c \in Calls : Worker(c)) \/ EventThread \/ Shutdown \/ Broker
    PROVE  TypeOK'
<1> USE DEF conns, event, caller, futures, net, history, Stage
<1> TypeOK /\ RefsExact
  BY DEF IInv
<1>1. ASSUME NEW c \in Calls, Worker(c) PROVE TypeOK'
  <2>1. CASE ProcessData(c)
    BY <2>1 DEF TypeOK, ProcessData
  <2>2. CASE ProcessResponseCommand(c)
    BY <2>2 DEF TypeOK, ProcessResponseCommand
  <2>3. CASE PutResponse(c) \/ Notify(c)
    <3>1. work' \in [Calls -> {"none", "queued", "found", "put", "notify", "callback"}]
      BY <2>3 DEF TypeOK, PutResponse, Notify
    <3>2. response' \in [Calls -> BOOLEAN] /\ notify' \in [Calls -> BOOLEAN]
      BY <2>3 DEF TypeOK, PutResponse, Notify
    <3>3. QED BY <2>3, <3>1, <3>2 DEF TypeOK, PutResponse, Notify
  <2>4. CASE ExecuteInvokeCallback(c)
    <3>1. refs' \in [Calls -> 0 .. 2]
      <4>1. TableOrWorkerHolds(c)
        BY <2>4 DEF ExecuteInvokeCallback, TableOrWorkerHolds
      <4>2. refs[c] \in 1 .. 2
        BY <4>1 DEF RefsExact
      <4>3. QED BY <2>4, <4>2 DEF TypeOK, ExecuteInvokeCallback
    <3>2. called' \in [Calls -> BOOLEAN]
      BY <2>4 DEF TypeOK, ExecuteInvokeCallback
    <3>3. QED BY <2>4, <3>1, <3>2 DEF TypeOK, ExecuteInvokeCallback
  <2>5. QED BY <1>1, <2>1, <2>2, <2>3, <2>4 DEF Worker
<1>2. CASE RunSelect
  BY <1>2 DEF TypeOK, RunSelect, Select
<1>3. CASE HandleSocketEvent
  <2> DEFINE ts == ready \cap {table[a] : a \in Addrs}
             frames == UNION {{inbox[t][i] : i \in DOMAIN inbox[t]} : t \in ts}
  <2> HIDE DEF ts, frames
  <2>1. /\ inbox' = [t \in Tids |-> IF t \in ts THEN <<>> ELSE inbox[t]]
        /\ transport' = [t \in Tids |-> IF t \in ts /\ inbox[t] = <<>> /\ transport[t] = "connected"
                                        THEN "disconnected" ELSE transport[t]]
        /\ work' = [c \in Calls |-> IF c \in frames /\ ~stop THEN "queued" ELSE work[c]]
        /\ ready' = {}
        /\ UNCHANGED <<table, rset, stop, caller, futures, called, wire, broker,
                       peerClosed, history, crashed>>
    BY <1>3 DEF HandleSocketEvent, ts, frames
  <2>2. inbox' \in [Tids -> Seq(Calls)]
    BY <2>1, EmptySeq DEF TypeOK
  <2>3. QED BY <2>1, <2>2 DEF TypeOK
<1>4. CASE Shutdown
  BY <1>4 DEF TypeOK, Shutdown
<1>5. ASSUME NEW t \in Tids, BrokerReads(t) PROVE TypeOK'
  <2> DEFINE d == Head(wire[t])[1]
             n == IF d \in HasBody THEN 2 ELSE 1
  <2>1. wire[t] \in Seq(Calls \X {"head", "body"}) /\ wire[t] # <<>> /\ n \in 1 .. Len(wire[t])
    BY <1>5, LenProperties DEF TypeOK, BrokerReads
  <2>2. d \in Calls
    <3>1. Head(wire[t]) \in Calls \X {"head", "body"}
      BY <2>1, HeadTailProperties
    <3>2. QED BY <3>1
  <2>3. SubSeq(wire[t], n + 1, Len(wire[t])) \in Seq(Calls \X {"head", "body"})
    <3>1. Len(wire[t]) \in Nat /\ \A i \in n + 1 .. Len(wire[t]) : wire[t][i] \in Calls \X {"head", "body"}
      BY <2>1, LenProperties, ElementOfSeq
    <3>2. QED BY <2>1, <3>1, SubSeqProperties
  <2> HIDE DEF d, n
  <2>4. /\ wire' = [wire EXCEPT ![t] = SubSeq(@, n + 1, Len(@))]
        /\ broker' = [broker EXCEPT ![t] = IF Registered(d) THEN @ \cup {d} ELSE @]
        /\ UNCHANGED <<conns, event, caller, futures, called, work, inbox, peerClosed, history, crashed>>
    BY <1>5 DEF BrokerReads, d, n
  <2>5. wire' \in [Tids -> Seq(Calls \X {"head", "body"})]
    BY <2>3, <2>4 DEF TypeOK
  <2>6. broker' \in [Tids -> SUBSET Calls]
    BY <2>2, <2>4 DEF TypeOK
  <2>7. QED BY <2>4, <2>5, <2>6 DEF TypeOK
<1>6. ASSUME NEW t \in Tids, BrokerMixesUp(t) PROVE TypeOK'
  <2> DEFINE c == wire[t][1][1]
  <2>1. wire[t] \in Seq(Calls \X {"head", "body"}) /\ Len(wire[t]) >= 2
    BY <1>6 DEF TypeOK, BrokerMixesUp
  <2>2. \A i \in DOMAIN wire[t] : wire[t][i][1] \in Calls
    <3>1. \A i \in DOMAIN wire[t] : wire[t][i] \in Calls \X {"head", "body"}
      BY <2>1, ElementOfSeq, LenProperties
    <3>2. QED BY <3>1
  <2>3. c \in Calls
    BY <2>1, <2>2, LenProperties
  <2>4. Append(inbox[t], c) \in Seq(Calls)
    BY <2>3, AppendProperties DEF TypeOK
  <2> HIDE DEF c
  <2>5. /\ (UNCHANGED <<inbox, answered>>) \/ (inbox' = [inbox EXCEPT ![t] = Append(@, c)] /\ answered' = answered \cup {c})
        /\ mixed' = mixed \cup {wire[t][i][1] : i \in DOMAIN wire[t]}
        /\ wire' = [wire EXCEPT ![t] = <<>>] /\ broker' = [broker EXCEPT ![t] = {}]
        /\ peerClosed' = [peerClosed EXCEPT ![t] = TRUE]
        /\ UNCHANGED <<conns, event, caller, futures, called, work, crashed>>
    BY <1>6 DEF BrokerMixesUp, c
  <2>6. inbox' \in [Tids -> Seq(Calls)] /\ answered' \subseteq Calls
    BY <2>3, <2>4, <2>5 DEF TypeOK
  <2>7. wire' \in [Tids -> Seq(Calls \X {"head", "body"})]
    BY <2>5, EmptySeq DEF TypeOK
  <2>8. mixed' \subseteq Calls
    BY <2>2, <2>5 DEF TypeOK
  <2>9. QED BY <2>5, <2>6, <2>7, <2>8 DEF TypeOK
<1>7. ASSUME NEW t \in Tids, NEW c \in Calls, BrokerAnswers(t, c) PROVE TypeOK'
  <2>1. Append(inbox[t], c) \in Seq(Calls)
    BY AppendProperties DEF TypeOK
  <2>2. QED BY <1>7, <2>1 DEF TypeOK, BrokerAnswers
<1>8. ASSUME NEW t \in Tids, BrokerCloses(t) PROVE TypeOK'
  BY <1>8 DEF TypeOK, BrokerCloses
<1>9. QED BY <1>1, <1>2, <1>3, <1>4, <1>5, <1>6, <1>7, <1>8 DEF EventThread, Broker

-----------------------------------------------------------------------------
(* A future and its references. *)

\* What a step of c's caller, or of a worker with c's response, may do to the
\* future of c, and the holders that it changes.
LEMMA RefsOfOne ==
    ASSUME IInv, TypeOK', NEW c \in Calls,
           \A d \in Calls \ {c} :
              /\ pc'[d] = pc[d] /\ work'[d] = work[d] /\ refs'[d] = refs[d]
              /\ d \in responseTable' <=> d \in responseTable,
           refs'[c] = (IF CallerHolds(c)' THEN 1 ELSE 0) + (IF TableOrWorkerHolds(c)' THEN 1 ELSE 0),
           c \in responseTable' =>
              /\ Registered(c) /\ pc'[c] \notin NoFuture /\ (Kind[c] = "sync" => pc'[c] \notin {"returned", "failed"})
              /\ work'[c] \notin {"put", "notify", "callback"}
    PROVE  TableOK' /\ RefsExact'
<1>1. TableOK'
  BY DEF IInv, TableOK, Registered
<1>2. ASSUME NEW d \in Calls \ {c}
      PROVE  /\ refs'[d] = (IF CallerHolds(d)' THEN 1 ELSE 0) + (IF TableOrWorkerHolds(d)' THEN 1 ELSE 0)
             /\ Kind[d] = "sync" /\ pc'[d] \in {"returned", "failed"} => d \notin responseTable'
  <2>1. CallerHolds(d)' <=> CallerHolds(d)
    BY DEF CallerHolds, Registered
  <2>2. TableOrWorkerHolds(d)' <=> TableOrWorkerHolds(d)
    BY DEF TableOrWorkerHolds
  <2>3. QED BY <2>1, <2>2 DEF IInv, RefsExact
<1>3. QED BY <1>1, <1>2 DEF RefsExact

\* A caller takes and drops its own reference, and the table's only when it
\* finds the entry there.
LEMMA CallerRefs ==
    ASSUME IInv, TypeOK', NEW c \in Calls, CallerStep(c)
    PROVE  TableOK' /\ RefsExact'
<1> USE DEF futures, Goto, caller
<1>0. /\ TypeOK /\ TableOK /\ CallersOK /\ RefsExact
  BY DEF IInv
<1>1. \A d \in Calls \ {c} :
         /\ pc'[d] = pc[d] /\ work'[d] = work[d] /\ refs'[d] = refs[d]
         /\ d \in responseTable' <=> d \in responseTable
  <2> SUFFICES ASSUME NEW d \in Calls \ {c}
               PROVE  /\ pc'[d] = pc[d] /\ work'[d] = work[d] /\ refs'[d] = refs[d]
                      /\ d \in responseTable' <=> d \in responseTable
    OBVIOUS
  <2>1. CASE GetAndCreateTransport(c) \/ UpdateEvent(c) \/ RemoveTTS(c) \/ InvokeDisconnected(c)
    BY <1>0, <2>1 DEF GetAndCreateTransport, FindTransport, Connect, Connected, ConnectFails, UpdateEvent,
                      RemoveTTS, InvokeDisconnected, TypeOK
  <2>2. CASE SendHead(c) \/ SendBody(c) \/ SendFails(c) \/ WaitBegins(c) \/ WaitEnds(c) \/ UseAfterFree(c)
    BY <1>0, <2>2 DEF SendHead, SendBody, SendFails, WaitBegins, WaitEnds, UseAfterFree, TypeOK
  <2>3. CASE Invoke(c)
    BY <1>0, <2>3 DEF Invoke, NewFuture, TypeOK
  <2>4. CASE AfterSendFailed(c) \/ SyncReturns(c)
    BY <1>0, <2>4 DEF AfterSendFailed, SyncReturns, Release, TypeOK
  <2>5. CASE SentAsync(c)
    BY <1>0, <2>5 DEF SentAsync, TypeOK
  <2>6. QED BY <2>1, <2>2, <2>3, <2>4, <2>5 DEF CallerStep, InvokeStep
<1>2. /\ pc[c] \in Stages /\ refs[c] \in 0 .. 2 /\ work'[c] = work[c]
      /\ refs[c] = (IF CallerHolds(c) THEN 1 ELSE 0) + (IF TableOrWorkerHolds(c) THEN 1 ELSE 0)
      /\ Kind[c] = "sync" /\ pc[c] \in {"returned", "failed"} => c \notin responseTable
      /\ work[c] \in {"none", "queued", "found", "put", "notify", "callback"}
      /\ pc[c] \in Unsent => work[c] = "none"
  <2>1. pc[c] \in Unsent => work[c] = "none"
    BY DEF IInv, PlacesOK, PlaceOK
  <2>2. work'[c] = work[c]
    BY DEF CallerStep, GetAndCreateTransport, InvokeStep, FindTransport, Connect, Connected, ConnectFails,
           UpdateEvent, RemoveTTS, UseAfterFree, Invoke, InvokeDisconnected, SendHead, SendBody,
           SendFails, AfterSendFailed, SentAsync, WaitBegins, WaitEnds, SyncReturns
  <2>3. QED BY <1>0, <2>1, <2>2 DEF TypeOK, RefsExact
<1>3. /\ refs'[c] = (IF CallerHolds(c)' THEN 1 ELSE 0) + (IF TableOrWorkerHolds(c)' THEN 1 ELSE 0)
      /\ c \in responseTable' =>
           /\ Registered(c) /\ pc'[c] \notin NoFuture /\ (Kind[c] = "sync" => pc'[c] \notin {"returned", "failed"})
           /\ work'[c] \notin {"put", "notify", "callback"}
  <2>1. CASE /\ pc[c] \in NoFuture /\ pc'[c] \in NoFuture \cup {"failed"}
             /\ refs'[c] = refs[c] /\ (c \in responseTable' <=> c \in responseTable)
    <3>1. c \notin responseTable
      BY <1>0, <2>1 DEF TableOK
    <3>2. ~CallerHolds(c)' /\ ~CallerHolds(c) /\ ~TableOrWorkerHolds(c)' /\ ~TableOrWorkerHolds(c)
      BY <1>2, <2>1, <3>1 DEF CallerHolds, TableOrWorkerHolds, NoFuture, Unsent
    <3>3. QED BY <1>2, <2>1, <3>1, <3>2
  <2>2. CASE Invoke(c)
    <3>1. pc[c] = "check" /\ pc'[c] = "send" /\ work'[c] = "none" /\ c \notin responseTable
      BY <1>0, <1>2, <2>2 DEF Invoke, TypeOK, TableOK, NoFuture, Unsent
    <3>2. CASE Registered(c)
      <4>1. c \in responseTable' /\ refs'[c] = 2
        BY <1>0, <2>2, <3>2 DEF Invoke, NewFuture, TypeOK
      <4>2. CallerHolds(c)' /\ TableOrWorkerHolds(c)'
        BY <3>1, <3>2, <4>1 DEF CallerHolds, TableOrWorkerHolds, Registered
      <4>3. QED BY <3>1, <3>2, <4>1, <4>2 DEF NoFuture
    <3>3. CASE ~Registered(c)
      <4>1. c \notin responseTable' /\ refs'[c] = refs[c]
        BY <2>2, <3>1, <3>3 DEF Invoke
      <4>2. ~CallerHolds(c)' /\ ~TableOrWorkerHolds(c)' /\ ~CallerHolds(c) /\ ~TableOrWorkerHolds(c)
        BY <1>2, <3>1, <3>3, <4>1 DEF CallerHolds, TableOrWorkerHolds, Registered
      <4>3. QED BY <1>2, <4>1, <4>2
    <3>4. QED BY <3>2, <3>3
  <2>3. CASE /\ pc[c] \in {"send", "body", "sent", "wait"}
             /\ pc'[c] \in {"body", "sendFailed", "sent", "wait", "cleanup"}
             /\ refs'[c] = refs[c] /\ (c \in responseTable' <=> c \in responseTable)
    <3>1. CallerHolds(c)' <=> CallerHolds(c)
      BY <2>3 DEF CallerHolds, Registered
    <3>2. TableOrWorkerHolds(c)' <=> TableOrWorkerHolds(c)
      BY <1>2, <2>3 DEF TableOrWorkerHolds
    <3>3. QED BY <1>0, <1>2, <2>3, <3>1, <3>2 DEF TableOK, NoFuture
  <2>4. CASE AfterSendFailed(c) \/ SyncReturns(c)
    <3>1. pc[c] \in {"sendFailed", "cleanup"} /\ pc'[c] \in {"failed", "returned"}
      BY <1>0, <2>4 DEF AfterSendFailed, SyncReturns, TypeOK
    <3>2. ~CallerHolds(c)'
      BY <3>1 DEF CallerHolds
    <3>3. CASE Registered(c)
      <4>1. c \notin responseTable' /\ refs'[c] = refs[c] - (IF c \in responseTable THEN 2 ELSE 1)
        BY <1>0, <2>4, <3>3 DEF AfterSendFailed, SyncReturns, Release, TypeOK
      <4>2. CallerHolds(c)
        BY <3>1, <3>3 DEF CallerHolds
      <4>3. TableOrWorkerHolds(c)' <=> TableOrWorkerHolds(c) /\ c \notin responseTable
        BY <1>0, <1>2, <4>1 DEF TableOrWorkerHolds, TableOK
      <4>4. c \in responseTable => TableOrWorkerHolds(c)
        BY DEF TableOrWorkerHolds
      <4>5. QED BY <1>2, <3>2, <4>1, <4>2, <4>3, <4>4
    <3>4. CASE ~Registered(c)
      <4>1. c \notin responseTable /\ pc[c] = "sendFailed"
        BY <1>0, <3>1, <3>4 DEF TableOK, CallersOK, Registered
      <4>2. AfterSendFailed(c)
        BY <2>4, <4>1 DEF SyncReturns
      <4>3. refs'[c] = refs[c] /\ c \notin responseTable' /\ ~CallerHolds(c)
        BY <3>4, <4>1, <4>2 DEF AfterSendFailed, CallerHolds
      <4>4. TableOrWorkerHolds(c)' <=> TableOrWorkerHolds(c)
        BY <1>2, <4>1, <4>3 DEF TableOrWorkerHolds
      <4>5. QED BY <1>2, <3>2, <4>3, <4>4
    <3>5. QED BY <3>3, <3>4
  <2>5. CASE SentAsync(c)
    <3>1. /\ pc[c] = "sent" /\ pc'[c] = "returned" /\ Kind[c] # "sync"
          /\ refs'[c] = (IF Registered(c) THEN refs[c] - 1 ELSE refs[c])
          /\ c \in responseTable' <=> c \in responseTable
      BY <1>0, <2>5 DEF SentAsync, TypeOK
    <3>2. ~CallerHolds(c)' /\ (CallerHolds(c) <=> Registered(c))
      BY <3>1 DEF CallerHolds
    <3>3. TableOrWorkerHolds(c)' <=> TableOrWorkerHolds(c)
      BY <1>2, <3>1 DEF TableOrWorkerHolds
    <3>4. QED BY <1>0, <1>2, <3>1, <3>2, <3>3 DEF TableOK, NoFuture
  <2>6. CASE UseAfterFree(c)
    <3>1. pc' = pc /\ refs' = refs /\ responseTable' = responseTable
      BY <2>6 DEF UseAfterFree
    <3>2. CallerHolds(c)' <=> CallerHolds(c)
      BY <3>1 DEF CallerHolds, Registered
    <3>3. TableOrWorkerHolds(c)' <=> TableOrWorkerHolds(c)
      BY <1>2, <3>1 DEF TableOrWorkerHolds
    <3>4. QED BY <1>0, <1>2, <3>1, <3>2, <3>3 DEF TableOK
  <2>7. CASE FindTransport(c) \/ Connect(c) \/ Connected(c) \/ ConnectFails(c) \/ UpdateEvent(c) \/ RemoveTTS(c) \/ InvokeDisconnected(c)
    <3>1. /\ pc[c] \in NoFuture /\ pc'[c] \in NoFuture \cup {"failed"}
          /\ refs'[c] = refs[c] /\ (c \in responseTable' <=> c \in responseTable)
      BY <1>0, <2>7 DEF FindTransport, Connect, Connected, ConnectFails, UpdateEvent, RemoveTTS,
                        InvokeDisconnected, NoFuture, TypeOK
    <3>2. QED BY <2>1, <3>1
  <2>8. CASE SendHead(c) \/ SendBody(c) \/ SendFails(c) \/ WaitBegins(c) \/ WaitEnds(c)
    <3>1. /\ pc[c] \in {"send", "body", "sent", "wait"}
          /\ pc'[c] \in {"body", "sendFailed", "sent", "wait", "cleanup"}
          /\ refs'[c] = refs[c] /\ (c \in responseTable' <=> c \in responseTable)
      BY <1>0, <2>8 DEF SendHead, SendBody, SendFails, WaitBegins, WaitEnds, TypeOK
    <3>2. QED BY <2>3, <3>1
  <2>9. QED BY <2>2, <2>4, <2>5, <2>6, <2>7, <2>8 DEF CallerStep, GetAndCreateTransport, InvokeStep
<1>4. QED BY <1>1, <1>3, RefsOfOne

\* The workers, and the steps that hand them a response or drop one.
LEMMA OtherRefs ==
    ASSUME IInv, TypeOK', (\E c \in Calls : Worker(c)) \/ EventThread \/ Shutdown \/ Broker
    PROVE  TableOK' /\ RefsExact'
<1> USE DEF futures, Stage, caller, event
<1>0. TypeOK /\ TableOK /\ RefsExact
  BY DEF IInv
\* Steps that leave the futures alone and change no worker that holds one.
<1>1. ASSUME UNCHANGED <<pc, responseTable, refs>>,
             \A c \in Calls : \/ work'[c] = work[c]
                              \/ {work[c], work'[c]} \subseteq {"none", "queued", "found"}
      PROVE  TableOK' /\ RefsExact'
  <2>1. \A c \in Calls : work'[c] \in {"put", "notify", "callback"} <=> work[c] \in {"put", "notify", "callback"}
    BY <1>1
  <2>2. TableOK'
    BY <1>0, <1>1, <2>1 DEF TableOK, Registered
  <2>3. \A c \in Calls : TableOrWorkerHolds(c)' <=> TableOrWorkerHolds(c)
    BY <1>1, <2>1 DEF TableOrWorkerHolds
  <2>4. \A c \in Calls : CallerHolds(c)' <=> CallerHolds(c)
    BY <1>1 DEF CallerHolds, Registered
  <2>5. QED BY <1>0, <1>1, <2>2, <2>3, <2>4 DEF RefsExact
<1>2. CASE RunSelect \/ Broker
  <2>1. UNCHANGED <<pc, responseTable, refs, work>>
    BY <1>2 DEF RunSelect, Select, Broker, BrokerReads, BrokerMixesUp, BrokerCloses, BrokerAnswers
  <2>2. QED BY <1>1, <2>1
<1>3. CASE HandleSocketEvent
  <2>1. UNCHANGED <<pc, responseTable, refs>>
    BY <1>3 DEF HandleSocketEvent
  <2>2. ASSUME NEW c \in Calls PROVE work'[c] = work[c] \/ (work[c] = "none" /\ work'[c] = "queued")
    <3> SUFFICES ASSUME work'[c] # work[c] PROVE work[c] = "none" /\ work'[c] = "queued"
      OBVIOUS
    <3>1. /\ work'[c] = "queued"
          /\ c \in UNION {{inbox[t][i] : i \in DOMAIN inbox[t]} : t \in ready \cap {table[a] : a \in Addrs}}
      BY <1>3 DEF HandleSocketEvent
    <3>2. ready \subseteq Tids
      BY <1>0 DEF TypeOK
    <3>3. InInbox(c)
      BY <3>1, <3>2 DEF InInbox
    <3>4. QED BY <3>1, <3>3 DEF IInv, PlacesOK, PlaceOK
  <2>3. QED BY <1>1, <2>1, <2>2
<1>4. CASE Shutdown
  <2>1. UNCHANGED <<pc, responseTable, refs>> /\ \A c \in Calls : work'[c] = IF work[c] = "queued" THEN "none" ELSE work[c]
    BY <1>4 DEF Shutdown
  <2>2. QED BY <1>1, <2>1
<1>5. ASSUME NEW c \in Calls, ProcessData(c) \/ PutResponse(c) \/ Notify(c) PROVE TableOK' /\ RefsExact'
  <2>1. CASE ProcessData(c)
    <3>1. UNCHANGED <<pc, responseTable, refs>> /\ work[c] = "queued" /\ work'[c] \in {"none", "found"}
          /\ \A d \in Calls \ {c} : work'[d] = work[d]
      BY <1>0, <2>1 DEF ProcessData, TypeOK
    <3>2. QED BY <1>1, <3>1
  <2>2. CASE PutResponse(c) \/ Notify(c)
    <3>1. UNCHANGED <<pc, responseTable, refs>> /\ work[c] \in {"put", "notify"} /\ work'[c] \in {"notify", "callback"}
          /\ \A d \in Calls \ {c} : work'[d] = work[d]
      BY <1>0, <2>2 DEF PutResponse, Notify, TypeOK
    <3>2. TableOrWorkerHolds(c)' /\ TableOrWorkerHolds(c) /\ (CallerHolds(c)' <=> CallerHolds(c))
      BY <3>1 DEF TableOrWorkerHolds, CallerHolds, Registered
    <3>3. c \notin responseTable'
      BY <1>0, <3>1 DEF TableOK
    <3>4. QED BY <1>0, <3>1, <3>2, <3>3, RefsOfOne DEF RefsExact
  <2>3. QED BY <1>5, <2>1, <2>2
<1>6. ASSUME NEW c \in Calls, ProcessResponseCommand(c) PROVE TableOK' /\ RefsExact'
  <2>1. /\ work[c] = "found" /\ pc' = pc /\ refs' = refs /\ responseTable' = responseTable \ {c}
        /\ work'[c] = IF c \in responseTable THEN "put" ELSE "none"
        /\ \A d \in Calls \ {c} : work'[d] = work[d]
    BY <1>0, <1>6 DEF ProcessResponseCommand, TypeOK
  <2>2. (TableOrWorkerHolds(c)' <=> TableOrWorkerHolds(c)) /\ (CallerHolds(c)' <=> CallerHolds(c))
    BY <2>1 DEF TableOrWorkerHolds, CallerHolds, Registered
  <2>3. QED BY <1>0, <2>1, <2>2, RefsOfOne DEF RefsExact
<1>7. ASSUME NEW c \in Calls, ExecuteInvokeCallback(c) PROVE TableOK' /\ RefsExact'
  <2>1. /\ work[c] = "callback" /\ pc' = pc /\ responseTable' = responseTable
        /\ work'[c] = "none" /\ refs'[c] = refs[c] - 1
        /\ \A d \in Calls \ {c} : work'[d] = work[d] /\ refs'[d] = refs[d]
    BY <1>0, <1>7 DEF ExecuteInvokeCallback, TypeOK
  <2>2. c \notin responseTable
    BY <1>0, <2>1 DEF TableOK
  <2>3. ~TableOrWorkerHolds(c)' /\ TableOrWorkerHolds(c) /\ (CallerHolds(c)' <=> CallerHolds(c))
    BY <2>1, <2>2 DEF TableOrWorkerHolds, CallerHolds, Registered
  <2>4. refs'[c] = (IF CallerHolds(c)' THEN 1 ELSE 0) + (IF TableOrWorkerHolds(c)' THEN 1 ELSE 0)
    BY <1>0, <2>1, <2>3 DEF RefsExact
  <2>5. QED BY <2>1, <2>2, <2>4, RefsOfOne
<1>8. QED BY <1>2, <1>3, <1>4, <1>5, <1>6, <1>7 DEF EventThread, Worker

-----------------------------------------------------------------------------
(* Frames and responses. *)

\* An element of a wire.
LEMMA PieceType ==
    ASSUME TypeOK, NEW t \in Tids, NEW i \in DOMAIN wire[t]
    PROVE  /\ wire[t][i] = <<wire[t][i][1], wire[t][i][2]>>
           /\ wire[t][i][1] \in Calls /\ wire[t][i][2] \in {"head", "body"}
           /\ OnWire(wire[t][i][1], wire[t][i][2])
<1>1. wire[t] \in Seq(Calls \X {"head", "body"}) /\ i \in 1 .. Len(wire[t])
  BY LenProperties DEF TypeOK
<1>2. wire[t][i] \in Calls \X {"head", "body"}
  BY <1>1, ElementOfSeq
<1>3. QED BY <1>2 DEF OnWire

\* A frame is sent whole once c's caller has passed Unsent; this is what a step
\* that touches no connection has to preserve.
LEMMA NetFrame ==
    ASSUME IInv, TypeOK', UNCHANGED <<wire, broker, inbox, peerClosed, answered, mixed>>,
           \A c \in Calls :
              /\ tts'[c] = tts[c] \/ pc[c] \in {"idle", "connecting"}
              /\ pc'[c] \notin {"idle", "connecting", "failed"} => tts'[c] \in Tids
              /\ pc'[c] \in {"wait", "cleanup"} => Kind[c] = "sync"
              /\ pc'[c] \in Unsent => pc[c] \in Unsent
              /\ pc[c] \in WholeSent => pc'[c] \in WholeSent
              /\ pc'[c] = "body" => pc[c] = "body"
              /\ work[c] = "none" => work'[c] = "none"
              /\ response'[c] \/ got'[c] \/ called'[c] =>
                    work[c] # "none" \/ response[c] \/ got[c] \/ called[c]
    PROVE  CallersOK' /\ WireOK' /\ BodyOK' /\ PlacesOK'
<1>0. TypeOK /\ WireOK /\ BodyOK /\ PlacesOK
  BY DEF IInv
<1>1. CallersOK'
  BY DEF CallersOK
<1>2. \A c \in Calls : /\ OnWire(c, "head")' <=> OnWire(c, "head")
                       /\ OnWire(c, "body")' <=> OnWire(c, "body")
                       /\ AtBroker(c)' <=> AtBroker(c)
                       /\ InInbox(c)' <=> InInbox(c)
  BY DEF OnWire, AtBroker, InInbox
<1>3. WireOK'
  <2> SUFFICES ASSUME NEW t \in Tids
               PROVE  /\ \A i \in DOMAIN wire[t] : tts'[wire[t][i][1]] = t
                      /\ \A c \in broker[t] : tts'[c] = t
                      /\ \A i \in DOMAIN inbox[t] : tts'[inbox[t][i]] = t
    BY <1>0 DEF WireOK
  <2>1. ASSUME NEW c \in Calls, OnWire(c, "head") \/ OnWire(c, "body") \/ AtBroker(c) \/ InInbox(c)
        PROVE  tts'[c] = tts[c]
    BY <1>0, <2>1 DEF PlacesOK, PlaceOK, Unsent, NoFuture, WholeSent
  <2>2. \A i \in DOMAIN wire[t] : tts'[wire[t][i][1]] = t
    <3> SUFFICES ASSUME NEW i \in DOMAIN wire[t] PROVE tts'[wire[t][i][1]] = t
      OBVIOUS
    <3>1. wire[t][i][1] \in Calls /\ (OnWire(wire[t][i][1], "head") \/ OnWire(wire[t][i][1], "body"))
      BY <1>0, PieceType
    <3>2. QED BY <1>0, <2>1, <3>1 DEF WireOK
  <2>3. \A c \in broker[t] : tts'[c] = t
    <3> SUFFICES ASSUME NEW c \in broker[t] PROVE tts'[c] = t
      OBVIOUS
    <3>1. c \in Calls /\ AtBroker(c)
      BY <1>0 DEF TypeOK, AtBroker
    <3>2. QED BY <1>0, <2>1, <3>1 DEF WireOK
  <2>4. \A i \in DOMAIN inbox[t] : tts'[inbox[t][i]] = t
    <3> SUFFICES ASSUME NEW i \in DOMAIN inbox[t] PROVE tts'[inbox[t][i]] = t
      OBVIOUS
    <3>1. inbox[t][i] \in Calls
      BY <1>0, LenProperties, ElementOfSeq DEF TypeOK
    <3>2. InInbox(inbox[t][i])
      BY DEF InInbox
    <3>3. QED BY <1>0, <2>1, <3>1, <3>2 DEF WireOK
  <2>5. QED BY <2>2, <2>3, <2>4
<1>4. BodyOK'
  <2>1. \A c \in Calls : pc'[c] = "body" => c \in HasBody /\ (peerClosed'[tts'[c]] \/ OnWire(c, "head")')
    <3> SUFFICES ASSUME NEW c \in Calls, pc'[c] = "body"
                 PROVE  c \in HasBody /\ (peerClosed[tts'[c]] \/ OnWire(c, "head"))
      BY <1>2
    <3>1. pc[c] = "body" /\ tts'[c] = tts[c]
      OBVIOUS
    <3>2. QED BY <1>0, <3>1 DEF BodyOK
  <2>2. QED BY <1>0, <2>1 DEF BodyOK
<1>5. PlacesOK'
  <2> SUFFICES ASSUME NEW c \in Calls PROVE PlaceOK(c)'
    BY DEF PlacesOK
  <2>1. PlaceOK(c)
    BY <1>0 DEF PlacesOK
  <2>2. QED BY <1>2, <2>1 DEF PlaceOK, Registered
<1>6. QED BY <1>1, <1>3, <1>4, <1>5

\* Steps that touch no connection but its state.
LEMMA QuietNet ==
    ASSUME IInv, TypeOK',
           \/ \E c \in Calls : CallerStep(c) /\ ~SendHead(c) /\ ~SendBody(c)
           \/ \E c \in Calls : Worker(c)
           \/ RunSelect \/ Shutdown
    PROVE  CallersOK' /\ WireOK' /\ BodyOK' /\ PlacesOK'
<1> USE DEF net, history, caller, futures, Goto, Stage
<1>0. TypeOK /\ CallersOK
  BY DEF IInv
<1>1. ASSUME NEW c \in Calls, CallerStep(c), ~SendHead(c), ~SendBody(c)
      PROVE  CallersOK' /\ WireOK' /\ BodyOK' /\ PlacesOK'
  <2>1. /\ UNCHANGED <<wire, broker, inbox, peerClosed, answered, mixed, work, response, called>>
        /\ \A d \in Calls \ {c} : pc'[d] = pc[d] /\ tts'[d] = tts[d] /\ got'[d] = got[d]
    <3>1. CASE GetAndCreateTransport(c) \/ UpdateEvent(c) \/ RemoveTTS(c) \/ InvokeDisconnected(c)
      BY <1>0, <3>1 DEF GetAndCreateTransport, FindTransport, Connect, Connected, ConnectFails, UpdateEvent,
                        RemoveTTS, InvokeDisconnected, TypeOK
    <3>2. CASE SendFails(c) \/ WaitBegins(c) \/ WaitEnds(c) \/ UseAfterFree(c) \/ SentAsync(c) \/ Invoke(c)
      BY <1>0, <3>2 DEF SendFails, WaitBegins, WaitEnds, UseAfterFree, SentAsync, Invoke, TypeOK
    <3>3. CASE AfterSendFailed(c) \/ SyncReturns(c)
      BY <1>0, <3>3 DEF AfterSendFailed, SyncReturns, TypeOK
    <3>4. QED BY <1>1, <3>1, <3>2, <3>3 DEF CallerStep, InvokeStep
  <2>2. /\ tts'[c] = tts[c] \/ pc[c] \in {"idle", "connecting"}
        /\ pc'[c] \notin {"idle", "connecting", "failed"} => tts'[c] \in Tids
        /\ pc'[c] \in {"wait", "cleanup"} => Kind[c] = "sync"
        /\ pc'[c] \in Unsent => pc[c] \in Unsent
        /\ pc[c] \in WholeSent => pc'[c] \in WholeSent
        /\ pc'[c] = "body" => pc[c] = "body"
        /\ got'[c] => got[c] \/ response[c]
    <3>0. /\ pc[c] \notin {"idle", "connecting", "failed"} => tts[c] \in Tids
          /\ pc[c] \in {"wait", "cleanup"} => Kind[c] = "sync"
      BY <1>0 DEF CallersOK
    <3>1. CASE FindTransport(c) \/ Connect(c) \/ Connected(c) \/ ConnectFails(c)
      <4>1. table[Addr[c]] \in Tids \cup {NULL}
        BY <1>0, RemotingAssumption DEF TypeOK
      <4>2. QED BY <1>0, <3>1, <4>1 DEF FindTransport, Connect, Connected, ConnectFails, TypeOK, Unsent, NoFuture, WholeSent
    <3>2. CASE UpdateEvent(c) \/ RemoveTTS(c) \/ InvokeDisconnected(c) \/ Invoke(c) \/ UseAfterFree(c)
      BY <1>0, <3>0, <3>2 DEF UpdateEvent, RemoveTTS, InvokeDisconnected, Invoke, UseAfterFree,
                        TypeOK, Unsent, NoFuture, WholeSent
    <3>3. CASE SendFails(c) \/ AfterSendFailed(c) \/ SentAsync(c) \/ SyncReturns(c)
      BY <1>0, <3>0, <3>3 DEF SendFails, AfterSendFailed, SentAsync, SyncReturns,
                        TypeOK, Unsent, NoFuture, WholeSent
    <3>4. CASE WaitBegins(c) \/ WaitEnds(c)
      BY <1>0, <3>0, <3>4 DEF WaitBegins, WaitEnds, TypeOK, Unsent, NoFuture, WholeSent
    <3>5. QED BY <1>1, <3>1, <3>2, <3>3, <3>4 DEF CallerStep, GetAndCreateTransport, InvokeStep
  <2>3. \A d \in Calls : /\ pc[d] \notin {"idle", "connecting", "failed"} => tts[d] \in Tids
                         /\ pc[d] \in {"wait", "cleanup"} => Kind[d] = "sync"
    BY <1>0 DEF CallersOK
  <2>4. QED BY <2>1, <2>2, <2>3, NetFrame
<1>2. ASSUME UNCHANGED <<wire, broker, inbox, peerClosed, answered, mixed, pc, tts, got>>,
             \A c \in Calls : /\ work[c] = "none" => work'[c] = "none"
                              /\ response'[c] \/ called'[c] => work[c] # "none" \/ response[c] \/ called[c]
      PROVE  CallersOK' /\ WireOK' /\ BodyOK' /\ PlacesOK'
  BY <1>0, <1>2, NetFrame DEF CallersOK
<1>3. ASSUME NEW c \in Calls, Worker(c) PROVE CallersOK' /\ WireOK' /\ BodyOK' /\ PlacesOK'
  <2>1. UNCHANGED <<wire, broker, inbox, peerClosed, answered, mixed, pc, tts, got>>
    BY <1>3 DEF Worker, ProcessData, ProcessResponseCommand, PutResponse, Notify, ExecuteInvokeCallback
  <2>2. /\ work[c] # "none"
        /\ \A d \in Calls \ {c} : work'[d] = work[d] /\ response'[d] = response[d] /\ called'[d] = called[d]
    BY <1>0, <1>3 DEF Worker, ProcessData, ProcessResponseCommand, PutResponse, Notify,
                      ExecuteInvokeCallback, TypeOK
  <2>3. QED BY <1>2, <2>1, <2>2
<1>4. CASE RunSelect
  BY <1>2, <1>4 DEF RunSelect
<1>5. CASE Shutdown
  <2>1. \A c \in Calls : work[c] = "none" => work'[c] = "none"
    BY <1>5 DEF Shutdown
  <2>2. QED BY <1>2, <1>5, <2>1 DEF Shutdown
<1>6. QED BY <1>1, <1>3, <1>4, <1>5

\* SendCmd puts the head, then the body, at the end of the wire.
LEMMA SendNet ==
    ASSUME IInv, TypeOK', NEW c \in Calls, SendHead(c) \/ SendBody(c)
    PROVE  CallersOK' /\ WireOK' /\ BodyOK' /\ PlacesOK'
<1> USE DEF net, history, caller, futures, Goto
<1> DEFINE t == tts[c]
           m == Len(wire[t])
<1>0. TypeOK /\ CallersOK /\ WireOK /\ BodyOK /\ PlacesOK
  BY DEF IInv
<1>1. PICK part \in {"head", "body"} :
         /\ wire' = [wire EXCEPT ![t] = Append(@, <<c, part>>)]
         /\ pc[c] = (IF part = "head" THEN "send" ELSE "body")
         /\ pc' = [pc EXCEPT ![c] = IF part = "head" /\ c \in HasBody THEN "body" ELSE "sent"]
         /\ UNCHANGED <<tts, got, work, response, called, broker, inbox, peerClosed, answered, mixed>>
  BY DEF SendHead, SendBody
<1>2. t \in Tids
  BY <1>0, <1>1 DEF CallersOK
<1>3. wire[t] \in Seq(Calls \X {"head", "body"}) /\ m \in Nat /\ DOMAIN wire[t] = 1 .. m
  BY <1>0, <1>2, LenProperties DEF TypeOK
<1> HIDE DEF t, m
<1>4. /\ wire'[t] = Append(wire[t], <<c, part>>)
      /\ \A s \in Tids \ {t} : wire'[s] = wire[s]
  BY <1>0, <1>1, <1>2 DEF TypeOK
<1>5. /\ DOMAIN wire'[t] = 1 .. m + 1 /\ wire'[t][m + 1] = <<c, part>>
      /\ \A i \in 1 .. m : wire'[t][i] = wire[t][i]
  <2>1. <<c, part>> \in Calls \X {"head", "body"}
    OBVIOUS
  <2>2. /\ Append(wire[t], <<c, part>>) \in Seq(Calls \X {"head", "body"})
        /\ Len(Append(wire[t], <<c, part>>)) = Len(wire[t]) + 1
        /\ \A i \in 1 .. Len(wire[t]) : Append(wire[t], <<c, part>>)[i] = wire[t][i]
        /\ Append(wire[t], <<c, part>>)[Len(wire[t]) + 1] = <<c, part>>
    BY <1>3, <2>1, AppendProperties
  <2>3. DOMAIN Append(wire[t], <<c, part>>) = 1 .. Len(wire[t]) + 1
    BY <2>2, LenProperties
  <2>4. QED BY <1>4, <2>2, <2>3 DEF m
<1>6. /\ pc'[c] = (IF part = "head" /\ c \in HasBody THEN "body" ELSE "sent")
      /\ \A d \in Calls \ {c} : pc'[d] = pc[d]
  BY <1>0, <1>1 DEF TypeOK
\* What is on the wires now.
<1>7. \A d \in Calls, q \in {"head", "body"} : OnWire(d, q)' <=> OnWire(d, q) \/ (d = c /\ q = part)
  <2>1. ASSUME NEW d \in Calls, NEW q \in {"head", "body"}, OnWire(d, q)' PROVE OnWire(d, q) \/ (d = c /\ q = part)
    <3>1. PICK s \in Tids : \E i \in DOMAIN wire'[s] : wire'[s][i] = <<d, q>>
      BY <2>1 DEF OnWire
    <3>2. CASE s # t
      BY <1>4, <3>1, <3>2 DEF OnWire
    <3>3. CASE s = t
      <4>1. PICK i \in 1 .. m + 1 : wire'[t][i] = <<d, q>>
        BY <1>5, <3>1, <3>3
      <4>2. CASE i = m + 1
        BY <1>5, <4>1, <4>2
      <4>3. CASE i \in 1 .. m
        BY <1>2, <1>3, <1>5, <4>1, <4>3 DEF OnWire
      <4>4. QED BY <1>3, <4>2, <4>3
    <3>4. QED BY <3>2, <3>3
  <2>2. ASSUME NEW d \in Calls, NEW q \in {"head", "body"}, OnWire(d, q) PROVE OnWire(d, q)'
    <3>1. PICK s \in Tids : \E i \in DOMAIN wire[s] : wire[s][i] = <<d, q>>
      BY <2>2 DEF OnWire
    <3>2. PICK i \in DOMAIN wire[s] : wire[s][i] = <<d, q>>
      BY <3>1
    <3>3. i \in DOMAIN wire'[s] /\ wire'[s][i] = wire[s][i]
      <4>1. CASE s # t
        BY <1>4, <3>2, <4>1
      <4>2. CASE s = t
        <5>1. i \in 1 .. m
          BY <1>3, <3>2, <4>2
        <5>2. i \in 1 .. m + 1
          BY <1>3, <5>1
        <5>3. QED BY <1>5, <4>2, <5>1, <5>2
      <4>3. QED BY <4>1, <4>2
    <3>4. QED BY <3>2, <3>3 DEF OnWire
  <2>3. OnWire(c, part)'
    <3>1. m + 1 \in DOMAIN wire'[t]
      BY <1>3, <1>5
    <3>2. QED BY <1>2, <1>5, <3>1 DEF OnWire
  <2>4. QED BY <2>1, <2>2, <2>3
<1>8. \A d \in Calls : (AtBroker(d)' <=> AtBroker(d)) /\ (InInbox(d)' <=> InInbox(d))
  BY <1>1 DEF AtBroker, InInbox
<1>9. ~OnWire(c, part)
  BY <1>0, <1>1 DEF PlacesOK, PlaceOK, Unsent, WholeSent
<1>10. CallersOK'
  BY <1>0, <1>1, <1>2, <1>6 DEF CallersOK, t
<1>11. WireOK'
  <2>1. ASSUME NEW s \in Tids, NEW i \in DOMAIN wire'[s] PROVE tts'[wire'[s][i][1]] = s
    <3>1. CASE s # t \/ i \in 1 .. m
      BY <1>0, <1>1, <1>3, <1>4, <1>5, <2>1, <3>1 DEF WireOK
    <3>2. CASE s = t /\ i = m + 1
      BY <1>1, <1>5, <3>2 DEF t
    <3>3. QED BY <1>3, <1>5, <2>1, <3>1, <3>2
  <2>2. ASSUME NEW s \in Tids, NEW i \in DOMAIN wire'[s], NEW j \in DOMAIN wire'[s], wire'[s][i] = wire'[s][j]
        PROVE  i = j
    <3>1. CASE s # t
      BY <1>0, <1>4, <2>2, <3>1 DEF WireOK
    <3>2. CASE s = t
      <4>1. \A k \in 1 .. m : wire[t][k] # <<c, part>>
        BY <1>2, <1>3, <1>9 DEF OnWire
      <4>2. i \in 1 .. m + 1 /\ j \in 1 .. m + 1
        BY <1>5, <2>2, <3>2
      <4>3. CASE i \in 1 .. m /\ j \in 1 .. m
        BY <1>0, <1>2, <1>3, <1>5, <2>2, <3>2, <4>3 DEF WireOK
      <4>4. QED BY <1>3, <1>5, <2>2, <3>2, <4>1, <4>2, <4>3
    <3>3. QED BY <3>1, <3>2
  <2>3. QED BY <1>0, <1>1, <2>1, <2>2 DEF WireOK
<1>12. BodyOK'
  <2>1. ASSUME NEW s \in Tids, NEW i \in DOMAIN wire'[s], wire'[s][i][2] = "body"
        PROVE  /\ wire'[s][i][1] \in HasBody
               /\ peerClosed'[s] \/ \E j \in DOMAIN wire'[s] : j < i /\ wire'[s][j] = <<wire'[s][i][1], "head">>
    <3>1. CASE s # t
      BY <1>0, <1>1, <1>4, <2>1, <3>1 DEF BodyOK
    <3>2. CASE s = t /\ i \in 1 .. m
      <4>1. wire'[s][i] = wire[t][i]
        BY <1>5, <3>2
      <4>2. /\ wire[t][i][1] \in HasBody
            /\ peerClosed[t] \/ \E j \in DOMAIN wire[t] : j < i /\ wire[t][j] = <<wire[t][i][1], "head">>
        BY <1>0, <1>2, <1>3, <2>1, <3>2, <4>1 DEF BodyOK
      <4>3. \A j \in DOMAIN wire[t] : j \in DOMAIN wire'[t] /\ wire'[t][j] = wire[t][j]
        BY <1>3, <1>5
      <4>4. QED BY <1>1, <3>2, <4>1, <4>2, <4>3
    <3>3. CASE s = t /\ i = m + 1
      <4>1. wire'[s][i] = <<c, part>> /\ part = "body"
        BY <1>5, <2>1, <3>3
      <4>2. c \in HasBody /\ (peerClosed[t] \/ OnWire(c, "head"))
        BY <1>0, <1>1, <4>1 DEF BodyOK, t
      <4>3. ASSUME OnWire(c, "head") PROVE \E j \in 1 .. m : wire[t][j] = <<c, "head">>
        <5>1. PICK r \in Tids : \E j \in DOMAIN wire[r] : wire[r][j] = <<c, "head">>
          BY <4>3 DEF OnWire
        <5>2. r = t
          BY <1>0, <5>1 DEF WireOK, t
        <5>3. QED BY <1>3, <5>1, <5>2
      <4>4. \A j \in 1 .. m : j < m + 1 /\ j \in DOMAIN wire'[t] /\ wire'[t][j] = wire[t][j]
        BY <1>3, <1>5
      <4>5. QED BY <1>1, <3>3, <4>1, <4>2, <4>3, <4>4
    <3>4. QED BY <1>3, <1>5, <2>1, <3>1, <3>2, <3>3
  <2>2. \A d \in Calls : pc'[d] = "body" => d \in HasBody /\ (peerClosed'[tts'[d]] \/ OnWire(d, "head")')
    BY <1>0, <1>1, <1>6, <1>7 DEF BodyOK
  <2>3. QED BY <2>1, <2>2 DEF BodyOK
<1>13. PlacesOK'
  <2> SUFFICES ASSUME NEW d \in Calls PROVE PlaceOK(d)'
    BY DEF PlacesOK
  <2>1. PlaceOK(d)
    BY <1>0 DEF PlacesOK
  <2>2. CASE d # c
    BY <1>1, <1>6, <1>7, <1>8, <2>1, <2>2 DEF PlaceOK, Registered
  <2>3. CASE d = c
    <3>1. CASE part = "head"
      BY <1>1, <1>6, <1>7, <1>8, <2>1, <2>3, <3>1 DEF PlaceOK, Registered, Unsent, NoFuture, WholeSent
    <3>2. CASE part = "body"
      BY <1>1, <1>6, <1>7, <1>8, <2>1, <2>3, <3>2 DEF PlaceOK, Registered, Unsent, NoFuture, WholeSent
    <3>3. QED BY <3>1, <3>2
  <2>4. QED BY <2>2, <2>3
<1>14. QED BY <1>10, <1>11, <1>12, <1>13

\* A connection that the broker keeps has a head in front.
LEMMA HeadInFront ==
    ASSUME TypeOK, BodyOK, NEW t \in Tids, ~peerClosed[t], wire[t] # <<>>
    PROVE  /\ 1 \in DOMAIN wire[t] /\ Len(wire[t]) \in Nat /\ DOMAIN wire[t] = 1 .. Len(wire[t])
           /\ wire[t][1][1] \in Calls /\ wire[t][1] = <<wire[t][1][1], "head">>
           /\ OnWire(wire[t][1][1], "head")
<1>1. /\ wire[t] \in Seq(Calls \X {"head", "body"}) /\ Len(wire[t]) \in Nat \ {0}
      /\ DOMAIN wire[t] = 1 .. Len(wire[t])
  BY LenProperties, EmptySeq DEF TypeOK
<1>2. 1 \in DOMAIN wire[t]
  BY <1>1
<1>3. wire[t][1] \in Calls \X {"head", "body"}
  BY <1>1, <1>2, ElementOfSeq
<1>4. \A j \in DOMAIN wire[t] : ~(j < 1)
  BY <1>1
<1>5. wire[t][1][2] # "body"
  BY <1>2, <1>4 DEF BodyOK
<1>6. wire[t][1][1] \in Calls /\ wire[t][1] = <<wire[t][1][1], "head">>
  BY <1>3, <1>5
<1>7. QED BY <1>1, <1>2, <1>6 DEF OnWire

\* The callers and the workers are left alone.
AtEnds == <<pc, tts, got, work, response, called>>

\* A broker that reads a whole frame takes it off the wire.
LEMMA BrokerReadsNet ==
    ASSUME IInv, TypeOK', NEW t \in Tids, BrokerReads(t)
    PROVE  CallersOK' /\ WireOK' /\ BodyOK' /\ PlacesOK'
<1> PICK c : c = wire[t][1][1]
  OBVIOUS
<1> DEFINE n == IF c \in HasBody THEN 2 ELSE 1
           m == Len(wire[t])
<1>0. TypeOK /\ CallersOK /\ WireOK /\ BodyOK /\ PlacesOK
  BY DEF IInv
<1>1. wire[t] # <<>> /\ ~peerClosed[t] /\ wire[t] \in Seq(Calls \X {"head", "body"})
  BY <1>0 DEF BrokerReads, Up, TypeOK
<1>2. /\ c \in Calls /\ m \in Nat /\ DOMAIN wire[t] = 1 .. m /\ 1 \in 1 .. m
      /\ wire[t][1] = <<c, "head">> /\ OnWire(c, "head")
  BY <1>0, <1>1, HeadInFront
<1>3. Head(wire[t]) = wire[t][1]
  BY <1>1, EmptySeq
<1> HIDE DEF m
<1>4. /\ m >= n /\ (n = 2 => wire[t][2] = <<c, "body">>)
      /\ broker' = [broker EXCEPT ![t] = IF Registered(c) THEN @ \cup {c} ELSE @]
      /\ wire' = [wire EXCEPT ![t] = SubSeq(@, n + 1, Len(@))]
      /\ UNCHANGED <<AtEnds, inbox, peerClosed, answered, mixed>>
  BY <1>3 DEF BrokerReads, AtEnds, caller, futures, history, m
<1>5. n \in {1, 2} /\ (n = 2 <=> c \in HasBody)
  OBVIOUS
<1> HIDE DEF n
<1>6. /\ DOMAIN wire'[t] = 1 .. m - n /\ \A i \in 1 .. m - n : wire'[t][i] = wire[t][i + n]
      /\ \A s \in Tids \ {t} : wire'[s] = wire[s]
  <2>1. wire'[t] = SubSeq(wire[t], n + 1, m) /\ \A s \in Tids \ {t} : wire'[s] = wire[s]
    BY <1>0, <1>4 DEF TypeOK, m
  <2>2. \A i \in n + 1 .. m : wire[t][i] \in Calls \X {"head", "body"}
    <3>1. \A i \in 1 .. m : wire[t][i] \in Calls \X {"head", "body"}
      BY <1>1, ElementOfSeq DEF m
    <3>2. \A i \in n + 1 .. m : i \in 1 .. m
      BY <1>2, <1>5
    <3>3. QED BY <3>1, <3>2
  <2>3. n + 1 \in Int /\ m \in Int
    BY <1>2, <1>5
  <2> DEFINE b == SubSeq(wire[t], n + 1, m)
  <2>4. /\ b \in Seq(Calls \X {"head", "body"}) /\ Len(b) = IF n + 1 <= m THEN m - (n + 1) + 1 ELSE 0
        /\ \A i \in 1 .. m - (n + 1) + 1 : b[i] = wire[t][n + 1 + i - 1]
    BY <2>2, <2>3, SubSeqProperties
  <2> HIDE DEF b
  <2>5. Len(b) = m - n /\ \A i \in 1 .. m - n : i \in 1 .. m - (n + 1) + 1 /\ n + 1 + i - 1 = i + n
    BY <1>2, <1>4, <1>5, <2>4
  <2>6. DOMAIN b = 1 .. m - n
    BY <2>4, <2>5, LenProperties
  <2>7. QED BY <2>1, <2>4, <2>5, <2>6 DEF b
<1>7. \A i \in 1 .. m - n : i + n \in 1 .. m /\ i + n # 1 /\ (n = 2 => i + n # 2)
  BY <1>2, <1>5
\* The frame of c is gone from the wire, and nothing else is.
<1>8. \A i \in 1 .. m - n : wire[t][i + n][1] # c
  <2> SUFFICES ASSUME NEW i \in 1 .. m - n, wire[t][i + n][1] = c PROVE FALSE
    OBVIOUS
  <2>1. i + n \in DOMAIN wire[t] /\ i + n # 1
    BY <1>2, <1>7
  <2>2. wire[t][i + n] = <<c, "head">> \/ wire[t][i + n] = <<c, "body">>
    BY <1>0, <2>1, PieceType
  <2>3. wire[t][i + n] # <<c, "head">>
    <3>1. \A k, l \in DOMAIN wire[t] : wire[t][k] = wire[t][l] => k = l
      BY <1>0 DEF WireOK
    <3>2. QED BY <1>2, <2>1, <3>1
  <2>4. wire[t][i + n] = <<c, "body">> /\ c \in HasBody
    BY <1>0, <2>1, <2>2, <2>3 DEF BodyOK
  <2>5. n = 2 /\ 2 \in DOMAIN wire[t] /\ wire[t][2] = <<c, "body">>
    BY <1>2, <1>4, <1>5, <2>4
  <2>6. i + n = 2
    BY <1>0, <2>1, <2>4, <2>5 DEF WireOK
  <2>7. QED BY <1>7, <2>5, <2>6
<1>9. \A q \in {"head", "body"} : ~OnWire(c, q)'
  <2> SUFFICES ASSUME NEW q \in {"head", "body"}, OnWire(c, q)' PROVE FALSE
    OBVIOUS
  <2>0. PICK s \in Tids : \E i \in DOMAIN wire'[s] : wire'[s][i] = <<c, q>>
    BY DEF OnWire
  <2>1. s # t
    <3> SUFFICES ASSUME s = t PROVE FALSE
      OBVIOUS
    <3>1. PICK i \in 1 .. m - n : wire'[t][i] = <<c, q>>
      BY <1>6, <2>0
    <3>2. wire[t][i + n] = <<c, q>>
      BY <1>6, <3>1
    <3>3. QED BY <1>8, <3>2
  <2>2. tts[c] = s
    BY <1>0, <1>6, <2>0, <2>1 DEF WireOK
  <2>3. tts[c] = t
    BY <1>0, <1>2 DEF WireOK
  <2>4. QED BY <2>1, <2>2, <2>3
<1>10. \A d \in Calls \ {c}, q \in {"head", "body"} : OnWire(d, q)' <=> OnWire(d, q)
  <2>1. ASSUME NEW d \in Calls \ {c}, NEW q \in {"head", "body"}, OnWire(d, q)' PROVE OnWire(d, q)
    <3>1. PICK s \in Tids : \E i \in DOMAIN wire'[s] : wire'[s][i] = <<d, q>>
      BY <2>1 DEF OnWire
    <3>2. PICK i \in DOMAIN wire'[s] : wire'[s][i] = <<d, q>>
      BY <3>1
    <3>3. CASE s # t
      BY <1>6, <3>2, <3>3 DEF OnWire
    <3>4. CASE s = t
      <4>1. i + n \in DOMAIN wire[t] /\ wire[t][i + n] = <<d, q>>
        BY <1>2, <1>6, <1>7, <3>2, <3>4
      <4>2. QED BY <4>1 DEF OnWire
    <3>5. QED BY <3>3, <3>4
  <2>2. ASSUME NEW d \in Calls \ {c}, NEW q \in {"head", "body"}, OnWire(d, q) PROVE OnWire(d, q)'
    <3>1. PICK s \in Tids : \E i \in DOMAIN wire[s] : wire[s][i] = <<d, q>>
      BY <2>2 DEF OnWire
    <3>2. PICK i \in DOMAIN wire[s] : wire[s][i] = <<d, q>>
      BY <3>1
    <3>3. CASE s # t
      BY <1>6, <3>2, <3>3 DEF OnWire
    <3>4. CASE s = t
      <4>1. i \in 1 .. m /\ i # 1 /\ (n = 2 => i # 2)
        BY <1>2, <1>4, <3>2, <3>4
      <4>2. i - n \in 1 .. m - n /\ (i - n) + n = i
        BY <1>2, <1>5, <4>1
      <4>3. i - n \in DOMAIN wire'[t] /\ wire'[t][i - n] = <<d, q>>
        BY <1>6, <3>2, <3>4, <4>2
      <4>4. QED BY <4>3 DEF OnWire
    <3>5. QED BY <3>3, <3>4
  <2>3. QED BY <2>1, <2>2
<1>11. /\ \A d \in Calls \ {c} : AtBroker(d)' <=> AtBroker(d)
       /\ AtBroker(c)' => Registered(c)
       /\ \A d \in Calls : InInbox(d)' <=> InInbox(d)
  <2>1. /\ \A s \in Tids \ {t} : broker'[s] = broker[s]
        /\ broker'[t] = IF Registered(c) THEN broker[t] \cup {c} ELSE broker[t]
    BY <1>0, <1>4 DEF TypeOK
  <2>2. ~AtBroker(c)
    BY <1>0, <1>2 DEF PlacesOK, PlaceOK
  <2>3. QED BY <1>4, <2>1, <2>2 DEF AtBroker, InInbox
<1>12. CallersOK'
  BY <1>0, <1>4 DEF CallersOK, AtEnds
<1>13. WireOK'
  <2>1. ASSUME NEW s \in Tids, NEW i \in DOMAIN wire'[s]
        PROVE  /\ tts[wire'[s][i][1]] = s
               /\ \A j \in DOMAIN wire'[s] : wire'[s][i] = wire'[s][j] => i = j
    <3>1. CASE s # t
      BY <1>0, <1>6, <2>1, <3>1 DEF WireOK
    <3>2. CASE s = t
      <4>1. i + n \in DOMAIN wire[t] /\ wire'[s][i] = wire[t][i + n]
        BY <1>2, <1>6, <1>7, <2>1, <3>2
      <4>2. ASSUME NEW j \in DOMAIN wire'[s], wire'[s][i] = wire'[s][j] PROVE i = j
        <5>1. j + n \in DOMAIN wire[t] /\ wire'[s][j] = wire[t][j + n]
          BY <1>2, <1>6, <1>7, <4>2, <3>2
        <5>2. i + n = j + n
          <6>1. \A k, l \in DOMAIN wire[t] : wire[t][k] = wire[t][l] => k = l
            BY <1>0 DEF WireOK
          <6>2. wire[t][i + n] = wire[t][j + n]
            BY <4>1, <4>2, <5>1
          <6> HIDE DEF WireOK
          <6>3. QED BY <4>1, <5>1, <6>1, <6>2
        <5>3. i \in Int /\ j \in Int /\ n \in Int
          <6>1. i \in 1 .. m - n /\ j \in 1 .. m - n
            BY <1>6, <2>1, <3>2, <4>2
          <6>2. QED BY <1>5, <6>1
        <5>4. QED BY <5>2, <5>3
      <4>3. QED BY <1>0, <3>2, <4>1, <4>2 DEF WireOK
    <3>3. QED BY <3>1, <3>2
  <2>2. ASSUME NEW s \in Tids, NEW d \in broker'[s] PROVE tts[d] = s
    <3>1. tts[c] = t
      BY <1>0, <1>2 DEF WireOK
    <3>2. d \in broker[s] \/ (s = t /\ d = c)
      BY <1>0, <1>4, <2>2 DEF TypeOK
    <3>3. QED BY <1>0, <3>1, <3>2 DEF WireOK
  <2>3. \A s \in Tids : \A i \in DOMAIN inbox'[s] : tts'[inbox'[s][i]] = s
    BY <1>0, <1>4 DEF WireOK, AtEnds
  <2>4. tts' = tts
    BY <1>4 DEF AtEnds
  <2>5. QED BY <2>1, <2>2, <2>3, <2>4 DEF WireOK
<1>14. BodyOK'
  <2>1. ASSUME NEW s \in Tids, NEW i \in DOMAIN wire'[s], wire'[s][i][2] = "body"
        PROVE  /\ wire'[s][i][1] \in HasBody
               /\ peerClosed'[s] \/ \E j \in DOMAIN wire'[s] : j < i /\ wire'[s][j] = <<wire'[s][i][1], "head">>
    <3>1. CASE s # t
      <4>1. wire'[s] = wire[s] /\ peerClosed'[s] = peerClosed[s]
        BY <1>4, <1>6, <3>1
      <4>2. QED BY <1>0, <2>1, <4>1 DEF BodyOK
    <3>2. CASE s = t
      <4>1. i \in 1 .. m - n /\ i + n \in DOMAIN wire[t] /\ wire'[s][i] = wire[t][i + n]
        BY <1>2, <1>6, <1>7, <2>1, <3>2
      <4>2. /\ wire[t][i + n][1] \in HasBody
            /\ \E j \in DOMAIN wire[t] : j < i + n /\ wire[t][j] = <<wire[t][i + n][1], "head">>
        BY <1>0, <1>1, <2>1, <4>1 DEF BodyOK
      <4>3. PICK j \in DOMAIN wire[t] : j < i + n /\ wire[t][j] = <<wire[t][i + n][1], "head">>
        BY <4>2
      <4>4. wire[t][i + n][1] # c
        BY <1>8, <4>1
      <4>5. j # 1 /\ (n = 2 => j # 2)
        BY <1>2, <1>4, <4>3, <4>4
      <4>6. j - n \in 1 .. m - n /\ j - n < i /\ (j - n) + n = j
        BY <1>2, <1>5, <4>1, <4>3, <4>5
      <4>7. j - n \in DOMAIN wire'[t] /\ wire'[t][j - n] = wire[t][j]
        BY <1>6, <4>6
      <4>8. QED BY <3>2, <4>1, <4>2, <4>3, <4>6, <4>7
    <3>3. QED BY <3>1, <3>2
  <2>2. ASSUME NEW d \in Calls, pc'[d] = "body"
        PROVE  d \in HasBody /\ (peerClosed'[tts'[d]] \/ OnWire(d, "head")')
    <3>1. pc[d] = "body" /\ d \in HasBody /\ (peerClosed[tts[d]] \/ OnWire(d, "head"))
      BY <1>0, <1>4, <2>2 DEF BodyOK, AtEnds
    <3>2. d # c
      <4> SUFFICES ASSUME d = c PROVE FALSE
        OBVIOUS
      <4>1. 2 \in DOMAIN wire[t] /\ wire[t][2] = <<c, "body">>
        BY <1>2, <1>4, <1>5, <3>1
      <4>2. OnWire(c, "body")
        BY <4>1 DEF OnWire
      <4>3. QED BY <1>0, <3>1, <4>2 DEF PlacesOK, PlaceOK, WholeSent
    <3>3. QED BY <1>4, <1>10, <3>1, <3>2 DEF AtEnds
  <2>3. QED BY <2>1, <2>2 DEF BodyOK
<1>15. PlacesOK'
  <2> SUFFICES ASSUME NEW d \in Calls PROVE PlaceOK(d)'
    BY DEF PlacesOK
  <2>1. PlaceOK(d)
    BY <1>0 DEF PlacesOK
  <2>2. CASE d # c
    BY <1>4, <1>10, <1>11, <2>1, <2>2 DEF PlaceOK, Registered, AtEnds
  <2>3. CASE d = c
    <3>1. pc[c] \in WholeSent
      <4>1. CASE c \in HasBody
        <5>1. 2 \in DOMAIN wire[t] /\ wire[t][2] = <<c, "body">>
          BY <1>2, <1>4, <1>5, <4>1
        <5>2. OnWire(c, "body")
          BY <5>1 DEF OnWire
        <5>3. QED BY <2>1, <2>3, <5>2 DEF PlaceOK
      <4>2. CASE c \notin HasBody
        BY <1>2, <2>1, <2>3, <4>2 DEF PlaceOK
      <4>3. QED BY <4>1, <4>2
    <3>2. c \notin answered /\ pc[c] \notin Unsent
      BY <1>2, <2>1, <2>3 DEF PlaceOK
    <3>3. QED BY <1>4, <1>9, <1>11, <2>1, <2>3, <3>1, <3>2 DEF PlaceOK, Registered, AtEnds
  <2>4. QED BY <2>2, <2>3
<1>16. QED BY <1>12, <1>13, <1>14, <1>15

\* A broker that reads frames that ran into each other may answer the first, marks
\* them all mixed up, and closes the connection.
LEMMA BrokerMixesUpNet ==
    ASSUME IInv, TypeOK', NEW t \in Tids, BrokerMixesUp(t)
    PROVE  CallersOK' /\ WireOK' /\ BodyOK' /\ PlacesOK'
<1> PICK c : c = wire[t][1][1]
  OBVIOUS
<1>0. TypeOK /\ CallersOK /\ WireOK /\ BodyOK /\ PlacesOK
  BY DEF IInv
<1>1. wire[t] # <<>> /\ ~peerClosed[t]
  <2>1. Len(wire[t]) >= 2 /\ ~peerClosed[t] /\ Len(<<>>) = 0
    BY DEF BrokerMixesUp, Up
  <2>2. QED BY <2>1
<1>2. c \in Calls /\ 1 \in DOMAIN wire[t] /\ wire[t][1] = <<c, "head">> /\ OnWire(c, "head")
  BY <1>0, <1>1, HeadInFront
<1>3. /\ \/ UNCHANGED <<inbox, answered>>
         \/ /\ Registered(c) /\ inbox' = [inbox EXCEPT ![t] = Append(@, c)]
            /\ answered' = answered \cup {c}
      /\ mixed' = mixed \cup {wire[t][i][1] : i \in DOMAIN wire[t]}
      /\ wire' = [wire EXCEPT ![t] = <<>>]
      /\ broker' = [broker EXCEPT ![t] = {}]
      /\ peerClosed' = [peerClosed EXCEPT ![t] = TRUE]
      /\ UNCHANGED AtEnds
  BY DEF BrokerMixesUp, AtEnds, caller, futures
<1>4. /\ \A s \in Tids \ {t} : wire'[s] = wire[s] /\ broker'[s] = broker[s] /\ peerClosed'[s] = peerClosed[s]
      /\ wire'[t] = <<>> /\ broker'[t] = {} /\ peerClosed'[t] /\ DOMAIN wire'[t] = {}
  BY <1>0, <1>3 DEF TypeOK
<1>5. tts[c] = t /\ c \in mixed' /\ mixed \subseteq mixed'
  BY <1>0, <1>2, <1>3 DEF WireOK
<1>6. /\ \A d \in Calls, q \in {"head", "body"} : OnWire(d, q)' => OnWire(d, q)
      /\ ~OnWire(c, "head")' /\ ~OnWire(c, "body")'
      /\ \A d \in Calls : AtBroker(d)' => AtBroker(d)
  <2>1. ASSUME NEW d \in Calls, NEW q \in {"head", "body"}, OnWire(d, q)' PROVE OnWire(d, q) /\ tts[d] # t
    <3>1. PICK s \in Tids : \E i \in DOMAIN wire'[s] : wire'[s][i] = <<d, q>>
      BY <2>1 DEF OnWire
    <3>2. s # t /\ wire'[s] = wire[s]
      BY <1>4, <3>1
    <3>3. QED BY <1>0, <3>1, <3>2 DEF OnWire, WireOK
  <2>2. \A d \in Calls : AtBroker(d)' => AtBroker(d)
    BY <1>4 DEF AtBroker
  <2>3. QED BY <1>2, <1>5, <2>1, <2>2
<1>7. /\ \A s \in Tids : \A i \in DOMAIN inbox'[s] :
            \/ i \in DOMAIN inbox[s] /\ inbox'[s][i] = inbox[s][i]
            \/ s = t /\ inbox'[s][i] = c /\ c \in answered' /\ Registered(c)
      /\ answered' = answered \/ (answered' = answered \cup {c} /\ Registered(c))
  <2>1. CASE UNCHANGED <<inbox, answered>>
    BY <2>1
  <2>2. CASE /\ Registered(c) /\ inbox' = [inbox EXCEPT ![t] = Append(@, c)]
             /\ answered' = answered \cup {c}
    <3>1. /\ inbox'[t] = Append(inbox[t], c) /\ \A s \in Tids \ {t} : inbox'[s] = inbox[s]
          /\ inbox[t] \in Seq(Calls)
      BY <1>0, <2>2 DEF TypeOK
    <3>2. /\ Append(inbox[t], c) \in Seq(Calls) /\ Len(Append(inbox[t], c)) = Len(inbox[t]) + 1
          /\ \A i \in 1 .. Len(inbox[t]) : Append(inbox[t], c)[i] = inbox[t][i]
          /\ Append(inbox[t], c)[Len(inbox[t]) + 1] = c
      BY <1>2, <3>1, AppendProperties
    <3>3. /\ DOMAIN Append(inbox[t], c) = 1 .. Len(inbox[t]) + 1 /\ DOMAIN inbox[t] = 1 .. Len(inbox[t])
          /\ Len(inbox[t]) \in Nat
      BY <3>1, <3>2, LenProperties
    <3>4. ASSUME NEW s \in Tids, NEW i \in DOMAIN inbox'[s]
          PROVE  (i \in DOMAIN inbox[s] /\ inbox'[s][i] = inbox[s][i]) \/ (s = t /\ inbox'[s][i] = c)
      <4>1. CASE s # t
        BY <3>1, <3>4, <4>1
      <4>2. CASE s = t
        <5>1. i \in 1 .. Len(inbox[t]) \/ i = Len(inbox[t]) + 1
          BY <3>1, <3>3, <3>4, <4>2
        <5>2. QED BY <3>1, <3>2, <3>3, <4>2, <5>1
      <4>3. QED BY <4>1, <4>2
    <3>5. QED BY <2>2, <3>4
  <2>3. QED BY <1>3, <2>1, <2>2
<1>8. \A d \in Calls : InInbox(d)' => InInbox(d) \/ (d = c /\ c \in answered' /\ Registered(c))
  BY <1>7 DEF InInbox
<1>9. CallersOK'
  BY <1>0, <1>3 DEF CallersOK, AtEnds
<1>10. WireOK'
  <2>1. ASSUME NEW s \in Tids
        PROVE  /\ \A i \in DOMAIN wire'[s] :
                     /\ tts[wire'[s][i][1]] = s
                     /\ \A j \in DOMAIN wire'[s] : wire'[s][i] = wire'[s][j] => i = j
               /\ \A d \in broker'[s] : tts[d] = s
    BY <1>0, <1>4 DEF WireOK
  <2>2. ASSUME NEW s \in Tids, NEW i \in DOMAIN inbox'[s] PROVE tts[inbox'[s][i]] = s
    BY <1>0, <1>5, <1>7 DEF WireOK
  <2>3. tts' = tts
    BY <1>3 DEF AtEnds
  <2>4. QED BY <2>1, <2>2, <2>3 DEF WireOK
<1>11. BodyOK'
  <2>1. ASSUME NEW s \in Tids, NEW i \in DOMAIN wire'[s], wire'[s][i][2] = "body"
        PROVE  /\ wire'[s][i][1] \in HasBody
               /\ peerClosed'[s] \/ \E j \in DOMAIN wire'[s] : j < i /\ wire'[s][j] = <<wire'[s][i][1], "head">>
    <3>1. wire'[s] = wire[s] /\ peerClosed'[s] = peerClosed[s]
      BY <1>4
    <3>2. QED BY <1>0, <2>1, <3>1 DEF BodyOK
  <2>2. ASSUME NEW d \in Calls, pc'[d] = "body"
        PROVE  d \in HasBody /\ (peerClosed'[tts'[d]] \/ OnWire(d, "head")')
    <3>1. pc[d] = "body" /\ tts'[d] = tts[d] /\ d \in HasBody /\ (peerClosed[tts[d]] \/ OnWire(d, "head"))
      BY <1>0, <1>3, <2>2 DEF BodyOK, AtEnds
    <3>2. tts[d] \in Tids
      BY <1>0, <3>1 DEF CallersOK
    <3>3. CASE tts[d] = t
      BY <1>4, <3>1, <3>3
    <3>4. CASE tts[d] # t /\ OnWire(d, "head")
      <4>1. PICK s \in Tids : \E i \in DOMAIN wire[s] : wire[s][i] = <<d, "head">>
        BY <3>4 DEF OnWire
      <4>2. tts[d] = s
        BY <1>0, <4>1 DEF WireOK
      <4>3. wire'[s] = wire[s]
        BY <1>4, <3>4, <4>2
      <4>4. OnWire(d, "head")'
        BY <4>1, <4>3 DEF OnWire
      <4>5. QED BY <3>1, <4>4
    <3>5. QED BY <1>4, <3>1, <3>2, <3>3, <3>4
  <2>3. QED BY <2>1, <2>2 DEF BodyOK
<1>12. PlacesOK'
  <2> SUFFICES ASSUME NEW d \in Calls PROVE PlaceOK(d)'
    BY DEF PlacesOK
  <2>1. PlaceOK(d)
    BY <1>0 DEF PlacesOK
  <2>2. CASE d # c
    BY <1>3, <1>5, <1>6, <1>7, <1>8, <2>1, <2>2 DEF PlaceOK, Registered, AtEnds
  <2>3. CASE d = c
    <3>1. /\ pc[c] \notin Unsent /\ ~AtBroker(c) /\ c \notin answered /\ ~InInbox(c)
          /\ work[c] = "none" /\ ~response[c] /\ ~got[c] /\ ~called[c]
      BY <1>2, <2>1, <2>3 DEF PlaceOK
    <3>2. QED BY <1>3, <1>5, <1>6, <1>7, <1>8, <2>3, <3>1 DEF PlaceOK, Registered, AtEnds
  <2>4. QED BY <2>2, <2>3
<1>13. QED BY <1>9, <1>10, <1>11, <1>12

\* An answer leaves the broker once.
LEMMA BrokerAnswersNet ==
    ASSUME IInv, TypeOK', NEW t \in Tids, NEW c \in Calls, BrokerAnswers(t, c)
    PROVE  CallersOK' /\ WireOK' /\ BodyOK' /\ PlacesOK'
<1>0. TypeOK /\ CallersOK /\ WireOK /\ BodyOK /\ PlacesOK
  BY DEF IInv
<1>1. /\ c \in broker[t] /\ broker' = [broker EXCEPT ![t] = @ \ {c}]
      /\ inbox' = [inbox EXCEPT ![t] = Append(@, c)] /\ answered' = answered \cup {c}
      /\ UNCHANGED <<AtEnds, wire, peerClosed, mixed>>
  BY DEF BrokerAnswers, AtEnds, caller, futures
<1>2. AtBroker(c) /\ tts[c] = t
  BY <1>0, <1>1 DEF AtBroker, WireOK
<1>3. \A s \in Tids : \A i \in DOMAIN inbox'[s] :
         (i \in DOMAIN inbox[s] /\ inbox'[s][i] = inbox[s][i]) \/ (s = t /\ inbox'[s][i] = c)
  <2>1. /\ inbox'[t] = Append(inbox[t], c) /\ \A s \in Tids \ {t} : inbox'[s] = inbox[s]
        /\ inbox[t] \in Seq(Calls)
    BY <1>0, <1>1 DEF TypeOK
  <2>2. /\ Append(inbox[t], c) \in Seq(Calls) /\ Len(Append(inbox[t], c)) = Len(inbox[t]) + 1
        /\ \A i \in 1 .. Len(inbox[t]) : Append(inbox[t], c)[i] = inbox[t][i]
        /\ Append(inbox[t], c)[Len(inbox[t]) + 1] = c
    BY <2>1, AppendProperties
  <2>3. /\ DOMAIN Append(inbox[t], c) = 1 .. Len(inbox[t]) + 1 /\ DOMAIN inbox[t] = 1 .. Len(inbox[t])
        /\ Len(inbox[t]) \in Nat
    BY <2>1, <2>2, LenProperties
  <2>4. ASSUME NEW s \in Tids, NEW i \in DOMAIN inbox'[s]
        PROVE  (i \in DOMAIN inbox[s] /\ inbox'[s][i] = inbox[s][i]) \/ (s = t /\ inbox'[s][i] = c)
    <3>1. CASE s # t
      BY <2>1, <2>4, <3>1
    <3>2. CASE s = t
      <4>1. i \in 1 .. Len(inbox[t]) \/ i = Len(inbox[t]) + 1
        BY <2>1, <2>3, <2>4, <3>2
      <4>2. QED BY <2>1, <2>2, <2>3, <3>2, <4>1
    <3>3. QED BY <3>1, <3>2
  <2>5. QED BY <2>4
<1>4. \A d \in Calls : InInbox(d)' => InInbox(d) \/ d = c
  BY <1>3 DEF InInbox
<1>5. \A d \in Calls : AtBroker(d)' => AtBroker(d) /\ d # c
  <2>1. \A s \in Tids : broker'[s] = IF s = t THEN broker[s] \ {c} ELSE broker[s]
    BY <1>0, <1>1 DEF TypeOK
  <2>2. \A s \in Tids : c \in broker[s] => s = t
    BY <1>0, <1>2 DEF WireOK
  <2>3. QED BY <2>1, <2>2 DEF AtBroker
<1>6. \A d \in Calls, q \in {"head", "body"} : OnWire(d, q)' <=> OnWire(d, q)
  BY <1>1 DEF OnWire
<1>7. CallersOK' /\ BodyOK'
  BY <1>0, <1>1, <1>6 DEF CallersOK, BodyOK, AtEnds
<1>8. WireOK'
  <2>1. ASSUME NEW s \in Tids, NEW i \in DOMAIN inbox'[s] PROVE tts[inbox'[s][i]] = s
    BY <1>0, <1>2, <1>3 DEF WireOK
  <2>2. \A s \in Tids : broker'[s] \subseteq broker[s]
    BY <1>0, <1>1 DEF TypeOK
  <2>3. tts' = tts /\ wire' = wire
    BY <1>1 DEF AtEnds
  <2>4. QED BY <1>0, <2>1, <2>2, <2>3 DEF WireOK
<1>9. PlacesOK'
  <2> SUFFICES ASSUME NEW d \in Calls PROVE PlaceOK(d)'
    BY DEF PlacesOK
  <2>1. PlaceOK(d)
    BY <1>0 DEF PlacesOK
  <2>2. CASE d # c
    BY <1>1, <1>4, <1>5, <1>6, <2>1, <2>2 DEF PlaceOK, Registered, AtEnds
  <2>3. CASE d = c
    <3>1. /\ pc[c] \in WholeSent /\ pc[c] \notin Unsent /\ Registered(c) /\ c \notin answered
          /\ ~InInbox(c) /\ ~OnWire(c, "head")
          /\ work[c] = "none" /\ ~response[c] /\ ~got[c] /\ ~called[c]
      BY <1>2, <2>1, <2>3 DEF PlaceOK, Unsent, NoFuture, WholeSent
    <3>2. QED BY <1>1, <1>4, <1>5, <1>6, <2>3, <3>1 DEF PlaceOK, Registered, AtEnds
  <2>4. QED BY <2>2, <2>3
<1>10. QED BY <1>7, <1>8, <1>9

\* Closing a connection loses what the broker had, and moves nothing.
LEMMA BrokerClosesNet ==
    ASSUME IInv, TypeOK', NEW t \in Tids, BrokerCloses(t)
    PROVE  CallersOK' /\ WireOK' /\ BodyOK' /\ PlacesOK'
<1>0. TypeOK /\ CallersOK /\ WireOK /\ BodyOK /\ PlacesOK
  BY DEF IInv
<1>1. /\ broker' = [broker EXCEPT ![t] = {}] /\ peerClosed' = [peerClosed EXCEPT ![t] = TRUE]
      /\ UNCHANGED <<AtEnds, wire, inbox, answered, mixed>>
  BY DEF BrokerCloses, AtEnds, caller, futures, history
<1>2. /\ \A s \in Tids : broker'[s] \subseteq broker[s] /\ (peerClosed[s] => peerClosed'[s])
  BY <1>0, <1>1 DEF TypeOK
<1>3. \A d \in Calls : /\ \A q \in {"head", "body"} : OnWire(d, q)' <=> OnWire(d, q)
                       /\ AtBroker(d)' => AtBroker(d)
                       /\ InInbox(d)' <=> InInbox(d)
  BY <1>1, <1>2 DEF OnWire, AtBroker, InInbox
<1>4. CallersOK' /\ WireOK'
  BY <1>0, <1>1, <1>2 DEF CallersOK, WireOK, AtEnds
<1>5. BodyOK'
  BY <1>0, <1>1, <1>2, <1>3 DEF BodyOK, CallersOK, AtEnds
<1>6. PlacesOK'
  <2> SUFFICES ASSUME NEW d \in Calls PROVE PlaceOK(d)'
    BY DEF PlacesOK
  <2>1. PlaceOK(d)
    BY <1>0 DEF PlacesOK
  <2>2. QED BY <1>1, <1>3, <2>1 DEF PlaceOK, Registered, AtEnds
<1>7. QED BY <1>4, <1>5, <1>6

\* The event thread hands each response it read to a worker; the rest of the
\* inboxes are other calls'.
LEMMA HandleNet ==
    ASSUME IInv, TypeOK', HandleSocketEvent
    PROVE  CallersOK' /\ WireOK' /\ BodyOK' /\ PlacesOK'
<1> PICK ts : ts = ready \cap {table[a] : a \in Addrs}
  OBVIOUS
<1> DEFINE frames == UNION {{inbox[t][i] : i \in DOMAIN inbox[t]} : t \in ts}
<1>0. TypeOK /\ CallersOK /\ WireOK /\ BodyOK /\ PlacesOK
  BY DEF IInv
<1>1. /\ inbox' = [t \in Tids |-> IF t \in ts THEN <<>> ELSE inbox[t]]
      /\ work' = [c \in Calls |-> IF c \in frames /\ ~stop THEN "queued" ELSE work[c]]
      /\ UNCHANGED <<pc, tts, got, response, called, wire, broker, peerClosed, answered, mixed>>
  BY DEF HandleSocketEvent, caller, futures, history
<1>2. \A c \in Calls : c \in frames => \E t \in ts : \E i \in DOMAIN inbox[t] : inbox[t][i] = c
  OBVIOUS
<1>3. ts \subseteq Tids
  BY <1>0 DEF TypeOK
<1> HIDE DEF frames
<1>4. \A t \in Tids : IF t \in ts THEN DOMAIN inbox'[t] = {} ELSE inbox'[t] = inbox[t]
  BY <1>1
<1>5. \A c \in Calls : InInbox(c)' => InInbox(c) /\ c \notin frames
  <2> SUFFICES ASSUME NEW c \in Calls, InInbox(c)' PROVE InInbox(c) /\ c \notin frames
    OBVIOUS
  <2>1. PICK t \in Tids : \E i \in DOMAIN inbox'[t] : inbox'[t][i] = c
    BY DEF InInbox
  <2>2. t \notin ts /\ inbox'[t] = inbox[t]
    BY <1>4, <2>1
  <2>3. tts[c] = t /\ InInbox(c)
    BY <1>0, <2>1, <2>2 DEF WireOK, InInbox
  <2>4. \A s \in ts : \A i \in DOMAIN inbox[s] : inbox[s][i] = c => tts[c] = s
    BY <1>0, <1>3 DEF WireOK
  <2>5. QED BY <1>2, <2>2, <2>3, <2>4
<1>6. \A c \in Calls : c \in frames => InInbox(c)
  BY <1>2, <1>3 DEF InInbox
<1>7. \A d \in Calls : /\ \A q \in {"head", "body"} : OnWire(d, q)' <=> OnWire(d, q)
                       /\ AtBroker(d)' <=> AtBroker(d)
  BY <1>1 DEF OnWire, AtBroker
<1>8. CallersOK' /\ BodyOK'
  BY <1>0, <1>1, <1>7 DEF CallersOK, BodyOK
<1>9. WireOK'
  BY <1>0, <1>1, <1>4 DEF WireOK
<1>10. PlacesOK'
  <2> SUFFICES ASSUME NEW d \in Calls PROVE PlaceOK(d)'
    BY DEF PlacesOK
  <2>1. PlaceOK(d)
    BY <1>0 DEF PlacesOK
  <2>2. work'[d] = work[d] \/ (d \in frames /\ d \in answered)
    BY <1>1, <1>6, <2>1 DEF PlaceOK
  <2>3. d \notin frames => work'[d] = work[d]
    BY <1>1
  <2>4. QED BY <1>1, <1>5, <1>7, <2>1, <2>2, <2>3 DEF PlaceOK, Registered
<1>11. QED BY <1>8, <1>9, <1>10

-----------------------------------------------------------------------------
(* The invariant is inductive. *)
LEMMA InitIInv == Init => IInv
<1> SUFFICES ASSUME Init PROVE IInv
  OBVIOUS
<1>1. TypeOK
  BY InitTypeOK
<1>2. \A t \in Tids : DOMAIN wire[t] = {} /\ broker[t] = {} /\ DOMAIN inbox[t] = {}
  BY DEF Init
<1>3. \A c \in Calls : ~OnWire(c, "head") /\ ~OnWire(c, "body") /\ ~AtBroker(c) /\ ~InInbox(c)
  BY <1>2 DEF OnWire, AtBroker, InInbox
<1>4. \A c \in Calls : /\ pc[c] = "idle" /\ work[c] = "none" /\ refs[c] = 0
                       /\ ~response[c] /\ ~got[c] /\ ~called[c]
  BY DEF Init
<1>5. answered = {} /\ responseTable = {}
  BY DEF Init
<1>6. CallersOK
  BY <1>4 DEF CallersOK
<1>7. WireOK /\ BodyOK
  BY <1>2, <1>4 DEF WireOK, BodyOK
<1>8. PlacesOK
  BY <1>3, <1>4, <1>5 DEF PlacesOK, PlaceOK
<1>9. TableOK
  BY <1>5 DEF TableOK
<1>10. RefsExact
  BY <1>4, <1>5 DEF RefsExact, CallerHolds, TableOrWorkerHolds
<1>11. QED BY <1>1, <1>6, <1>7, <1>8, <1>9, <1>10 DEF IInv

\* A step that changes nothing keeps the invariant.
LEMMA StutterIInv == IInv /\ UNCHANGED vars => IInv'
<1> SUFFICES ASSUME IInv, UNCHANGED vars PROVE IInv'
  OBVIOUS
<1> USE DEF IInv, vars, conns, event, caller, futures, net, history
<1>1. TypeOK'
  BY DEF TypeOK
<1>2. CallersOK' /\ WireOK'
  BY DEF CallersOK, WireOK
<1>3. BodyOK' /\ PlacesOK'
  <2>1. \A c \in Calls : /\ \A q \in {"head", "body"} : OnWire(c, q)' <=> OnWire(c, q)
                         /\ AtBroker(c)' <=> AtBroker(c)
                         /\ InInbox(c)' <=> InInbox(c)
    BY DEF OnWire, AtBroker, InInbox
  <2>2. BodyOK'
    BY <2>1 DEF BodyOK
  <2>3. ASSUME NEW c \in Calls PROVE PlaceOK(c)'
    BY <2>1 DEF PlacesOK, PlaceOK, Registered
  <2>4. QED BY <2>2, <2>3 DEF PlacesOK
<1>4. TableOK' /\ RefsExact'
  BY DEF TableOK, RefsExact, CallerHolds, TableOrWorkerHolds, Registered
<1>5. QED BY <1>1, <1>2, <1>3, <1>4

\* Every step of callers, workers, event thread and brokers keeps the invariant.
LEMMA NextIInv == IInv /\ [Next]_vars => IInv'
<1> SUFFICES ASSUME IInv, [Next]_vars PROVE IInv'
  OBVIOUS
<1>1. ASSUME NEW c \in Calls, CallerStep(c) PROVE IInv'
  <2>1. TypeOK'
    BY <1>1, CallerTypeOK
  <2>2. TableOK' /\ RefsExact'
    BY <1>1, <2>1, CallerRefs
  <2>3. CallersOK' /\ WireOK' /\ BodyOK' /\ PlacesOK'
    BY <1>1, <2>1, SendNet, QuietNet
  <2>4. QED BY <2>1, <2>2, <2>3 DEF IInv
<1>2. CASE (\E c \in Calls : Worker(c)) \/ EventThread \/ Shutdown \/ Broker
  <2>1. TypeOK'
    BY <1>2, OtherTypeOK
  <2>2. TableOK' /\ RefsExact'
    BY <1>2, <2>1, OtherRefs
  <2>3. CASE (\E c \in Calls : Worker(c)) \/ RunSelect \/ Shutdown
    BY <2>1, <2>2, <2>3, QuietNet DEF IInv
  <2>4. CASE HandleSocketEvent
    BY <2>1, <2>2, <2>4, HandleNet DEF IInv
  <2>5. CASE Broker
    <3>1. PICK t \in Tids : \/ BrokerReads(t) \/ BrokerMixesUp(t) \/ BrokerCloses(t)
                            \/ \E c \in Calls : BrokerAnswers(t, c)
      BY <2>5 DEF Broker
    <3>2. CallersOK' /\ WireOK' /\ BodyOK' /\ PlacesOK'
      BY <2>1, <3>1, BrokerReadsNet, BrokerMixesUpNet, BrokerClosesNet, BrokerAnswersNet
    <3>3. QED BY <2>1, <2>2, <3>2 DEF IInv
  <2>6. QED BY <1>2, <2>3, <2>4, <2>5 DEF EventThread
<1>3. CASE UNCHANGED vars
  BY <1>3, StutterIInv
<1>4. QED BY <1>1, <1>2, <1>3 DEF Next, CallerStep

\* The whole inductive invariant holds of every state.
LEMMA IInvHolds == Spec => []IInv
<1> QED BY InitIInv, NextIInv, PTL DEF Spec

\* In every behaviour of the remoting client a future's reference count is the
\* number of its holders, caller, table entry and worker, whatever the order of
\* response, time-out and failed send: no future is freed while it is held and
\* none is leaked, and a synchronous call that has come back has no entry left
\* in the response table.
THEOREM RefsExactHolds == Spec => []RefsExact
<1> IInv => RefsExact
  BY DEF IInv
<1> QED BY IInvHolds, PTL

-----------------------------------------------------------------------------
(* The remoting layer implements RpcCalls. *)

\* How the calls look to RpcCalls.
StatusMap == [c \in Calls |-> Status(c)]

\* A step that changes how one call looks, and no other.
LEMMA OneStatus ==
    ASSUME NEW c \in Calls, NEW v, Status(c)' = v, \A d \in Calls \ {c} : Status(d)' = Status(d)
    PROVE  StatusMap' = [StatusMap EXCEPT ![c] = v]
<1> DEFINE f(d) == Status(d)'
           g(d) == Status(d)
<1> SUFFICES [d \in Calls |-> f(d)] = [[d \in Calls |-> g(d)] EXCEPT ![c] = v]
  BY DEF StatusMap
<1>1. f(c) = v /\ \A d \in Calls \ {c} : f(d) = g(d)
  OBVIOUS
<1> HIDE DEF f, g
<1>2. QED BY <1>1

\* A step that changes how no call looks.
LEMMA SameStatus ==
    ASSUME \A d \in Calls : Status(d)' = Status(d)
    PROVE  StatusMap' = StatusMap
<1> DEFINE f(d) == Status(d)'
           g(d) == Status(d)
<1> SUFFICES [d \in Calls |-> f(d)] = [d \in Calls |-> g(d)]
  BY DEF StatusMap
<1>1. \A d \in Calls : f(d) = g(d)
  OBVIOUS
<1> HIDE DEF f, g
<1>2. QED BY <1>1

\* What the caller of a call does is a step of RpcCalls or changes nothing there.
LEMMA CallerImplements ==
    ASSUME IInv, IInv', NEW c \in Calls, CallerStep(c)
    PROVE  Abstract!Next \/ UNCHANGED Abstract!vars
<1> USE DEF Goto, caller
<1>0. TypeOK /\ CallersOK /\ PlaceOK(c)
  BY DEF IInv, PlacesOK
<1>1. UNCHANGED <<answered, mixed, called>>
  BY DEF CallerStep, GetAndCreateTransport, InvokeStep, FindTransport, Connect, Connected, ConnectFails,
         UpdateEvent, RemoveTTS, UseAfterFree, Invoke, InvokeDisconnected, SendHead, SendBody,
         SendFails, AfterSendFailed, SentAsync, WaitBegins, WaitEnds, SyncReturns, history
<1>2. \A d \in Calls \ {c} : Status(d)' = Status(d)
  <2>1. \A d \in Calls \ {c} : pc'[d] = pc[d] /\ got'[d] = got[d]
    BY <1>0 DEF CallerStep, GetAndCreateTransport, InvokeStep, FindTransport, Connect, Connected, ConnectFails,
         UpdateEvent, RemoveTTS, UseAfterFree, Invoke, InvokeDisconnected, SendHead, SendBody,
         SendFails, AfterSendFailed, SentAsync, WaitBegins, WaitEnds, SyncReturns, TypeOK
  <2>2. QED BY <1>1, <2>1 DEF Status
<1>3. ASSUME Status(c) = "idle", Status(c)' = "pending" PROVE Abstract!Next
  <2>1. StatusMap' = [StatusMap EXCEPT ![c] = "pending"] /\ StatusMap[c] = "idle"
    BY <1>2, <1>3, OneStatus DEF StatusMap
  <2>2. Abstract!Issue(c)
    BY <1>1, <2>1 DEF Abstract!Issue, StatusMap
  <2>3. QED BY <2>2 DEF Abstract!Next
<1>4. ASSUME Status(c) \in {"idle", "pending"}, Status(c)' = "noAnswer" PROVE Abstract!Next
  <2>1. StatusMap' = [StatusMap EXCEPT ![c] = "noAnswer"] /\ StatusMap[c] \in {"idle", "pending"}
    BY <1>2, <1>4, OneStatus DEF StatusMap
  <2>2. Abstract!EndWithout(c)
    BY <1>1, <2>1 DEF Abstract!EndWithout, StatusMap
  <2>3. QED BY <2>2 DEF Abstract!Next
<1>5. ASSUME Status(c) = "pending", Status(c)' = "answer", c \in answered PROVE Abstract!Next
  <2>1. StatusMap' = [StatusMap EXCEPT ![c] = "answer"] /\ StatusMap[c] = "pending"
    BY <1>2, <1>5, OneStatus DEF StatusMap
  <2>2. Abstract!EndWithAnswer(c)
    BY <1>1, <1>5, <2>1 DEF Abstract!EndWithAnswer, StatusMap
  <2>3. QED BY <2>2 DEF Abstract!Next
<1>6. ASSUME c \in mixed, Status(c)' = "both" PROVE Abstract!Next
  <2>1. StatusMap' = [StatusMap EXCEPT ![c] = "both"]
    BY <1>2, <1>6, OneStatus
  <2>2. Abstract!MixedEnds(c)
    BY <1>1, <1>6, <2>1 DEF Abstract!MixedEnds, Abstract!Ended, StatusMap
  <2>3. QED BY <2>2 DEF Abstract!Next
<1>7. ASSUME Status(c)' = Status(c) PROVE UNCHANGED Abstract!vars
  <2>1. StatusMap' = StatusMap
    BY <1>2, <1>7, SameStatus
  <2>2. QED BY <1>1, <2>1 DEF Abstract!vars, StatusMap
<1>8. pc[c] \in Unsent => ~called[c]
  BY <1>0 DEF PlaceOK
<1>9. pc \in [Calls -> Stages] /\ got \in [Calls -> BOOLEAN]
  BY <1>0 DEF TypeOK
<1>10. CASE FindTransport(c) \/ Connect(c)
  <2>1. pc[c] = "idle" /\ pc'[c] \in {"check", "connecting"} /\ ~called[c]
    BY <1>8, <1>9, <1>10 DEF FindTransport, Connect, Unsent, NoFuture
  <2>2. QED BY <1>1, <1>3, <2>1 DEF Status
<1>11. CASE ConnectFails(c) \/ RemoveTTS(c)
  <2>1. pc[c] \in {"connecting", "remove"} /\ pc'[c] = "failed" /\ ~called[c]
    BY <1>8, <1>9, <1>11 DEF ConnectFails, RemoveTTS, Unsent, NoFuture
  <2>2. QED BY <1>1, <1>4, <2>1 DEF Status
<1>12. CASE \/ Connected(c) \/ UpdateEvent(c) \/ Invoke(c) \/ InvokeDisconnected(c)
            \/ SendHead(c) \/ SendBody(c) \/ SendFails(c)
  <2>1. {pc[c], pc'[c]} \cap {"idle", "failed", "returned"} = {}
    BY <1>9, <1>12 DEF Connected, UpdateEvent, Invoke, InvokeDisconnected, SendHead, SendBody, SendFails
  <2>2. QED BY <1>1, <1>7, <2>1 DEF Status
<1>13. CASE UseAfterFree(c)
  BY <1>1, <1>7, <1>13 DEF UseAfterFree, Status
<1>14. CASE WaitBegins(c) \/ WaitEnds(c)
  <2>1. {pc[c], pc'[c]} \cap {"idle", "failed", "returned"} = {}
    BY <1>9, <1>14 DEF WaitBegins, WaitEnds
  <2>2. QED BY <1>1, <1>7, <2>1 DEF Status
<1>15. CASE AfterSendFailed(c)
  <2>1. /\ pc[c] = "sendFailed"
        /\ pc'[c] = IF Registered(c) THEN "failed" ELSE "returned"
    BY <1>9, <1>15 DEF AfterSendFailed
  <2>2. CASE Kind[c] = "async" /\ called[c]
    <3>1. c \in answered /\ c \in mixed
      BY <1>0, <2>1, <2>2 DEF PlaceOK, WholeSent
    <3>2. Status(c)' = "both"
      BY <1>1, <2>1, <2>2 DEF Status, Registered
    <3>3. QED BY <1>6, <3>1, <3>2
  <2>3. CASE ~(Kind[c] = "async" /\ called[c])
    <3>1. Status(c) = "pending"
      BY <2>1, <2>3 DEF Status
    <3>2. Status(c)' = "noAnswer"
      BY <1>1, <2>1, <2>3 DEF Status, Registered
    <3>3. QED BY <1>4, <3>1, <3>2
  <2>4. QED BY <2>2, <2>3
<1>16. CASE SentAsync(c)
  <2>1. pc[c] = "sent" /\ pc'[c] = "returned" /\ Kind[c] # "sync"
    BY <1>9, <1>16 DEF SentAsync
  <2>2. CASE Kind[c] = "async"
    BY <1>1, <1>7, <2>1, <2>2 DEF Status
  <2>3. CASE Kind[c] = "oneway"
    BY <1>1, <1>4, <2>1, <2>3 DEF Status
  <2>4. QED BY <2>1, <2>2, <2>3, RemotingAssumption
<1>17. CASE SyncReturns(c)
  <2>1. pc[c] = "cleanup" /\ pc'[c] = "returned" /\ got'[c] = got[c] /\ Kind[c] = "sync"
    BY <1>0, <1>9, <1>17 DEF SyncReturns, CallersOK
  <2>2. Status(c) = "pending" /\ Status(c)' = IF got[c] THEN "answer" ELSE "noAnswer"
    BY <1>1, <2>1 DEF Status
  <2>3. got[c] => c \in answered
    BY <1>0 DEF PlaceOK
  <2>4. QED BY <1>4, <1>5, <2>2, <2>3
<1>18. QED BY <1>10, <1>11, <1>12, <1>13, <1>14, <1>15, <1>16, <1>17
              DEF CallerStep, GetAndCreateTransport, InvokeStep

\* The callback of an asynchronous call is its end; the rest of what workers do
\* is hidden.
LEMMA WorkerImplements ==
    ASSUME IInv, NEW c \in Calls, Worker(c)
    PROVE  Abstract!Next \/ UNCHANGED Abstract!vars
<1>0. TypeOK /\ PlaceOK(c)
  BY DEF IInv, PlacesOK
<1>1. UNCHANGED <<answered, mixed, pc, got>>
  BY DEF Worker, ProcessData, ProcessResponseCommand, PutResponse, Notify, ExecuteInvokeCallback,
         history, caller
<1>2. ASSUME \A d \in Calls : Status(d)' = Status(d) PROVE UNCHANGED Abstract!vars
  <2>1. StatusMap' = StatusMap
    BY <1>2, SameStatus
  <2>2. QED BY <1>1, <2>1 DEF Abstract!vars, StatusMap
<1>3. CASE ProcessData(c) \/ ProcessResponseCommand(c) \/ PutResponse(c) \/ Notify(c)
  <2>1. called' = called
    BY <1>3 DEF ProcessData, ProcessResponseCommand, PutResponse, Notify
  <2>2. QED BY <1>1, <1>2, <2>1 DEF Status
<1>4. CASE ExecuteInvokeCallback(c)
  <2>1. called'[c] = (Kind[c] = "async") /\ \A d \in Calls \ {c} : called'[d] = called[d]
    BY <1>0, <1>4 DEF ExecuteInvokeCallback, TypeOK
  <2>2. \A d \in Calls \ {c} : Status(d)' = Status(d)
    BY <1>1, <2>1 DEF Status
  <2>3. c \in answered /\ pc[c] # "idle" /\ (pc[c] = "failed" => c \in mixed)
    BY <1>0, <1>4 DEF ExecuteInvokeCallback, PlaceOK, Unsent, NoFuture, WholeSent
  <2>4. CASE Kind[c] # "async" \/ called[c]
    <3>1. Status(c)' = Status(c)
      BY <1>1, <2>1, <2>4 DEF Status
    <3>2. QED BY <1>2, <2>2, <3>1
  <2>5. CASE Kind[c] = "async" /\ ~called[c] /\ pc[c] = "failed"
    <3>1. Status(c)' = "both"
      BY <1>1, <2>1, <2>5 DEF Status
    <3>2. StatusMap' = [StatusMap EXCEPT ![c] = "both"]
      BY <2>2, <3>1, OneStatus
    <3>3. Abstract!MixedEnds(c)
      BY <1>1, <2>3, <2>5, <3>2 DEF Abstract!MixedEnds, Abstract!Ended, StatusMap
    <3>4. QED BY <3>3 DEF Abstract!Next
  <2>6. CASE Kind[c] = "async" /\ ~called[c] /\ pc[c] # "failed"
    <3>1. Status(c) = "pending" /\ Status(c)' = "answer"
      BY <1>1, <2>1, <2>3, <2>6 DEF Status
    <3>2. StatusMap' = [StatusMap EXCEPT ![c] = "answer"] /\ StatusMap[c] = "pending"
      BY <2>2, <3>1, OneStatus DEF StatusMap
    <3>3. Abstract!EndWithAnswer(c)
      BY <1>1, <2>3, <3>2 DEF Abstract!EndWithAnswer, StatusMap
    <3>4. QED BY <3>3 DEF Abstract!Next
  <2>7. QED BY <2>4, <2>5, <2>6
<1>5. QED BY <1>3, <1>4 DEF Worker

\* Brokers answer calls and mix them up; they end none.
LEMMA BrokerImplements ==
    ASSUME IInv, Broker
    PROVE  Abstract!Next \/ UNCHANGED Abstract!vars
<1>0. TypeOK /\ BodyOK /\ PlacesOK
  BY DEF IInv
<1>1. UNCHANGED <<pc, got, called>>
  BY DEF Broker, BrokerReads, BrokerMixesUp, BrokerCloses, BrokerAnswers, caller
<1>2. StatusMap' = StatusMap
  <2>1. \A d \in Calls : Status(d)' = Status(d)
    BY <1>1 DEF Status
  <2>2. QED BY <2>1, SameStatus
<1>3. ASSUME NEW t \in Tids, BrokerReads(t) \/ BrokerCloses(t) PROVE UNCHANGED Abstract!vars
  <2>1. UNCHANGED <<answered, mixed>>
    BY <1>3 DEF BrokerReads, BrokerCloses, history
  <2>2. QED BY <1>2, <2>1 DEF Abstract!vars, StatusMap
<1>4. ASSUME NEW t \in Tids, NEW c \in Calls, BrokerAnswers(t, c) PROVE Abstract!Next
  <2>1. AtBroker(c)
    BY <1>4 DEF BrokerAnswers, AtBroker
  <2>2. Registered(c) /\ c \notin answered /\ pc[c] # "idle"
    BY <1>0, <2>1 DEF PlacesOK, PlaceOK, WholeSent
  <2>3. Status(c) # "idle" /\ StatusMap[c] = Status(c)
    BY <2>2 DEF Status, StatusMap
  <2>4. Abstract!Answer(c)
    BY <1>2, <1>4, <2>2, <2>3 DEF Abstract!Answer, BrokerAnswers, StatusMap, Registered
  <2>5. QED BY <2>4 DEF Abstract!Next
<1>5. ASSUME NEW t \in Tids, BrokerMixesUp(t) PROVE Abstract!Next
  <2> DEFINE S == {wire[t][i][1] : i \in DOMAIN wire[t]}
             c == wire[t][1][1]
  <2>1. S \in SUBSET Calls
    BY <1>0, PieceType
  <2>2. 1 \in DOMAIN wire[t]
    <3>1. wire[t] # <<>> /\ ~peerClosed[t]
      <4>1. Len(wire[t]) >= 2 /\ ~peerClosed[t] /\ Len(<<>>) = 0
        BY <1>5 DEF BrokerMixesUp, Up
      <4>2. QED BY <4>1
    <3>2. QED BY <1>0, <3>1, HeadInFront
  <2>3. c \in S
    BY <2>2
  <2>4. /\ mixed' = mixed \cup S
        /\ answered' = answered \/ (Registered(c) /\ answered' = answered \cup {c})
    BY <1>5 DEF BrokerMixesUp
  <2>5. c \in Calls
    BY <2>1, <2>3
  <2> HIDE DEF S, c
  <2>6. \E A \in SUBSET (S \ {d \in Calls : Kind[d] = "oneway"}) : answered' = answered \cup A
    <3>1. CASE answered' = answered
      <4>1. {} \in SUBSET (S \ {d \in Calls : Kind[d] = "oneway"}) /\ answered' = answered \cup {}
        BY <3>1
      <4>2. QED BY <4>1
    <3>2. CASE Registered(c) /\ answered' = answered \cup {c}
      BY <2>3, <3>2 DEF Registered
    <3>3. QED BY <2>4, <3>1, <3>2
  <2>7. Abstract!Mix(S)
    BY <1>2, <2>4, <2>6 DEF Abstract!Mix, StatusMap
  <2>8. QED BY <2>1, <2>7 DEF Abstract!Next
<1>6. QED BY <1>3, <1>4, <1>5 DEF Broker

\* The remoting layer implements RpcCalls: whatever the interleaving of callers,
\* event thread, workers, time-outs and brokers, for any number of calls and
\* connections, a call whose bytes were not mixed up with another's ends at most
\* once, and with an answer only if the broker answered this very call.
THEOREM ImplementsRpcCalls == Spec => AbstractSpec
<1>1. Init => Abstract!Init
  <2> SUFFICES ASSUME Init PROVE Abstract!Init
    OBVIOUS
  <2>1. \A c \in Calls : Status(c) = "idle"
    BY DEF Init, Status
  <2>2. [c \in Calls |-> Status(c)] = [c \in Calls |-> "idle"]
    BY <2>1
  <2>3. QED BY <2>2 DEF Init, Abstract!Init
<1>2. IInv /\ IInv' /\ [Next]_vars => [Abstract!Next]_Abstract!vars
  <2> SUFFICES ASSUME IInv, IInv', [Next]_vars PROVE Abstract!Next \/ UNCHANGED Abstract!vars
    OBVIOUS
  <2>1. ASSUME NEW c \in Calls, CallerStep(c) PROVE Abstract!Next \/ UNCHANGED Abstract!vars
    BY <2>1, CallerImplements
  <2>2. ASSUME NEW c \in Calls, Worker(c) PROVE Abstract!Next \/ UNCHANGED Abstract!vars
    BY <2>2, WorkerImplements
  <2>3. CASE EventThread \/ Shutdown \/ UNCHANGED vars
    <3>1. UNCHANGED <<pc, got, called, answered, mixed>>
      BY <2>3 DEF EventThread, RunSelect, HandleSocketEvent, Shutdown, vars, caller, history
    <3>2. \A d \in Calls : Status(d)' = Status(d)
      BY <3>1 DEF Status
    <3>3. StatusMap' = StatusMap
      BY <3>2, SameStatus
    <3>4. QED BY <3>1, <3>3 DEF Abstract!vars, StatusMap
  <2>4. CASE Broker
    BY <2>4, BrokerImplements
  <2>5. QED BY <2>1, <2>2, <2>3, <2>4 DEF Next, CallerStep
<1>3. QED BY <1>1, <1>2, IInvHolds, PTL DEF Spec, AbstractSpec, Abstract!Spec
=============================================================================
