----------------------------- MODULE PullClient -----------------------------
(***************************************************************************)
(* One pull of a queue: DefaultMQPullConsumerImpl over PullAPIWrapper and  *)
(* the pull part of MQClientAPIImpl, which the push consumer shares.       *)
(*                                                                         *)
(* A broker is a set of replicas with ids, Master among them.  The client  *)
(* pulls from the replica that the last answer suggested, or from the      *)
(* first address it knows; decodes the messages out of the body of the     *)
(* answer; and filters them by their tags once more.                       *)
(***************************************************************************)
EXTENDS Integers, Sequences, SequencesExt, FiniteSetsExt

CONSTANTS
    Ids,          \* the ids of the broker's replicas
    Tags,
    None,
    Messages,     \* kinds of messages: [tag, body, wire] with the length of the body
                  \*   and, less when it is compressed, of what is stored of it
    MaxBatch,     \* bound: messages in an answer
    FixedSize,    \* the length of a message without body and topic
    TopicLengths, \* the lengths a topic may have (up to 255 in the code)
    CharMax,      \* SCHAR_MAX
    MaxChanges,   \* bound: changes of the running replicas
    MaxLost       \* bound: requests a running replica does not answer

ASSUME PullAssumption ==
    /\ \A m \in Messages : m.wire \in Nat
    /\ FixedSize \in Nat \ {0} /\ TopicLengths \subseteq Nat /\ MaxBatch \in Nat

\* MixAll::MASTER_ID
Master == 0

VARIABLES
    alive,     \* the replicas that run; the name server lists them
    table,     \* the ids in m_brokerAddrTable's entry, {} without an entry
    node,      \* m_pullFromWhichNodeTable's entry, or None
    subscribed,\* whether the subscription table has the topic
    topicLen,  \* the length of the queue's topic
    step, mode, tags, to, \* the pull that is under way
    batch,     \* history: the messages of the last answer
    offset,    \* the position of decodes in the body of the answer
    list,      \* msgList: what was decoded, and then what is left of it
    it,        \* the position of the filter in list
    found,     \* msgListFilterAgain
    result,    \* how the last pull ended, or None
    changes, lost

request  == <<mode, tags, to>>
answer   == <<batch, offset, list, it, found>>
outside  == <<alive, table, topicLen, changes>>
pullVars == <<outside, node, subscribed, step, request, answer, result, lost>>

PullInit ==
    /\ alive = Ids /\ table \in {Ids, {}} /\ node = None /\ subscribed = FALSE
    /\ topicLen \in TopicLengths
    /\ step = "idle" /\ mode = "sync" /\ tags = {} /\ to = None
    /\ batch = <<>> /\ offset = 0 /\ list = <<>> /\ it = 1 /\ found = <<>> /\ result = None
    /\ changes = 0 /\ lost = 0

\* The pull is over: its locals are gone.
End(where, how) ==
    /\ step' = where /\ result' = how
    /\ mode' = "sync" /\ tags' = {} /\ to' = None
    /\ batch' = <<>> /\ offset' = 0 /\ list' = <<>> /\ it' = 1 /\ found' = <<>>
-----------------------------------------------------------------------------
(* Outside. *)

AliveChanges(S) ==
    /\ changes < MaxChanges /\ changes' = changes + 1
    /\ alive' = S
    /\ UNCHANGED <<table, topicLen, node, subscribed, step, request, answer, result, lost>>

\* The refresh of a route that names the broker, and the cleaning of the address
\* table.  The timer does it for topics of producers and push consumers only:
\* subscriptions() of the pull consumer is a TODO in the code.
RouteRefreshes ==
    /\ table' = alive
    /\ UNCHANGED <<alive, topicLen, changes, node, subscribed, step, request, answer, result, lost>>
-----------------------------------------------------------------------------
(* The request. *)

\* subscriptionAutomatically enters the topic in the table of the rebalance, which
\* neither heartbeats nor the timer read for a pull consumer.
SubscriptionAutomatically == subscribed' = TRUE

\* pullSyncImpl and pullAsyncImpl of a running consumer.  tags is what
\* buildSubscriptionData makes of the expression, {} for "*".  An asynchronous
\* pull whose answer is lost is never called back: the application pulls again.
Pull(how, sub) ==
    /\ step \in {"idle", "silent"}
    /\ SubscriptionAutomatically
    /\ mode' = how /\ tags' = sub /\ step' = "find" /\ result' = None
    /\ UNCHANGED <<outside, node, to, answer, lost>>

RecalculatePullFromWhichNode == IF node = None THEN Master ELSE node

\* Mutant: only the replica that was asked for will do.
FindSuggestedOnly(known, id) == IF id \in known THEN id ELSE None

\* The address of the replica asked for, or else the first one of the table.
FindBrokerAddressInSubscribe(known, id) ==
    CASE known = {}  -> None
      [] id \in known -> id
      [] OTHER        -> Min(known)

\* pullKernelImpl up to the call; without an address it updates the route and
\* looks once more, and then throws.
PullKernelImpl ==
    LET first == FindBrokerAddressInSubscribe(table, RecalculatePullFromWhichNode)
        send(id) == to' = id /\ step' = "sent" /\ UNCHANGED <<mode, tags, answer, result>>
    IN  /\ step = "find"
        /\ \/ first # None /\ send(first) /\ UNCHANGED table
           \/ /\ first = None
              /\ table' \in {table, alive}
              /\ LET second == FindBrokerAddressInSubscribe(table', RecalculatePullFromWhichNode)
                 IN  IF second # None THEN send(second) ELSE End("idle", "no broker")
        /\ UNCHANGED <<alive, topicLen, changes, node, subscribed, lost>>

\* The connect to the replica or the name server, which has no time limit.
ConnectHangs ==
    /\ step = "find" /\ End("hung", None)
    /\ UNCHANGED <<outside, node, subscribed, lost>>
-----------------------------------------------------------------------------
(* The answer. *)

\* Any batch: brokers filter by hash codes of tags, and the push consumer's pulls
\* by the subscription of its last heartbeat, which may be an older one.
Batches == UNION {[1 .. n -> Messages] : n \in 1 .. MaxBatch}

Answers == step = "sent" /\ to \in alive

\* SUCCESS: processPullResult notes the suggestion and takes the messages.
Found(b, suggested) ==
    /\ Answers
    /\ node' = suggested /\ batch' = b /\ step' = "decode"
    /\ UNCHANGED <<outside, subscribed, request, offset, list, it, found, result, lost>>

\* PULL_NOT_FOUND, PULL_RETRY_IMMEDIATELY, PULL_OFFSET_MOVED.
NotFound(suggested) ==
    /\ Answers
    /\ node' = suggested /\ End("idle", "not found")
    /\ UNCHANGED <<outside, subscribed, lost>>

\* processPullResponse throws MQBrokerException for any other code; the callback's
\* onException gets it from an asynchronous pull.
Refused ==
    /\ Answers
    /\ End("idle", "broker exception")
    /\ UNCHANGED <<outside, node, subscribed, lost>>

\* No answer: pullMessageSync passes NULL to processPullResponse, which reads its
\* code.  An asynchronous pull hears of a failed send and of nothing else.
Lost ==
    /\ step = "sent" /\ (to \in alive => lost < MaxLost)
    /\ lost' = IF to \in alive THEN lost + 1 ELSE lost
    /\ IF mode = "sync" THEN End("crashed", None)
       ELSE End("idle", "client exception") \/ End("silent", None)
    /\ UNCHANGED <<outside, node, subscribed>>
-----------------------------------------------------------------------------
(* MessageDecoder::decodes: the messages lie one behind the other, and each *)
(* is as long as its fields say.                                           *)

SizeOf(m) == FixedSize + m.wire + topicLen

\* How long the first i messages of b are together.
LengthOf(b) ==
    LET f[i \in 0 .. Len(b)] == IF i = 0 THEN 0 ELSE f[i - 1] + SizeOf(b[i]) IN f

\* Message i of b begins at pos.
BeginsAt(b, i, pos) == LengthOf(b)[i - 1] = pos

\* Mutant: the length of the body that was unpacked.
DecodedSizeUnpacked(m) == FixedSize + m.body + topicLen

\* How far decode moves on.
DecodedSize(m) == FixedSize + m.wire + topicLen

\* The length of the topic is read as a char, which is signed: of a longer topic
\* decode makes NULL and leaves the next position undefined.
DecodeFails ==
    /\ step = "decode" /\ topicLen > CharMax /\ End("crashed", None)
    /\ UNCHANGED <<outside, node, subscribed, lost>>

Decode ==
    /\ step = "decode" /\ topicLen <= CharMax /\ offset < LengthOf(batch)[Len(batch)]
    /\ \E i \in DOMAIN batch :
          /\ BeginsAt(batch, i, offset)
          /\ list' = Append(list, batch[i]) /\ offset' = offset + DecodedSize(batch[i])
    /\ UNCHANGED <<outside, node, subscribed, step, request, batch, it, found, result, lost>>

\* The end of the body.
DecodeEnds ==
    /\ step = "decode" /\ topicLen <= CharMax /\ offset >= LengthOf(batch)[Len(batch)]
    /\ step' = "filter"
    /\ UNCHANGED <<outside, node, subscribed, request, answer, result, lost>>
-----------------------------------------------------------------------------
(* processPullResult's filter.  A message without a tag that meets a tag   *)
(* filter is neither taken nor passed: the loop does not end.              *)

FilterAll ==
    /\ step = "filter" /\ tags = {}
    /\ found' = list /\ list' = <<>> /\ it' = 1 /\ step' = "return"
    /\ UNCHANGED <<outside, node, subscribed, request, batch, offset, result, lost>>

Filtering == step = "filter" /\ tags # {} /\ it <= Len(list)

\* Mutant: the iterator moves on although erase has moved it.
FilterTakesAndAdvances ==
    /\ Filtering /\ list[it].tag \in tags
    /\ found' = Append(found, list[it]) /\ list' = RemoveAt(list, it) /\ it' = it + 1
    /\ UNCHANGED <<outside, node, subscribed, step, request, batch, offset, result, lost>>

FilterTakes ==
    /\ Filtering /\ list[it].tag \in tags
    /\ found' = Append(found, list[it]) /\ list' = RemoveAt(list, it) /\ it' = it
    /\ UNCHANGED <<outside, node, subscribed, step, request, batch, offset, result, lost>>

FilterPasses ==
    /\ Filtering /\ list[it].tag \notin tags \cup {None}
    /\ it' = it + 1
    /\ UNCHANGED <<outside, node, subscribed, step, request, batch, offset, list, found, result, lost>>

FilterEnds ==
    /\ step = "filter" /\ tags # {} /\ it > Len(list)
    /\ step' = "return"
    /\ UNCHANGED <<outside, node, subscribed, request, answer, result, lost>>

\* What is left of list is deleted; found goes to the application, through the
\* callback's onSuccess of an asynchronous pull.
Returns ==
    /\ step = "return" /\ End("idle", "found")
    /\ UNCHANGED <<outside, node, subscribed, lost>>

Filter == FilterAll \/ FilterTakes \/ FilterPasses \/ FilterEnds \/ Returns

Process == DecodeFails \/ Decode \/ DecodeEnds \/ Filter

Answered ==
    \/ \E id \in Ids : NotFound(id) \/ \E b \in Batches : Found(b, id)
    \/ Refused \/ Lost

Pulls == \E how \in {"sync", "async"}, sub \in SUBSET Tags : Pull(how, sub)

PullNext ==
    \/ \E S \in SUBSET Ids : AliveChanges(S)
    \/ RouteRefreshes \/ Pulls \/ PullKernelImpl \/ ConnectHangs \/ Answered \/ Process

PullSpec == PullInit /\ [][PullNext]_pullVars

\* The application pulls again and again, and running replicas answer.  Nothing is
\* assumed of the route.
FairPullSpec ==
    /\ PullSpec
    /\ WF_pullVars(Pulls) /\ WF_pullVars(PullKernelImpl)
    /\ WF_pullVars(Answered) /\ WF_pullVars(Process)
-----------------------------------------------------------------------------
(* Properties. *)

Wanted(m) == tags = {} \/ m.tag \in tags

\* s is what b has at the places of S, in its order.
Picks(s, b, S) ==
    \E f \in [1 .. Len(s) -> DOMAIN b] :
       /\ \A i, j \in 1 .. Len(s) : i < j => f[i] < f[j]
       /\ S = {f[i] : i \in 1 .. Len(s)}
       /\ \A i \in 1 .. Len(s) : s[i] = b[f[i]]

\* The application gets exactly the messages of the answer that its tags name, in
\* their order, and exactly the others are deleted: none is lost, handed out
\* twice or handed out and deleted, packed or not.
FilterExact ==
    step = "return" =>
       /\ Picks(found, batch, {i \in DOMAIN batch : Wanted(batch[i])})
       /\ Picks(list, batch, {i \in DOMAIN batch : ~Wanted(batch[i])})

\* A message without a tag under a tag filter.
Stuck == step = "filter" /\ tags # {} /\ \E i \in DOMAIN batch : batch[i].tag = None

Served == result \in {"found", "not found", "broker exception"}

\* Whatever replica the last answer suggested and whatever has become of it, pulls
\* reach the broker again once the address table names running replicas and no
\* others, unless the process has died of an answer that did not come, the filter
\* loops on a message without a tag or a connect hangs.  The code does not promise
\* that the table comes to that: a replica that has gone stays in it as long as no
\* producer or push consumer has the route refreshed.
PullsGoOn ==
    <>[](table # {} /\ table \subseteq alive)
       => []<>(Served \/ step \in {"crashed", "hung"} \/ Stuck)
=============================================================================
