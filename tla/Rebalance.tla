------------------------------ MODULE Rebalance ------------------------------
(***************************************************************************)
(* Which client of a consumer group consumes which queue of a topic.       *)
(* Every client fetches the topic's route, is registered at the broker by  *)
(* its heartbeats, asks the broker for the members of the group, and       *)
(* allocates the queues to itself by a deterministic rule.  Nobody         *)
(* coordinates: clients join, crash, lose heartbeats and act on lists that *)
(* are out of date.                                                        *)
(***************************************************************************)
EXTENDS Integers, FiniteSets

CONSTANTS
    Clients,       \* client ids, as numbers: cidAll is sorted
    InitQueues, MaxQueues,  \* readable queues of the topic, at first and at most
    Broadcasting,  \* the message model
    SharedRoute,   \* another user of the factory, a producer, needs the topic too
    MaxChanges     \* bound: joins, crashes, lost heartbeats and new queues

ASSUME RebalanceAssumption ==
    /\ Clients \subseteq Nat /\ IsFiniteSet(Clients)
    /\ InitQueues \in Nat \ {0} /\ MaxQueues \in Nat /\ InitQueues <= MaxQueues
    /\ Broadcasting \in BOOLEAN /\ SharedRoute \in BOOLEAN /\ MaxChanges \in Nat

None == 0   \* no entry for the topic

VARIABLES
    queues,        \* number of readable queues the name server knows
    running,       \* clients whose consumer is started and subscribed
    registered,    \* clients the broker lists for the group
    routeTable,    \* client -> queues in m_topicRouteTable's entry, or None
    subscribeInfo, \* client -> queues in m_topicSubscribeInfoTable's entry, or None
    cidAll,        \* client -> the list its rebalance works with, {} if none is going on
    assigned,      \* client -> the queues in its process queue table
    settled,       \* history: clients whose last rebalance was complete and used the
                   \* present members and queues
    changes

group  == <<running, registered>>
tables == <<routeTable, subscribeInfo>>
vars   == <<queues, group, tables, cidAll, assigned, settled, changes>>

Init ==
    /\ queues = InitQueues /\ running = {} /\ registered = {}
    /\ routeTable = [c \in Clients |-> None] /\ subscribeInfo = [c \in Clients |-> None]
    /\ cidAll = [c \in Clients |-> {}] /\ assigned = [c \in Clients |-> {}]
    /\ settled = {} /\ changes = 0

(***************************************************************************)
(* AllocateMessageQueueAveragely: client number index of k gets a run of   *)
(* the n queues, which are numbered from 0.                                *)
(***************************************************************************)
AverageSize(n, k, index) ==
    IF n <= k THEN 1 ELSE n \div k + IF index < n % k THEN 1 ELSE 0

\* Mutant: the clients that get a queue more are not counted.
StartIndexNoMod(n, k, index) == index * AverageSize(n, k, index)

StartIndex(n, k, index) ==
    index * AverageSize(n, k, index) + IF index < n % k THEN 0 ELSE n % k

Allocated(n, k, index) ==
    {q \in 0 .. n - 1 : /\ StartIndex(n, k, index) <= q
                        /\ q < StartIndex(n, k, index) + AverageSize(n, k, index)}

\* A client that the list does not name gets nothing.
Allocate(c, n, cids) ==
    IF c \in cids THEN Allocated(n, Cardinality(cids), Cardinality({d \in cids : d < c})) ELSE {}

(***************************************************************************)
(* Members.                                                                *)
(***************************************************************************)
Changed == changes < MaxChanges /\ changes' = changes + 1

\* start and subscribe.  The route update, the heartbeat and the rebalance that
\* start asks for may each fail; they are steps of their own below.
Start(c) ==
    /\ c \notin running /\ Changed
    /\ running' = running \cup {c}
    /\ UNCHANGED <<queues, registered, tables, cidAll, assigned, settled>>

\* The process ends, or is killed.
Crash(c) ==
    /\ c \in running /\ Changed
    /\ running' = running \ {c} /\ settled' = settled \ {c}
    /\ routeTable' = [routeTable EXCEPT ![c] = None]
    /\ subscribeInfo' = [subscribeInfo EXCEPT ![c] = None]
    /\ cidAll' = [cidAll EXCEPT ![c] = {}] /\ assigned' = [assigned EXCEPT ![c] = {}]
    /\ UNCHANGED <<queues, registered>>

\* The brokers that heartbeats go to are those of the routes.
SendHeartbeat(c) ==
    /\ c \in running \ registered /\ routeTable[c] # None
    /\ registered' = registered \cup {c} /\ settled' = {}
    /\ UNCHANGED <<queues, running, tables, cidAll, assigned, changes>>

\* The broker forgets a client that is gone, or whose heartbeats were lost.
BrokerExpires(c) ==
    /\ c \in registered
    /\ IF c \in running THEN Changed ELSE UNCHANGED changes
    /\ registered' = registered \ {c} /\ settled' = {}
    /\ UNCHANGED <<queues, running, tables, cidAll, assigned>>

\* A broker is added to the topic.
TopicGrows ==
    /\ queues < MaxQueues /\ Changed
    /\ queues' = queues + 1 /\ settled' = {}
    /\ UNCHANGED <<group, tables, cidAll, assigned>>

(***************************************************************************)
(* The route.                                                              *)
(***************************************************************************)

\* isNeedUpdateTopicRouteInfo asks every producer and consumer and returns
\* the false it started with.
IsNeedUpdateTopicRouteInfo(c) == FALSE

\* updateTopicSubscribeInfo inserts: an entry that is there stays.
UpdateTopicSubscribeInfo(c) ==
    subscribeInfo' = [subscribeInfo EXCEPT ![c] = IF c \in running /\ @ = None THEN queues ELSE @]

\* updateTopicRouteInfoFromNameServer, for the topics of the factory's consumers
\* and producers.
UpdateTopicRouteInfo(c) ==
    /\ c \in running \/ SharedRoute
    /\ routeTable[c] # queues \/ IsNeedUpdateTopicRouteInfo(c)
    /\ routeTable' = [routeTable EXCEPT ![c] = queues]
    /\ UpdateTopicSubscribeInfo(c)
    /\ UNCHANGED <<queues, group, cidAll, assigned, settled, changes>>

(***************************************************************************)
(* rebalanceByTopic.                                                       *)
(***************************************************************************)

\* The members that the broker lists.
GetConsumerIdListByGroup == registered

\* Mutant: a client that has queues does not ask again.
FindConsumerIdListOnce(c) ==
    /\ ~Broadcasting
    /\ c \in running /\ subscribeInfo[c] # None /\ cidAll[c] = {} /\ assigned[c] = {}
    /\ GetConsumerIdListByGroup # {}
    /\ cidAll' = [cidAll EXCEPT ![c] = GetConsumerIdListByGroup]
    /\ UNCHANGED <<queues, group, tables, assigned, settled, changes>>

\* An empty list, or no answer, leaves the process queue table as it is.
FindConsumerIdList(c) ==
    /\ ~Broadcasting
    /\ c \in running /\ subscribeInfo[c] # None /\ cidAll[c] = {}
    /\ GetConsumerIdListByGroup # {}
    /\ cidAll' = [cidAll EXCEPT ![c] = GetConsumerIdListByGroup]
    /\ UNCHANGED <<queues, group, tables, assigned, settled, changes>>

\* The queues that are to be in c's process queue table.
AllocateResult(c) ==
    IF Broadcasting THEN 0 .. subscribeInfo[c] - 1
    ELSE Allocate(c, subscribeInfo[c], cidAll[c])

\* The queues of the table that stay.
Keeps(c) == assigned[c] \cap AllocateResult(c)

\* The queues that are to enter the table.
NewQueues(c) == AllocateResult(c) \ assigned[c]

\* When broadcasting, every client takes the topic's queues and asks for no list.
MayUpdate(c) ==
    IF Broadcasting THEN c \in running /\ subscribeInfo[c] # None ELSE cidAll[c] # {}

\* updateProcessQueueTableInRebalance; computePullFromWhere works for the new
\* queues in S and fails for the others.
UpdateProcessQueueTable(c, S) ==
    /\ MayUpdate(c) /\ S \subseteq NewQueues(c)
    /\ assigned' = [assigned EXCEPT ![c] = Keeps(c) \cup S]
    /\ settled' = IF /\ S = NewQueues(c)
                     /\ Broadcasting \/ cidAll[c] = registered
                     /\ subscribeInfo[c] = queues
                  THEN settled \cup {c} ELSE settled \ {c}
    /\ cidAll' = [cidAll EXCEPT ![c] = {}]
    /\ UNCHANGED <<queues, group, tables, changes>>

UpdateCompletely(c) == UpdateProcessQueueTable(c, NewQueues(c))

-----------------------------------------------------------------------------
Next ==
    \/ TopicGrows
    \/ \E c \in Clients :
          \/ Start(c) \/ Crash(c) \/ SendHeartbeat(c) \/ BrokerExpires(c)
          \/ UpdateTopicRouteInfo(c) \/ FindConsumerIdList(c)
          \/ \E S \in SUBSET NewQueues(c) : UpdateProcessQueueTable(c, S)

Spec == Init /\ [][Next]_vars

\* Heartbeats, route updates and rebalances are periodic, and at least every
\* second call of them gets past the lock that is to keep them apart; a broker forgets
\* clients that are gone, and offsets that are asked for again and again are
\* answered in the end.
Fairness ==
    \A c \in Clients :
        /\ WF_vars(SendHeartbeat(c)) /\ WF_vars(UpdateTopicRouteInfo(c))
        /\ WF_vars(FindConsumerIdList(c)) /\ SF_vars(UpdateCompletely(c))
        /\ WF_vars(\E S \in SUBSET NewQueues(c) : UpdateProcessQueueTable(c, S))
        /\ WF_vars(BrokerExpires(c) /\ c \notin running)

FairSpec == Spec /\ Fairness

-----------------------------------------------------------------------------
Shared(c, d) == assigned[c] \cap assigned[d]

\* Every queue has one client, and none has two queues more than another; or all
\* clients have all queues, when broadcasting.
Balanced ==
    IF Broadcasting THEN \A c \in running : assigned[c] = 0 .. queues - 1
    ELSE /\ UNION {assigned[c] : c \in running} = 0 .. queues - 1
         /\ \A c, d \in running : c # d => Shared(c, d) = {}
         /\ \A c, d \in running : Cardinality(assigned[c]) <= Cardinality(assigned[d]) + 1

\* Clients that rebalanced completely with the same members and queues divide
\* the queues among them, evenly, although each decides for itself, whatever they
\* had before, and in whatever order they came.
SettledBalanced == running = registered /\ running # {} /\ running \subseteq settled => Balanced

\* Once nobody joins or leaves any more every queue of a topic that keeps its
\* queues gets a client, one only, and keeps it.
Settles == <>[](running # {} /\ queues = InitQueues) => <>[]Balanced
=============================================================================
