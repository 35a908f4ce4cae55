------------------------------- MODULE Routes -------------------------------
(***************************************************************************)
(* The routing side of MQClientFactory: the route of each topic, as the    *)
(* name server last told it, and the addresses of brokers.  The timer's    *)
(* threads refresh the routes of all topics, one after the other, and drop *)
(* the addresses of brokers no route names any more before they send the   *)
(* heartbeat; other threads (producers, Rebalance) ask for the route of a  *)
(* topic when they miss it.                                                *)
(*                                                                         *)
(* m_lockNamesrv and m_lockHeartbeat are taken with kpr::Mutex::TryLock,   *)
(* which returns pthread's 0 for success, and the callers take 0 for a     *)
(* failure: a free lock is taken and kept while the work is skipped, and   *)
(* with a lock that is held the work is done and the lock released.        *)
(*                                                                         *)
(* Every command goes through one remoting client, whose table of          *)
(* connections is locked while a connect is under way: one that never ends *)
(* holds up all the others.                                                *)
(*                                                                         *)
(* A route is the set of its brokers, each with one address; queues and    *)
(* permissions are Rebalance's and Producer's.                             *)
(***************************************************************************)
EXTENDS Integers, Sequences, FiniteSets

CONSTANTS
    Topics,     \* a sequence: the topics in the order of the std::set
    Brokers,
    Existing,   \* topic -> the brokers it is on when the client starts
    NoRoute,    \* a topic without an entry
    Down,       \* the brokers that do not answer heartbeats
    MaxChanges, \* bound: changes of the name server's routes
    MaxOthers   \* bound: routes other threads ask for, locks they take, requests that fail

TopicSet == {Topics[i] : i \in 1 .. Len(Topics)}

\* The inner producer of a factory registers its createTopicKey: there is a topic.
ASSUME RoutesAssumption ==
    /\ Topics \in Seq(TopicSet) /\ Topics # <<>>
    /\ Existing \in [TopicSet -> SUBSET Brokers]

VARIABLES
    namesrv,       \* external: topic -> the brokers it is on, {} while it does not exist
    routeTable,    \* m_topicRouteTable: topic -> brokers, or NoRoute
    addrTable,     \* m_brokerAddrTable: the brokers with an address
    publish,       \* topic -> the producers' brokers, NoRoute while there is no entry
    lockNamesrv,   \* m_lockNamesrv is held
    lockHeartbeat, \* m_lockHeartbeat is held
    upd,           \* the threads in updateTopicRouteInfoFromNameServer: the timer's and another's
    cln,           \* the timer's thread in cleanBroker
    hung,          \* a connect that never ends has the lock of the transport table
    heard,         \* history: the brokers reached by the last heartbeat
    overlapped,    \* history: an update ran during a cleanOfflineBroker
    bound          \* bounds used up

tables    == <<routeTable, addrTable, publish>>
locks     == <<lockNamesrv, lockHeartbeat>>
routeVars == <<namesrv, tables, locks, upd, cln, hung, heard, overlapped, bound>>

Updaters == {"timer", "asker"}

RouteInit ==
    /\ namesrv = Existing /\ routeTable = [t \in TopicSet |-> NoRoute]
    /\ addrTable = {} /\ publish = [t \in TopicSet |-> NoRoute]
    /\ lockNamesrv = FALSE /\ lockHeartbeat = FALSE
    /\ upd = [u \in Updaters |-> [pc |-> "idle", next |-> 1, data |-> {}]]
    /\ cln = [pc |-> "idle", copy |-> {}]
    /\ hung = FALSE /\ heard = {} /\ overlapped = FALSE
    /\ bound = [changes |-> 0, others |-> 0]

Brk(table, t) == IF table[t] = NoRoute THEN {} ELSE table[t]
-----------------------------------------------------------------------------
(* updateTopicRouteInfoFromNameServer(topic). *)

GoesTo(u, pc) == upd' = [upd EXCEPT ![u].pc = pc]

Topic(u) == Topics[upd[u].next]

\* The timer goes on with the next topic, and begins again.
Returns(u) ==
    upd' = [upd EXCEPT ![u] =
        [pc |-> "idle", data |-> {},
         next |-> IF u = "timer" THEN (@.next % Len(Topics)) + 1 ELSE 1]]

\* Mutant: the lock is taken where it is tested, and the rest skipped if another holds it.
TryLockNamesrvAlways(u, i) == lockNamesrv' = TRUE /\ Returns(u)

\* The first test of updateTopicRouteInfoFromNameServer, for the topic number i.
TryLockNamesrv(u, i) ==
    /\ lockNamesrv' = TRUE
    /\ IF lockNamesrv
       THEN upd' = [upd EXCEPT ![u] = [pc |-> "fetch", data |-> {}, next |-> i]]
       ELSE Returns(u)

UpdateAll ==
    /\ upd["timer"].pc = "idle" /\ TryLockNamesrv("timer", upd["timer"].next)
    /\ UNCHANGED <<namesrv, tables, lockHeartbeat, cln, hung, heard, overlapped, bound>>

\* A producer that sends to a topic, or Rebalance for a consumer: the topic is wanted.
Asks(i) ==
    /\ upd["asker"].pc = "idle" /\ bound.others < MaxOthers
    /\ bound' = [bound EXCEPT !.others = @ + 1] /\ TryLockNamesrv("asker", i)
    /\ UNCHANGED <<namesrv, tables, lockHeartbeat, cln, hung, heard, overlapped>>

TopicRouteDataIsChange(t, data) == routeTable[t] # data

\* Whether producers need it is asked and the answer dropped.
IsNeedUpdateTopicRouteInfo == FALSE

\* Mutant: a topic that has a route keeps it.
ChangedFirst(t, data) == routeTable[t] = NoRoute

Changed(t, data) ==
    routeTable[t] = NoRoute \/ TopicRouteDataIsChange(t, data) \/ IsNeedUpdateTopicRouteInfo

\* A topic that does not exist is thrown, and nothing is entered.
GetTopicRouteInfoFromNameServer(t) == namesrv[t]

Fetch(u) ==
    /\ upd[u].pc = "fetch" /\ ~hung
    /\ LET data == GetTopicRouteInfoFromNameServer(Topic(u))
       IN  IF data # {} /\ Changed(Topic(u), data)
           THEN upd' = [upd EXCEPT ![u].pc = "addrs", ![u].data = data]
           ELSE GoesTo(u, "unlock")
    /\ UNCHANGED <<namesrv, tables, locks, cln, hung, heard, overlapped, bound>>

\* No response, or one that is no route.
FetchFails(u) ==
    /\ upd[u].pc = "fetch" /\ ~hung /\ bound.others < MaxOthers
    /\ bound' = [bound EXCEPT !.others = @ + 1]
    /\ GoesTo(u, "unlock")
    /\ UNCHANGED <<namesrv, tables, locks, cln, hung, heard, overlapped>>

\* Mutant: only the brokers of new topics are entered.
AddBrokersOnce(u) ==
    addrTable' = IF routeTable[Topic(u)] = NoRoute THEN addrTable \cup upd[u].data ELSE addrTable

AddBrokers(u) == addrTable' = addrTable \cup upd[u].data

UpdateAddrs(u) ==
    /\ upd[u].pc = "addrs" /\ AddBrokers(u) /\ GoesTo(u, "tables")
    /\ overlapped' = (overlapped \/ cln.pc \in {"filter", "write"})
    /\ UNCHANGED <<namesrv, routeTable, publish, locks, cln, hung, heard, bound>>

\* Producers and consumers are told before the table is set; none of this is locked.
UpdateTables(u) ==
    /\ upd[u].pc = "tables"
    /\ publish' = [publish EXCEPT ![Topic(u)] = upd[u].data]
    /\ routeTable' = [routeTable EXCEPT ![Topic(u)] = upd[u].data]
    /\ upd' = [upd EXCEPT ![u].pc = "unlock", ![u].data = {}]
    /\ overlapped' = (overlapped \/ cln.pc \in {"filter", "write"})
    /\ UNCHANGED <<namesrv, addrTable, locks, cln, hung, heard, bound>>

\* The lock is released, whoever has taken it.
Unlock(u) ==
    /\ upd[u].pc = "unlock" /\ lockNamesrv' = FALSE /\ Returns(u)
    /\ UNCHANGED <<namesrv, tables, lockHeartbeat, cln, hung, heard, overlapped, bound>>
-----------------------------------------------------------------------------
(* cleanBroker: cleanOfflineBroker, then the heartbeat. *)

CleanCopies ==
    /\ cln.pc = "idle" /\ cln' = [pc |-> "filter", copy |-> addrTable]
    /\ overlapped' = (overlapped \/ \E u \in Updaters : upd[u].pc = "tables")
    /\ UNCHANGED <<namesrv, tables, locks, upd, hung, heard, bound>>

IsBrokerAddrExistInTopicRouteTable(b) == \E t \in TopicSet : b \in Brk(routeTable, t)

CleanFilters ==
    /\ cln.pc = "filter"
    /\ cln' = [pc |-> "write", copy |-> {b \in cln.copy : IsBrokerAddrExistInTopicRouteTable(b)}]
    /\ UNCHANGED <<namesrv, tables, locks, upd, hung, heard, overlapped, bound>>

CleanWrites ==
    /\ cln.pc = "write" /\ addrTable' = cln.copy
    /\ cln' = [pc |-> "beat", copy |-> {}]
    /\ UNCHANGED <<namesrv, routeTable, publish, locks, upd, hung, heard, overlapped, bound>>

HeartbeatSkipped ==
    /\ cln.pc = "beat" /\ ~lockHeartbeat /\ lockHeartbeat' = TRUE
    /\ cln' = [cln EXCEPT !.pc = "idle"]
    /\ UNCHANGED <<namesrv, tables, lockNamesrv, upd, hung, heard, overlapped, bound>>

\* The addresses are copied under the lock and reached one by one.
HeartbeatBegins ==
    /\ cln.pc = "beat" /\ lockHeartbeat
    /\ cln' = [pc |-> "send", copy |-> addrTable] /\ heard' = {}
    /\ UNCHANGED <<namesrv, tables, locks, upd, hung, overlapped, bound>>

\* A broker that refuses the connection or does not answer is passed over.
SendHearbeat(b) == b \notin Down

\* Mutant: the loop ends with the first broker that does not answer.
HeartbeatSendsUntilFailure ==
    /\ cln.pc = "send" /\ ~hung /\ cln.copy # {}
    /\ \E b \in cln.copy :
          /\ cln' = [cln EXCEPT !.copy = IF SendHearbeat(b) THEN @ \ {b} ELSE {}]
          /\ heard' = IF SendHearbeat(b) THEN heard \cup {b} ELSE heard
    /\ UNCHANGED <<namesrv, tables, locks, upd, hung, overlapped, bound>>

HeartbeatSends ==
    /\ cln.pc = "send" /\ ~hung /\ cln.copy # {}
    /\ \E b \in cln.copy :
          /\ cln' = [cln EXCEPT !.copy = @ \ {b}]
          /\ heard' = IF SendHearbeat(b) THEN heard \cup {b} ELSE heard
    /\ UNCHANGED <<namesrv, tables, locks, upd, hung, overlapped, bound>>

HeartbeatEnds ==
    /\ cln.pc = "send" /\ cln.copy = {} /\ lockHeartbeat' = FALSE
    /\ cln' = [cln EXCEPT !.pc = "idle"]
    /\ UNCHANGED <<namesrv, tables, lockNamesrv, upd, hung, heard, overlapped, bound>>

\* The name server or a broker takes the connection and does not finish the
\* handshake: connect and SSL_connect have no time limit.
ConnectHangs ==
    /\ ~hung /\ hung' = TRUE
    /\ (\E u \in Updaters : upd[u].pc = "fetch") \/ (cln.pc = "send" /\ cln.copy # {})
    /\ UNCHANGED <<namesrv, tables, locks, upd, cln, heard, overlapped, bound>>

\* A client's start sends a heartbeat, its shutdown takes the client out, both
\* with the lock in the same way; MQClientAPIImpl::unregisterClient is a TODO.
OtherLocksHeartbeat ==
    /\ bound.others < MaxOthers /\ bound' = [bound EXCEPT !.others = @ + 1]
    /\ lockHeartbeat' = ~lockHeartbeat
    /\ UNCHANGED <<namesrv, tables, lockNamesrv, upd, cln, hung, heard, overlapped>>
-----------------------------------------------------------------------------
NamesrvChanges(t) ==
    /\ bound.changes < MaxChanges /\ bound' = [bound EXCEPT !.changes = @ + 1]
    /\ \E bs \in (SUBSET Brokers) \ {namesrv[t]} : namesrv' = [namesrv EXCEPT ![t] = bs]
    /\ UNCHANGED <<tables, locks, upd, cln, hung, heard, overlapped>>

InUpdate(u) == Fetch(u) \/ FetchFails(u) \/ UpdateAddrs(u) \/ UpdateTables(u) \/ Unlock(u)

UpdateTimer == UpdateAll \/ InUpdate("timer")

CleanTimer ==
    \/ CleanCopies \/ CleanFilters \/ CleanWrites
    \/ HeartbeatSkipped \/ HeartbeatBegins \/ HeartbeatSends \/ HeartbeatEnds

RouteNext ==
    \/ UpdateTimer \/ CleanTimer
    \/ \E i \in 1 .. Len(Topics) : Asks(i)
    \/ OtherLocksHeartbeat \/ ConnectHangs \/ InUpdate("asker")
    \/ \E t \in TopicSet : NamesrvChanges(t)

RouteSpec == RouteInit /\ [][RouteNext]_routeVars

\* The timer's tasks run again and again, and every thread goes on that no connect
\* holds up.
RouteFairness ==
    /\ WF_routeVars(UpdateTimer) /\ WF_routeVars(CleanTimer)
    /\ WF_routeVars(InUpdate("asker"))

FairRouteSpec == RouteSpec /\ RouteFairness
-----------------------------------------------------------------------------
(* Properties. *)

\* Every broker of a known route has an address, and a producer can reach every
\* broker it was told of, as long as no route was entered while
\* cleanOfflineBroker worked on its copy of the table.
AddressesComplete ==
    ~overlapped => \A t \in TopicSet : Brk(routeTable, t) \cup Brk(publish, t) \subseteq addrTable

UpToDate(t) == hung \/ namesrv[t] = {} \/ routeTable[t] = namesrv[t]

HeardOf(b) == hung \/ b \notin addrTable \/ b \in heard

\* The periodic refresh follows the name server: the route of a topic that exists
\* is up to date again and again, although every second call only takes the lock,
\* as long as no connect hangs.  It depends on an odd number of topics, as the
\* process of a push consumer with one subscription has it (its topic, the retry
\* topic and the inner producer's TBW102), and on other threads asking for routes
\* a finite number of times: with an even number, or an ask before each call of
\* the timer, the same topics find the lock free each time and are never refreshed.
RoutesFollow == \A t \in TopicSet : []<>UpToDate(t)

\* A broker that keeps its address hears a heartbeat again and again, although
\* others refuse connections or do not answer, unless a connect hangs.
HeartbeatsReach == \A b \in Brokers \ Down : []<>HeardOf(b)
=============================================================================
