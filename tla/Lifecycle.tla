----------------------------- MODULE Lifecycle -----------------------------
(***************************************************************************)
(* Start and shutdown of the clients of one process that share a client id *)
(* and so one MQClientFactory, which the first of them starts and the last *)
(* one stops.  MQClientManager holds the factory of the id; a factory that *)
(* was stopped is taken out of it and never starts again, and the next     *)
(* client creates another.  Each client is started and shut down by a      *)
(* thread of the application; the tables of groups have no lock, the       *)
(* factory's m_mutex is held by start and by the second half of shutdown.  *)
(*                                                                         *)
(* A push consumer's progress is counted: what its listener has consumed   *)
(* and what the broker was told last.  Offsets are copied under a lock and *)
(* sent afterwards, one way: nobody learns that a send failed, and a copy  *)
(* of the timer may be sent after a later one of shutdown.  A pull         *)
(* consumer's persistConsumerOffset is a TODO in the code and stores       *)
(* nothing.                                                                *)
(***************************************************************************)
EXTENDS Integers, FiniteSets

CONSTANTS
    Clients,
    Kind,          \* client -> "producer", "push" or "pull"
    Group,         \* client -> its group
    Misconfigured, \* the clients that checkConfig or copySubscription refuses
    None,
    MaxFactories,  \* bound: the factories created
    MaxFaults,     \* bound: threads that cannot be created
    MaxConsumed    \* bound: messages a listener consumes

ASSUME LifecycleAssumption ==
    /\ IsFiniteSet(Clients) /\ None \notin Clients
    /\ Kind \in [Clients -> {"producer", "push", "pull"}]
    /\ MaxFactories \in Nat

VARIABLES
    state,    \* client -> its m_serviceState
    pc,       \* client -> where its thread is in start or shutdown
    fac,      \* client -> its m_pMQClientFactory, 0 before it has one
    factory,  \* number -> [state, live: its threads run, inner: the inner producer is registered, mutex]
    members,  \* number -> m_producerTable and m_consumerTable
    manager,  \* MQClientManager: the factory of the client id, 0 if none
    created,  \* the factories created so far
    serving,  \* the push consumers whose consume service runs
    consumed, stored,
    copied,   \* client -> the offset the timer's persistAll is about to send, or NoCopy
    faults,
    missed,   \* history: the consumers whose last store was lost, or made while an older copy was under way
    raced     \* history: the clients whose start overlapped another client's operation

progress == <<serving, consumed, stored, copied, missed>>
shared   == <<factory, members, manager, created>>
vars     == <<state, pc, fac, shared, progress, faults, raced>>

Factories == 1 .. MaxFactories

NoCopy == -1

\* Consumers and producers have a table each.
Key(c) == <<Kind[c] = "producer", Group[c]>>

Keys == {Key(c) : c \in Clients}

\* The constructor of MQClientFactory.
NewFactory == [state |-> "CREATE_JUST", live |-> FALSE, inner |-> FALSE, mutex |-> None]

Init ==
    /\ state = [c \in Clients |-> "CREATE_JUST"] /\ pc = [c \in Clients |-> "idle"]
    /\ fac = [c \in Clients |-> 0]
    /\ factory = [f \in Factories |-> NewFactory]
    /\ members = [f \in Factories |-> [k \in Keys |-> None]]
    /\ manager = 0 /\ created = 0
    /\ serving = {} /\ consumed = [c \in Clients |-> 0] /\ stored = [c \in Clients |-> 0]
    /\ copied = [c \in Clients |-> NoCopy] /\ missed = {}
    /\ faults = 0 /\ raced = {}

Goes(c, to) == pc' = [pc EXCEPT ![c] = to]

Starting(c) == pc[c] \in {"get", "find", "insert", "fstart", "run"}

ShuttingDown(c) == pc[c] \in {"stop", "persist", "unregister", "test", "lock", "remove", "down"}

\* A start meets a shutdown, or the start of a client of the same group.
Overlaps(c) ==
    Starting(c) /\ \E d \in Clients \ {c} : ShuttingDown(d) \/ (Starting(d) /\ Key(d) = Key(c))

Noted == raced' = raced \cup {c \in Clients : Overlaps(c)'}
-----------------------------------------------------------------------------
(* start() of a client. *)

Refused(c) == c \in Misconfigured

\* The state is START_FAILED until the end: a refused configuration leaves it so.
StartBegins(c) ==
    /\ pc[c] = "idle" /\ state[c] = "CREATE_JUST"
    /\ state' = [state EXCEPT ![c] = "START_FAILED"]
    /\ Goes(c, IF Refused(c) THEN "idle" ELSE "get")
    /\ UNCHANGED <<fac, shared, progress, faults>>

\* Then the consumer's own parts: rebalance, offsets, the consume service.
GetAndCreateMQClientFactory(c) ==
    /\ pc[c] = "get"
    /\ IF manager # 0
       THEN fac' = [fac EXCEPT ![c] = manager] /\ UNCHANGED <<created, manager>>
       ELSE /\ created < MaxFactories /\ created' = created + 1
            /\ manager' = created' /\ fac' = [fac EXCEPT ![c] = created']
    /\ serving' = IF Kind[c] = "push" THEN serving \cup {c} ELSE serving
    /\ Goes(c, "find")
    /\ UNCHANGED <<state, factory, members, consumed, stored, copied, missed, faults>>

\* A group that is taken: the client may be started again.
RegisterFinds(c) ==
    /\ pc[c] = "find"
    /\ IF members[fac[c]][Key(c)] # None
       THEN /\ state' = [state EXCEPT ![c] = "CREATE_JUST"] /\ Goes(c, "idle")
            /\ serving' = serving \ {c}
       ELSE Goes(c, "insert") /\ UNCHANGED <<state, serving>>
    /\ UNCHANGED <<fac, shared, consumed, stored, copied, missed, faults>>

RegisterInserts(c) ==
    /\ pc[c] = "insert"
    /\ members' = [members EXCEPT ![fac[c]][Key(c)] = c]
    /\ Goes(c, "fstart")
    /\ UNCHANGED <<state, fac, factory, manager, created, progress, faults>>

\* MQClientFactory::start: the first client starts the threads and the inner
\* producer, the others find it running.
FactoryStarts(c) ==
    /\ pc[c] = "fstart" /\ factory[fac[c]].mutex = None
    /\ factory[fac[c]].state = "CREATE_JUST"
    /\ factory' = [factory EXCEPT ![fac[c]] =
                     [@ EXCEPT !.state = "RUNNING", !.live = TRUE, !.inner = TRUE]]
    /\ Goes(c, "run")
    /\ UNCHANGED <<state, fac, members, manager, created, progress, faults>>

\* A thread cannot be created and the exception leaves the factory, with what
\* was started before, START_FAILED.
FactoryStartFails(c) ==
    /\ pc[c] = "fstart" /\ factory[fac[c]].mutex = None
    /\ factory[fac[c]].state = "CREATE_JUST" /\ faults < MaxFaults
    /\ faults' = faults + 1
    /\ \E started \in BOOLEAN :
          factory' = [factory EXCEPT ![fac[c]] = [@ EXCEPT !.state = "START_FAILED", !.live = started]]
    /\ Goes(c, "idle")
    /\ UNCHANGED <<state, fac, members, manager, created, progress>>

\* Mutant: a factory that failed to start is only logged.
FactoryStartedLogged(c) ==
    /\ pc[c] = "fstart" /\ factory[fac[c]].mutex = None
    /\ factory[fac[c]].state # "CREATE_JUST"
    /\ Goes(c, "run")
    /\ UNCHANGED <<state, fac, shared, progress, faults>>

\* A factory that was shut down is only logged, one that failed throws.
FactoryStarted(c) ==
    /\ pc[c] = "fstart" /\ factory[fac[c]].mutex = None
    /\ factory[fac[c]].state # "CREATE_JUST"
    /\ Goes(c, IF factory[fac[c]].state = "START_FAILED" THEN "idle" ELSE "run")
    /\ UNCHANGED <<state, fac, shared, progress, faults>>

StartEnds(c) ==
    /\ pc[c] = "run" /\ state' = [state EXCEPT ![c] = "RUNNING"] /\ Goes(c, "idle")
    /\ UNCHANGED <<fac, shared, progress, faults>>
-----------------------------------------------------------------------------
(* shutdown() of a client: only one that is RUNNING has anything to do. *)

ShutdownBegins(c) ==
    /\ pc[c] = "idle" /\ state[c] = "RUNNING"
    /\ Goes(c, IF Kind[c] = "push" THEN "stop" ELSE "unregister")
    /\ UNCHANGED <<state, fac, shared, progress, faults>>

\* updateConsumeOffsetToBroker: without an address, a connection or a whole frame
\* nothing reaches the broker, and nobody is told.
UpdateConsumeOffsetToBroker(c, offset) ==
    \E sent \in BOOLEAN : stored' = [stored EXCEPT ![c] = IF sent THEN offset ELSE @]

\* shutdown's store, unless it is lost, is what the broker keeps, if the timer
\* has no older copy under way.
LastStore(c) ==
    /\ UpdateConsumeOffsetToBroker(c, consumed[c])
    /\ missed' = IF stored'[c] # consumed[c] \/ copied[c] \notin {NoCopy, consumed[c]}
                 THEN missed \cup {c} ELSE missed

\* Mutant: the progress is stored before the service is stopped.
StopConsumingLast(c) ==
    /\ pc[c] = "stop" /\ LastStore(c) /\ Goes(c, "unregister")
    /\ UNCHANGED <<state, fac, shared, serving, consumed, copied, faults>>

\* The pool is destroyed: its threads have ended.
StopConsuming(c) ==
    /\ pc[c] = "stop" /\ serving' = serving \ {c} /\ Goes(c, "persist")
    /\ UNCHANGED <<state, fac, shared, consumed, stored, copied, missed, faults>>

\* What shutdown copies does not change any more before it is sent.
PersistConsumerOffset(c) ==
    /\ pc[c] = "persist" /\ LastStore(c) /\ Goes(c, "unregister")
    /\ UNCHANGED <<state, fac, shared, serving, consumed, copied, faults>>

\* Whoever holds the group.
Unregister(c) ==
    /\ pc[c] = "unregister"
    /\ members' = [members EXCEPT ![fac[c]][Key(c)] = None] /\ Goes(c, "test")
    /\ UNCHANGED <<state, fac, factory, manager, created, progress, faults>>

Registered(f, k) == members[f][k] # None

Producers(f) ==
    Cardinality({k \in Keys : k[1] /\ Registered(f, k)}) + IF factory[f].inner THEN 1 ELSE 0

InUse(f) == (\E k \in Keys : ~k[1] /\ Registered(f, k)) \/ Producers(f) > 1

\* Unlocked.
TestTables(c) ==
    /\ pc[c] = "test" /\ Goes(c, IF InUse(fac[c]) THEN "down" ELSE "lock")
    /\ UNCHANGED <<state, fac, shared, progress, faults>>

\* Mutant: the manager forgets the factory before its threads have ended.
RemoveFirst(c) ==
    /\ pc[c] = "lock" /\ factory[fac[c]].mutex = None
    /\ IF factory[fac[c]].state = "RUNNING"
       THEN /\ factory' = [factory EXCEPT ![fac[c]] =
                             [@ EXCEPT !.mutex = c, !.inner = FALSE]]
            /\ Goes(c, "remove") /\ manager' = 0
       ELSE Goes(c, "down") /\ UNCHANGED <<factory, manager>>
    /\ UNCHANGED <<state, fac, members, created, progress, faults>>

\* The inner producer leaves; the timers and threads are stopped one by one.
FactoryStops(c) ==
    /\ pc[c] = "lock" /\ factory[fac[c]].mutex = None
    /\ IF factory[fac[c]].state = "RUNNING"
       THEN /\ factory' = [factory EXCEPT ![fac[c]] =
                             [@ EXCEPT !.mutex = c, !.inner = FALSE]]
            /\ Goes(c, "remove")
       ELSE Goes(c, "down") /\ UNCHANGED factory
    /\ UNCHANGED <<state, fac, members, manager, created, progress, faults>>

\* The threads have been joined but for the timer thread, which was only told to end.
RemoveClientFactory(c) ==
    /\ pc[c] = "remove" /\ manager' = 0
    /\ factory' = [factory EXCEPT ![fac[c]] =
                     [@ EXCEPT !.live = FALSE, !.state = "SHUTDOWN_ALREADY", !.mutex = None]]
    /\ Goes(c, "down")
    /\ UNCHANGED <<state, fac, members, created, progress, faults>>

ShutdownEnds(c) ==
    /\ pc[c] = "down" /\ state' = [state EXCEPT ![c] = "SHUTDOWN_ALREADY"] /\ Goes(c, "idle")
    /\ UNCHANGED <<fac, shared, progress, faults>>
-----------------------------------------------------------------------------
(* What runs meanwhile. *)

Consumes(c) ==
    /\ c \in serving /\ state[c] = "RUNNING" /\ consumed[c] < MaxConsumed
    /\ consumed' = [consumed EXCEPT ![c] = @ + 1]
    /\ UNCHANGED <<state, pc, fac, shared, serving, stored, copied, missed, faults>>

\* The timer of a factory; a consumer that is not RUNNING refuses.
PersistAllCopies(f, c) ==
    /\ factory[f].live /\ Kind[c] = "push" /\ members[f][Key(c)] = c /\ state[c] = "RUNNING"
    /\ copied[c] = NoCopy /\ copied' = [copied EXCEPT ![c] = consumed[c]]
    /\ UNCHANGED <<state, pc, fac, shared, serving, consumed, stored, missed, faults>>

\* The consumer may have been shut down meanwhile.
PersistAllSends(c) ==
    /\ copied[c] # NoCopy /\ copied' = [copied EXCEPT ![c] = NoCopy]
    /\ UpdateConsumeOffsetToBroker(c, copied[c])
    /\ UNCHANGED <<state, pc, fac, shared, serving, consumed, missed, faults>>

StepOf(c) ==
    \/ StartBegins(c) \/ GetAndCreateMQClientFactory(c) \/ RegisterFinds(c) \/ RegisterInserts(c)
    \/ FactoryStarts(c) \/ FactoryStartFails(c) \/ FactoryStarted(c) \/ StartEnds(c)
    \/ ShutdownBegins(c) \/ StopConsuming(c) \/ PersistConsumerOffset(c) \/ Unregister(c)
    \/ TestTables(c) \/ FactoryStops(c) \/ RemoveClientFactory(c) \/ ShutdownEnds(c)
    \/ Consumes(c)

Next ==
    /\ \/ \E c \in Clients : StepOf(c)
       \/ \E c \in Clients : PersistAllSends(c) \/ \E f \in Factories : PersistAllCopies(f, c)
    /\ Noted

Spec == Init /\ [][Next]_vars
-----------------------------------------------------------------------------
(* Properties. *)

\* A client that runs is served: its factory is the one of the manager, its
\* threads run and its group is registered to it.  It fails only after a start
\* of this group that overlapped a shutdown or another start of the group.
RunningIsServed ==
    \A c \in Clients :
        /\ state[c] = "RUNNING" /\ pc[c] = "idle"
        /\ \A d \in Clients : Key(d) = Key(c) => d \notin raced
        => /\ fac[c] = manager /\ factory[manager].live /\ factory[manager].inner
           /\ members[manager][Key(c)] = c

\* However starts and shutdowns interleave, the threads of one factory at most
\* run (two would answer with the same client id), and the last client stops
\* them: when no client runs no thread is left, unless a factory failed to start.
FactoryThreads ==
    LET live == {f \in Factories : factory[f].live}
    IN  /\ \A f, g \in live : f = g
        /\ faults = 0 /\ (\A c \in Clients : pc[c] = "idle" /\ state[c] # "RUNNING") => live = {}

\* The broker has all the progress of a push consumer that was shut down, as long
\* as the last store got through and no older copy of the timer could follow it:
\* nothing is consumed, and no older offset copied, once shutdown has stored.
StoredOnShutdown ==
    \A c \in Clients :
        Kind[c] = "push" /\ state[c] = "SHUTDOWN_ALREADY" /\ c \notin missed
        => stored[c] = consumed[c]
=============================================================================
