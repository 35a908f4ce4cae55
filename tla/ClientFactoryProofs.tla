------------------------ MODULE ClientFactoryProofs ------------------------
(***************************************************************************)
(* The client factory: start and shutdown, for any number of clients,      *)
(* groups and factories, and its routes and addresses, for any topics and  *)
(* brokers.                                                                *)
(***************************************************************************)
EXTENDS Lifecycle, Routes, FiniteSetTheorems, SequenceTheorems, TLAPS

-----------------------------------------------------------------------------
(* The inductive invariant. *)

States == {"CREATE_JUST", "START_FAILED", "RUNNING", "SHUTDOWN_ALREADY"}

Stages == {"idle", "get", "find", "insert", "fstart", "run",
           "stop", "persist", "unregister", "test", "lock", "remove", "down"}

TypeOK ==
    /\ state \in [Clients -> States] /\ pc \in [Clients -> Stages]
    /\ fac \in [Clients -> 0 .. MaxFactories]
    /\ factory \in [Factories -> [state : States, live : BOOLEAN, inner : BOOLEAN,
                                  mutex : Clients \cup {None}]]
    /\ members \in [Factories -> [Keys -> Clients \cup {None}]]
    /\ manager \in 0 .. MaxFactories /\ created \in 0 .. MaxFactories
    /\ serving \subseteq Clients /\ faults \in Nat /\ raced \subseteq Clients
    /\ consumed \in [Clients -> Nat] /\ stored \in [Clients -> Nat]
    /\ copied \in [Clients -> Nat \cup {NoCopy}] /\ missed \subseteq Clients

\* A client has a factory once it has left "get", and for good.
ClientsOK ==
    \A c \in Clients :
       /\ fac[c] <= created
       /\ pc[c] \notin {"idle", "get"} => fac[c] # 0
       /\ state[c] \in {"RUNNING", "SHUTDOWN_ALREADY"} => fac[c] # 0
       /\ ShuttingDown(c) => state[c] = "RUNNING"
       /\ Starting(c) => state[c] = "START_FAILED"
       /\ pc[c] \in {"stop", "persist"} => Kind[c] = "push"

\* The broker knows the progress, and nothing older is about to be sent.
Settled(c) == c \in missed \/ (stored[c] = consumed[c] /\ copied[c] \in {NoCopy, consumed[c]})

Persisted(c) == pc[c] \in {"unregister", "test", "lock", "remove", "down"} \/ state[c] = "SHUTDOWN_ALREADY"

\* The progress of a push consumer whose service was stopped for a shutdown.
ProgressOK ==
    \A c \in Clients : Kind[c] = "push" =>
       /\ pc[c] \in {"persist", "unregister", "test", "lock", "remove", "down"} => c \notin serving
       /\ Persisted(c) => Settled(c)

\* Of the factories created, the manager's is not down and all others are.
FactoriesOK ==
    /\ manager <= created
    /\ \A f \in Factories :
          /\ factory[f].live => factory[f].state \in {"RUNNING", "START_FAILED"}
          /\ f > created => factory[f].state = "CREATE_JUST"
          /\ f <= created => (f = manager <=> factory[f].state # "SHUTDOWN_ALREADY")
          /\ faults = 0 => factory[f].state # "START_FAILED"
          /\ factory[f].state = "RUNNING" => factory[f].live
          /\ factory[f].state = "RUNNING" /\ ~factory[f].inner =>
                \E d \in Clients : pc[d] = "remove" /\ fac[d] = f
    /\ \A c \in Clients : pc[c] = "remove" =>
          factory[fac[c]].mutex = c /\ factory[fac[c]].state = "RUNNING"

\* A client that was entered in a table and has not left it.
Entered(c) ==
    \/ pc[c] \in {"fstart", "run", "stop", "persist", "unregister"}
    \/ pc[c] = "idle" /\ state[c] = "RUNNING"

\* A client that will still look whether the factory has to be stopped.
Keeps(c, f) == fac[c] = f /\ (Entered(c) \/ pc[c] \in {"test", "lock", "remove"})

\* While no factory failed to start, the tables hold clients that have not left,
\* and a factory that runs has a client that will stop it.
KeptOK ==
    faults = 0 =>
       /\ \A f \in Factories, k \in Keys, c \in Clients :
             members[f][k] = c => fac[c] = f /\ Key(c) = k /\ Entered(c)
       /\ \A f \in Factories : factory[f].live => \E c \in Clients : Keeps(c, f)

\* No start of the group overlapped what it must not overlap.
Unraced(c) == \A d \in Clients : Key(d) = Key(c) => d \notin raced

\* What a start that overlaps nothing has found; see RunningIsServed.
ServedOK ==
    \A c \in Clients :
       /\ Overlaps(c) => c \in raced
       /\ Unraced(c) /\ (pc[c] \in {"find", "insert"} \/ Entered(c)) => fac[c] = manager
       /\ Unraced(c) /\ Entered(c) =>
             /\ members[fac[c]][Key(c)] = c
             /\ \A d \in Clients : /\ pc[d] \in {"lock", "remove"} => fac[d] # fac[c]
                                   /\ pc[d] = "insert" => Key(d) # Key(c)
       /\ Unraced(c) /\ Entered(c) /\ pc[c] # "fstart" =>
             factory[fac[c]].live /\ factory[fac[c]].inner

IInv == TypeOK /\ ClientsOK /\ ProgressOK /\ FactoriesOK /\ KeptOK /\ ServedOK

-----------------------------------------------------------------------------
(* Types and frames. *)
LEMMA KeyInKeys == ASSUME NEW c \in Clients PROVE Key(c) \in Keys
BY DEF Keys

\* Before any start there is no factory and nothing to store.
LEMMA InitIInv == Init => IInv
<1> SUFFICES ASSUME Init PROVE IInv
  OBVIOUS
<1> USE LifecycleAssumption
<1>1. TypeOK
  <2>1. NewFactory \in [state : States, live : BOOLEAN, inner : BOOLEAN, mutex : Clients \cup {None}]
    BY DEF NewFactory, States
  <2>2. factory \in [Factories -> [state : States, live : BOOLEAN, inner : BOOLEAN,
                                   mutex : Clients \cup {None}]]
    BY <2>1 DEF Init
  <2>3. members \in [Factories -> [Keys -> Clients \cup {None}]]
    BY DEF Init
  <2>4. QED BY <2>2, <2>3 DEF Init, TypeOK, States, Stages, NoCopy
<1>2. \A c \in Clients : /\ pc[c] = "idle" /\ state[c] = "CREATE_JUST" /\ fac[c] = 0
                         /\ ~Starting(c) /\ ~ShuttingDown(c) /\ ~Entered(c)
  BY DEF Init, Starting, ShuttingDown, Entered
<1>3. \A f \in Factories : factory[f].state = "CREATE_JUST" /\ ~factory[f].live
  BY DEF Init, NewFactory
<1>4. \A f \in Factories, k \in Keys : members[f][k] = None
  BY DEF Init
<1>5. ClientsOK /\ ProgressOK
  BY <1>2 DEF ClientsOK, ProgressOK, Persisted, Init
<1>6. FactoriesOK
  <2>1. manager = 0 /\ created = 0 /\ \A f \in Factories : f \in Int /\ f > 0
    BY DEF Init, Factories
  <2>2. QED BY <1>2, <1>3, <2>1 DEF FactoriesOK
<1>7. KeptOK
  BY <1>3, <1>4, LifecycleAssumption DEF KeptOK
<1>8. ServedOK
  BY <1>2 DEF ServedOK, Overlaps
<1>9. QED BY <1>1, <1>5, <1>6, <1>7, <1>8 DEF IInv

\* A client's factory is a factory once the client has left "get".
LEMMA FactoryOfClient ==
    ASSUME TypeOK, ClientsOK, NEW c \in Clients,
           pc[c] \notin {"idle", "get"} \/ state[c] = "RUNNING"
    PROVE  fac[c] \in Factories /\ fac[c] <= created
BY LifecycleAssumption DEF TypeOK, ClientsOK, Factories

\* A step of start or shutdown keeps the types.
LEMMA StepTypeOK ==
    ASSUME IInv, NEW c \in Clients, StepOf(c), Noted
    PROVE  TypeOK'
<1> USE LifecycleAssumption DEF Goes, shared, progress, States, Stages
<1>0. TypeOK /\ ClientsOK /\ raced' \subseteq Clients
  BY DEF IInv, TypeOK, Noted
<1>1. CASE StartBegins(c)
  BY <1>0, <1>1 DEF TypeOK, StartBegins
<1>2. CASE GetAndCreateMQClientFactory(c)
  <2>1. CASE manager # 0
    BY <1>0, <1>2, <2>1 DEF TypeOK, GetAndCreateMQClientFactory
  <2>2. CASE manager = 0
    BY <1>0, <1>2, <2>2 DEF TypeOK, GetAndCreateMQClientFactory
  <2>3. QED BY <2>1, <2>2
<1>3. CASE RegisterFinds(c) \/ StartEnds(c) \/ ShutdownBegins(c) \/ StopConsuming(c)
  BY <1>0, <1>3 DEF TypeOK, RegisterFinds, StartEnds, ShutdownBegins, StopConsuming
<1>4. CASE RegisterInserts(c) \/ Unregister(c)
  <2>1. Key(c) \in Keys /\ fac[c] \in Factories
    BY <1>0, <1>4, KeyInKeys, FactoryOfClient DEF RegisterInserts, Unregister
  <2>2. members' \in [Factories -> [Keys -> Clients \cup {None}]]
    <3>1. PICK v \in Clients \cup {None} :
             members' = [members EXCEPT ![fac[c]] = [members[fac[c]] EXCEPT ![Key(c)] = v]]
      BY <1>4 DEF RegisterInserts, Unregister
    <3>2. [members[fac[c]] EXCEPT ![Key(c)] = v] \in [Keys -> Clients \cup {None}]
      BY <1>0, <2>1 DEF TypeOK
    <3>3. QED BY <1>0, <3>1, <3>2 DEF TypeOK
  <2>3. QED BY <1>0, <1>4, <2>2 DEF TypeOK, RegisterInserts, Unregister
<1>5. CASE FactoryStarts(c) \/ FactoryStartFails(c) \/ FactoryStops(c) \/ RemoveClientFactory(c)
  <2>1. factory' \in [Factories -> [state : States, live : BOOLEAN, inner : BOOLEAN,
                                    mutex : Clients \cup {None}]]
    <3>1. fac[c] \in Factories
      BY <1>0, <1>5, FactoryOfClient DEF FactoryStarts, FactoryStartFails, FactoryStops, RemoveClientFactory
    <3>2. factory[fac[c]] \in [state : States, live : BOOLEAN, inner : BOOLEAN, mutex : Clients \cup {None}]
      BY <1>0, <3>1 DEF TypeOK
    <3>3. PICK r \in [state : States, live : BOOLEAN, inner : BOOLEAN, mutex : Clients \cup {None}] :
             factory' = factory \/ factory' = [factory EXCEPT ![fac[c]] = r]
      <4>1. CASE FactoryStarts(c)
        BY <3>2, <4>1 DEF FactoryStarts
      <4>2. CASE FactoryStartFails(c)
        BY <3>2, <4>2 DEF FactoryStartFails
      <4>3. CASE FactoryStops(c)
        BY <3>2, <4>3 DEF FactoryStops
      <4>4. CASE RemoveClientFactory(c)
        BY <3>2, <4>4 DEF RemoveClientFactory
      <4>5. QED BY <1>5, <4>1, <4>2, <4>3, <4>4
    <3>4. QED BY <1>0, <3>3 DEF TypeOK
  <2>2. CASE FactoryStarts(c) \/ FactoryStartFails(c)
    <3>1. (faults' = faults \/ faults' = faults + 1) /\ (Goes(c, "run") \/ Goes(c, "idle"))
      BY <2>2 DEF FactoryStarts, FactoryStartFails
    <3>2. faults' \in Nat /\ pc' \in [Clients -> Stages]
      BY <1>0, <3>1 DEF TypeOK
    <3>3. UNCHANGED <<state, fac, members, manager, created, serving, consumed, stored, copied, missed>>
      BY <2>2 DEF FactoryStarts, FactoryStartFails
    <3>4. QED BY <1>0, <2>1, <3>2, <3>3 DEF TypeOK
  <2>3. CASE FactoryStops(c) \/ RemoveClientFactory(c)
    BY <1>0, <2>1, <2>3 DEF TypeOK, FactoryStops, RemoveClientFactory
  <2>4. QED BY <1>5, <2>2, <2>3
<1>6. CASE FactoryStarted(c) \/ PersistConsumerOffset(c) \/ TestTables(c) \/ ShutdownEnds(c)
  <2>1. CASE FactoryStarted(c)         BY <1>0, <2>1 DEF TypeOK, FactoryStarted
  <2>2. CASE PersistConsumerOffset(c)
    <3>1. stored' \in [Clients -> Nat] /\ missed' \subseteq Clients
      BY <1>0, <2>2 DEF TypeOK, PersistConsumerOffset, LastStore, UpdateConsumeOffsetToBroker
    <3>2. pc' \in [Clients -> Stages] /\ UNCHANGED <<state, fac, shared, serving, consumed, copied, faults>>
      BY <1>0, <2>2 DEF TypeOK, PersistConsumerOffset
    <3>3. QED BY <1>0, <3>1, <3>2 DEF TypeOK
  <2>3. CASE TestTables(c)             BY <1>0, <2>3 DEF TypeOK, TestTables
  <2>4. CASE ShutdownEnds(c)           BY <1>0, <2>4 DEF TypeOK, ShutdownEnds
  <2>5. QED BY <1>6, <2>1, <2>2, <2>3, <2>4
<1>7. CASE Consumes(c)
  BY <1>0, <1>7 DEF TypeOK, Consumes
<1>8. QED BY <1>1, <1>2, <1>3, <1>4, <1>5, <1>6, <1>7 DEF StepOf

\* A client's thread moves that client.
LEMMA OthersStay ==
    ASSUME TypeOK, NEW c \in Clients, StepOf(c), NEW d \in Clients \ {c}
    PROVE  /\ pc'[d] = pc[d] /\ state'[d] = state[d] /\ fac'[d] = fac[d]
           /\ d \in serving' <=> d \in serving
<1> USE DEF Goes, shared, progress, TypeOK
<1>1. CASE \/ StartBegins(c) \/ GetAndCreateMQClientFactory(c) \/ RegisterFinds(c) \/ RegisterInserts(c)
           \/ FactoryStarts(c) \/ FactoryStartFails(c) \/ FactoryStarted(c) \/ StartEnds(c)
  BY <1>1 DEF StartBegins, GetAndCreateMQClientFactory, RegisterFinds, RegisterInserts,
              FactoryStarts, FactoryStartFails, FactoryStarted, StartEnds
<1>2. CASE \/ ShutdownBegins(c) \/ StopConsuming(c) \/ PersistConsumerOffset(c) \/ Unregister(c)
           \/ TestTables(c) \/ FactoryStops(c) \/ RemoveClientFactory(c) \/ ShutdownEnds(c)
           \/ Consumes(c)
  BY <1>2 DEF ShutdownBegins, StopConsuming, PersistConsumerOffset, Unregister, TestTables,
              FactoryStops, RemoveClientFactory, ShutdownEnds, Consumes
<1>3. QED BY <1>1, <1>2 DEF StepOf

\* How a client's thread moves it, apart from what it does to others.
Moves(c) ==
    \/ pc[c] = "idle" /\ state[c] = "CREATE_JUST" /\ pc'[c] \in {"idle", "get"} /\ state'[c] = "START_FAILED"
    \/ pc[c] = "get" /\ pc'[c] = "find" /\ state'[c] = state[c]
    \/ pc[c] = "find" /\ pc'[c] = "idle" /\ state'[c] = "CREATE_JUST"
    \/ pc[c] = "find" /\ pc'[c] = "insert" /\ state'[c] = state[c]
    \/ pc[c] = "insert" /\ pc'[c] = "fstart" /\ state'[c] = state[c]
    \/ pc[c] = "fstart" /\ pc'[c] \in {"run", "idle"} /\ state'[c] = state[c]
    \/ pc[c] = "run" /\ pc'[c] = "idle" /\ state'[c] = "RUNNING"
    \/ /\ pc[c] = "idle" /\ state[c] = "RUNNING" /\ state'[c] = state[c]
       /\ pc'[c] = IF Kind[c] = "push" THEN "stop" ELSE "unregister"
    \/ pc[c] = "stop" /\ pc'[c] = "persist" /\ state'[c] = state[c]
    \/ pc[c] = "persist" /\ pc'[c] = "unregister" /\ state'[c] = state[c]
    \/ pc[c] = "unregister" /\ pc'[c] = "test" /\ state'[c] = state[c]
    \/ pc[c] = "test" /\ pc'[c] \in {"lock", "down"} /\ state'[c] = state[c]
    \/ pc[c] = "lock" /\ pc'[c] \in {"remove", "down"} /\ state'[c] = state[c]
    \/ pc[c] = "remove" /\ pc'[c] = "down" /\ state'[c] = state[c]
    \/ pc[c] = "down" /\ pc'[c] = "idle" /\ state'[c] = "SHUTDOWN_ALREADY"
    \/ pc'[c] = pc[c] /\ state'[c] = state[c]

\* start and shutdown go through their stages in order, and a factory is set
\* once.
LEMMA StepMoves ==
    ASSUME TypeOK, NEW c \in Clients, StepOf(c)
    PROVE  Moves(c) /\ (fac'[c] = fac[c] \/ pc[c] = "get")
<1> USE DEF Goes, shared, progress, TypeOK, Moves
<1>1. CASE \/ StartBegins(c) \/ GetAndCreateMQClientFactory(c) \/ RegisterFinds(c) \/ RegisterInserts(c)
           \/ FactoryStarts(c) \/ FactoryStartFails(c) \/ FactoryStarted(c) \/ StartEnds(c)
  BY <1>1 DEF StartBegins, GetAndCreateMQClientFactory, RegisterFinds, RegisterInserts,
              FactoryStarts, FactoryStartFails, FactoryStarted, StartEnds
<1>2. CASE \/ ShutdownBegins(c) \/ StopConsuming(c) \/ PersistConsumerOffset(c) \/ Unregister(c)
           \/ TestTables(c) \/ FactoryStops(c) \/ RemoveClientFactory(c) \/ ShutdownEnds(c)
           \/ Consumes(c)
  BY <1>2 DEF ShutdownBegins, StopConsuming, PersistConsumerOffset, Unregister, TestTables,
              FactoryStops, RemoveClientFactory, ShutdownEnds, Consumes
<1>3. QED BY <1>1, <1>2 DEF StepOf

\* What getAndCreateMQClientFactory gives a client.
LEMMA GetsManager ==
    ASSUME IInv, NEW c \in Clients, GetAndCreateMQClientFactory(c)
    PROVE  /\ fac'[c] = manager' /\ fac'[c] # 0 /\ fac'[c] \in Factories
           /\ manager # 0 => manager' = manager /\ created' = created
           /\ manager = 0 => manager' = created + 1 /\ created' = created + 1
           /\ created <= created' /\ manager' <= created'
<1>1. TypeOK /\ manager <= created
  BY DEF IInv, FactoriesOK
<1>2. CASE manager # 0
  BY <1>1, <1>2, LifecycleAssumption DEF TypeOK, GetAndCreateMQClientFactory, Factories
<1>3. CASE manager = 0
  BY <1>1, <1>3, LifecycleAssumption DEF TypeOK, GetAndCreateMQClientFactory, Factories
<1>4. QED BY <1>2, <1>3

-----------------------------------------------------------------------------
(* Clients and their progress. *)
LEMMA ClientsStep ==
    ASSUME IInv, TypeOK', NEW c \in Clients, StepOf(c)
    PROVE  ClientsOK'
<1>0. TypeOK /\ ClientsOK
  BY DEF IInv
<1>1. created' = created \/ GetAndCreateMQClientFactory(c)
  BY DEF StepOf, StartBegins, RegisterFinds, RegisterInserts, FactoryStarts, FactoryStartFails,
         FactoryStarted, StartEnds, ShutdownBegins, StopConsuming, PersistConsumerOffset, Unregister,
         TestTables, FactoryStops, RemoveClientFactory, ShutdownEnds, Consumes, shared
<1>2. created <= created' /\ created \in Nat /\ created' \in Nat
  BY <1>0, <1>1, GetsManager, LifecycleAssumption DEF TypeOK
<1>3. \A d \in Clients \ {c} : pc'[d] = pc[d] /\ state'[d] = state[d] /\ fac'[d] = fac[d]
  BY <1>0, OthersStay
<1>4. Moves(c) /\ (fac'[c] = fac[c] \/ pc[c] = "get")
  BY <1>0, StepMoves
<1>5. fac'[c] <= created' /\ (pc[c] = "get" => fac'[c] # 0 \/ pc'[c] = "get")
  <2>1. CASE GetAndCreateMQClientFactory(c)
    BY <2>1, GetsManager
  <2>2. CASE ~GetAndCreateMQClientFactory(c)
    <3>1. pc[c] # "get" \/ (pc'[c] = "get" /\ fac' = fac)
      BY <1>0, <2>2 DEF StepOf, StartBegins, RegisterFinds, RegisterInserts, FactoryStarts, FactoryStartFails,
         FactoryStarted, StartEnds, ShutdownBegins, StopConsuming, PersistConsumerOffset, Unregister,
         TestTables, FactoryStops, RemoveClientFactory, ShutdownEnds, Consumes
    <3>2. fac'[c] = fac[c]
      BY <1>4, <3>1
    <3>3. QED BY <1>0, <1>1, <1>2, <2>2, <3>1, <3>2 DEF ClientsOK
  <2>3. QED BY <2>1, <2>2
<1>6. ASSUME NEW d \in Clients \ {c}
      PROVE  /\ fac'[d] <= created'
             /\ pc'[d] \notin {"idle", "get"} => fac'[d] # 0
             /\ state'[d] \in {"RUNNING", "SHUTDOWN_ALREADY"} => fac'[d] # 0
             /\ ShuttingDown(d)' => state'[d] = "RUNNING"
             /\ Starting(d)' => state'[d] = "START_FAILED"
             /\ pc'[d] \in {"stop", "persist"} => Kind[d] = "push"
  <2>1. fac'[d] \in Int /\ fac[d] \in Int
    BY <1>0 DEF TypeOK
  <2>2. QED BY <1>0, <1>2, <1>3, <2>1 DEF ClientsOK, ShuttingDown, Starting
<1>7. /\ pc'[c] \notin {"idle", "get"} => fac'[c] # 0
      /\ state'[c] \in {"RUNNING", "SHUTDOWN_ALREADY"} => fac'[c] # 0
  BY <1>0, <1>4, <1>5 DEF ClientsOK, Moves, Starting, ShuttingDown
<1>8. /\ ShuttingDown(c)' => state'[c] = "RUNNING"
      /\ Starting(c)' => state'[c] = "START_FAILED"
      /\ pc'[c] \in {"stop", "persist"} => Kind[c] = "push"
  BY <1>0, <1>4 DEF ClientsOK, Moves, Starting, ShuttingDown
<1>9. QED BY <1>5, <1>6, <1>7, <1>8 DEF ClientsOK

\* Nothing is consumed after the service was stopped, and shutdown stores before
\* it goes on.
LEMMA ProgressStep ==
    ASSUME IInv, TypeOK', NEW c \in Clients, StepOf(c)
    PROVE  ProgressOK'
<1>0. TypeOK /\ ClientsOK /\ ProgressOK
  BY DEF IInv
<1>1. \A d \in Clients \ {c} : /\ pc'[d] = pc[d] /\ state'[d] = state[d]
                               /\ d \in serving' <=> d \in serving
  BY <1>0, OthersStay
<1>2. CASE Consumes(c)
  <2>1. /\ c \in serving /\ state[c] = "RUNNING" /\ UNCHANGED <<pc, state, serving, stored, copied, missed>>
        /\ consumed' = [consumed EXCEPT ![c] = @ + 1]
    BY <1>2 DEF Consumes
  <2>2. \A d \in Clients \ {c} : consumed'[d] = consumed[d]
    BY <2>1
  <2>3. \A d \in Clients \ {c} : Settled(d) => Settled(d)'
    BY <2>1, <2>2 DEF Settled
  <2>4. Kind[c] = "push" => ~Persisted(c)'
    BY <1>0, <2>1 DEF ProgressOK, Persisted
  <2>5. QED BY <1>0, <2>1, <2>3, <2>4 DEF ProgressOK, Persisted
<1>3. CASE PersistConsumerOffset(c)
  <2>1. /\ pc[c] = "persist" /\ pc'[c] = "unregister" /\ UNCHANGED <<state, serving, consumed, copied>>
        /\ stored' = [stored EXCEPT ![c] = stored'[c]]
        /\ missed' = IF stored'[c] # consumed[c] \/ copied[c] \notin {NoCopy, consumed[c]}
                     THEN missed \cup {c} ELSE missed
    BY <1>0, <1>3 DEF PersistConsumerOffset, LastStore, UpdateConsumeOffsetToBroker, Goes, TypeOK
  <2>2. \A d \in Clients \ {c} : stored'[d] = stored[d] /\ (d \in missed' <=> d \in missed)
    BY <1>0, <2>1 DEF TypeOK
  <2>3. Settled(c)' /\ \A d \in Clients \ {c} : Settled(d) => Settled(d)'
    BY <2>1, <2>2 DEF Settled
  <2>4. QED BY <1>0, <1>1, <2>1, <2>3 DEF ProgressOK, Persisted
<1>4. CASE ~Consumes(c) /\ ~PersistConsumerOffset(c)
  <2>1. UNCHANGED <<consumed, stored, copied, missed>>
    BY <1>4 DEF StepOf, StartBegins, GetAndCreateMQClientFactory, RegisterFinds, RegisterInserts,
         FactoryStarts, FactoryStartFails, FactoryStarted, StartEnds, ShutdownBegins, StopConsuming,
         Unregister, TestTables, FactoryStops, RemoveClientFactory, ShutdownEnds, progress
  <2>2. \A d \in Clients : Settled(d)' <=> Settled(d)
    BY <2>1 DEF Settled
  <2>3. ASSUME Kind[c] = "push"
        PROVE  /\ pc'[c] \in {"persist", "unregister", "test", "lock", "remove", "down"} => c \notin serving'
               /\ Persisted(c)' => Persisted(c)
    <3> USE DEF Goes, progress, shared, TypeOK, Persisted
    <3>1. CASE StopConsuming(c)
      BY <1>0, <2>3, <3>1 DEF StopConsuming, ProgressOK, ClientsOK, ShuttingDown
    <3>2. CASE \/ StartBegins(c) \/ GetAndCreateMQClientFactory(c) \/ RegisterFinds(c) \/ RegisterInserts(c)
               \/ FactoryStarts(c) \/ FactoryStartFails(c) \/ FactoryStarted(c) \/ StartEnds(c)
      <4>1. /\ pc'[c] \in {"idle", "get", "find", "insert", "fstart", "run"}
            /\ state'[c] = "SHUTDOWN_ALREADY" => state[c] = "SHUTDOWN_ALREADY"
        BY <1>0, <3>2 DEF StartBegins, GetAndCreateMQClientFactory, RegisterFinds, RegisterInserts,
                          FactoryStarts, FactoryStartFails, FactoryStarted, StartEnds
      <4>2. QED BY <1>0, <2>3, <4>1 DEF ProgressOK
    <3>3. CASE \/ ShutdownBegins(c) \/ Unregister(c) \/ TestTables(c) \/ FactoryStops(c)
               \/ RemoveClientFactory(c) \/ ShutdownEnds(c)
      BY <1>0, <2>3, <3>3 DEF ShutdownBegins, Unregister, TestTables, FactoryStops,
              RemoveClientFactory, ShutdownEnds, ProgressOK
    <3>4. QED BY <1>4, <3>1, <3>2, <3>3 DEF StepOf
  <2>4. \A d \in Clients \ {c} : Persisted(d)' <=> Persisted(d)
    BY <1>1 DEF Persisted
  <2>5. QED BY <1>0, <1>1, <2>2, <2>3, <2>4 DEF ProgressOK
<1>5. QED BY <1>2, <1>3, <1>4

-----------------------------------------------------------------------------
(* Factories. *)

\* Steps that touch no factory, and at which nobody begins or ends to stop one.
LEMMA FactoriesFrame ==
    ASSUME IInv, UNCHANGED <<factory, manager, created, faults>>,
           \A d \in Clients : /\ pc'[d] = "remove" <=> pc[d] = "remove"
                              /\ pc[d] = "remove" => fac'[d] = fac[d]
    PROVE  FactoriesOK'
<1>1. FactoriesOK
  BY DEF IInv
<1>2. \A f \in Factories : factory[f].state = "RUNNING" /\ ~factory[f].inner =>
                              \E d \in Clients : pc'[d] = "remove" /\ fac'[d] = f
  BY <1>1 DEF FactoriesOK
<1>3. \A d \in Clients : pc'[d] = "remove" =>
         factory[fac'[d]].mutex = d /\ factory[fac'[d]].state = "RUNNING"
  BY <1>1 DEF FactoriesOK
<1>4. QED BY <1>1, <1>2, <1>3 DEF FactoriesOK, Factories

\* What a step does to the factory of the client that takes it.
LEMMA OneFactory ==
    ASSUME IInv, NEW c \in Clients, fac[c] \in Factories, UNCHANGED <<created, fac>>, faults' \in Nat,
           \A f \in Factories \ {fac[c]} : factory'[f] = factory[f],
           faults' = 0 => faults = 0,
           \A d \in Clients \ {c} : pc'[d] = pc[d],
           \* the conjuncts of FactoriesOK for this factory and for this client
           LET f == fac[c] IN
           /\ factory'[f].live => factory'[f].state \in {"RUNNING", "START_FAILED"}
           /\ IF factory'[f].state = "SHUTDOWN_ALREADY"
                THEN manager' = 0 /\ manager = f ELSE manager' = manager /\ manager = f
           /\ faults' = 0 => factory'[f].state # "START_FAILED"
           /\ factory'[f].state = "RUNNING" => factory'[f].live
           /\ factory'[f].state = "RUNNING" /\ ~factory'[f].inner => pc'[c] = "remove"
           /\ pc'[c] = "remove" => factory'[f].mutex = c /\ factory'[f].state = "RUNNING",
           pc[c] = "remove" => factory'[fac[c]].state # "RUNNING",
           \A d \in Clients \ {c} : pc[d] = "remove" => fac[d] # fac[c]
    PROVE  FactoriesOK'
<1>0. TypeOK /\ ClientsOK /\ FactoriesOK /\ fac[c] <= created
  BY DEF IInv, ClientsOK
<1>1. manager \in Int /\ created \in Int /\ \A f \in Factories : f \in Int /\ f > 0
  BY <1>0 DEF TypeOK, Factories
<1>2. manager' <= created'
  BY <1>0, <1>1 DEF FactoriesOK
<1>3. ASSUME NEW f \in Factories
      PROVE  /\ factory'[f].live => factory'[f].state \in {"RUNNING", "START_FAILED"}
             /\ f > created' => factory'[f].state = "CREATE_JUST"
             /\ f <= created' => (f = manager' <=> factory'[f].state # "SHUTDOWN_ALREADY")
             /\ faults' = 0 => factory'[f].state # "START_FAILED"
             /\ factory'[f].state = "RUNNING" => factory'[f].live
  <2>1. CASE f = fac[c]
    BY <1>0, <1>1, <2>1
  <2>2. CASE f # fac[c]
    BY <1>0, <1>1, <2>2 DEF FactoriesOK
  <2>3. QED BY <2>1, <2>2
<1>4. ASSUME NEW f \in Factories, factory'[f].state = "RUNNING", ~factory'[f].inner
      PROVE  \E d \in Clients : pc'[d] = "remove" /\ fac'[d] = f
  <2>1. CASE f = fac[c]
    BY <1>4, <2>1
  <2>2. CASE f # fac[c]
    <3>1. PICK d \in Clients : pc[d] = "remove" /\ fac[d] = f
      BY <1>0, <1>4, <2>2 DEF FactoriesOK
    <3>2. d # c
      BY <2>2, <3>1
    <3>3. QED BY <3>1, <3>2
  <2>3. QED BY <2>1, <2>2
<1>5. ASSUME NEW d \in Clients, pc'[d] = "remove"
      PROVE  factory'[fac'[d]].mutex = d /\ factory'[fac'[d]].state = "RUNNING"
  <2>1. CASE d = c
    BY <1>5, <2>1
  <2>2. CASE d # c
    <3>1. pc[d] = "remove" /\ fac[d] # fac[c]
      BY <1>5, <2>2
    <3>2. fac[d] \in Factories
      BY <1>0, <3>1, FactoryOfClient
    <3>3. factory'[fac[d]] = factory[fac[d]]
      BY <3>1, <3>2
    <3>4. factory[fac[d]].mutex = d /\ factory[fac[d]].state = "RUNNING"
      BY <1>0, <3>1 DEF FactoriesOK
    <3>5. QED BY <3>3, <3>4
  <2>3. QED BY <2>1, <2>2
<1>6. QED BY <1>2, <1>3, <1>4, <1>5 DEF FactoriesOK

\* The manager forgets a factory exactly when it is shut down.
LEMMA FactoriesStep ==
    ASSUME IInv, TypeOK', NEW c \in Clients, StepOf(c)
    PROVE  FactoriesOK'
<1> USE LifecycleAssumption DEF Goes, shared
<1>0. TypeOK /\ ClientsOK /\ FactoriesOK
  BY DEF IInv
<1>1. \A d \in Clients \ {c} : pc'[d] = pc[d] /\ state'[d] = state[d] /\ fac'[d] = fac[d]
  BY <1>0, OthersStay
<1>2. CASE \/ StartBegins(c) \/ RegisterFinds(c) \/ FactoryStarted(c) \/ StartEnds(c)
           \/ ShutdownBegins(c) \/ StopConsuming(c) \/ PersistConsumerOffset(c) \/ TestTables(c)
           \/ ShutdownEnds(c) \/ Consumes(c)
  <2>1. UNCHANGED <<factory, manager, created, faults, fac>> /\ (pc'[c] = "remove" <=> pc[c] = "remove")
    BY <1>0, <1>2 DEF StartBegins, RegisterFinds, FactoryStarted, StartEnds, ShutdownBegins, StopConsuming,
       PersistConsumerOffset, TestTables, ShutdownEnds, Consumes, TypeOK
  <2>2. QED BY <1>1, <2>1, FactoriesFrame
<1>3. CASE RegisterInserts(c) \/ Unregister(c)
  <2>1. UNCHANGED <<factory, manager, created, faults, fac>> /\ (pc'[c] = "remove" <=> pc[c] = "remove")
    BY <1>0, <1>3 DEF RegisterInserts, Unregister, TypeOK
  <2>2. QED BY <1>1, <2>1, FactoriesFrame
<1>4. CASE GetAndCreateMQClientFactory(c)
  <2>1. UNCHANGED <<factory, faults>> /\ pc[c] = "get" /\ pc'[c] = "find"
    BY <1>0, <1>4 DEF GetAndCreateMQClientFactory, TypeOK
  <2>2. /\ manager # 0 => manager' = manager /\ created' = created
        /\ manager = 0 => manager' = created + 1 /\ created' = created + 1
        /\ manager' <= created'
    BY <1>4, GetsManager
  <2>3. manager \in Int /\ created \in Int /\ \A f \in Factories : f \in Int /\ f > 0
    BY <1>0 DEF TypeOK, Factories
  <2>4. ASSUME NEW f \in Factories
        PROVE  /\ f > created' => factory[f].state = "CREATE_JUST"
               /\ f <= created' => (f = manager' <=> factory[f].state # "SHUTDOWN_ALREADY")
    BY <1>0, <2>2, <2>3 DEF FactoriesOK
  <2>5. \A f \in Factories : factory[f].state = "RUNNING" /\ ~factory[f].inner =>
           \E d \in Clients : pc'[d] = "remove" /\ fac'[d] = f
    <3> SUFFICES ASSUME NEW f \in Factories, factory[f].state = "RUNNING", ~factory[f].inner
                 PROVE  \E d \in Clients : pc'[d] = "remove" /\ fac'[d] = f
      OBVIOUS
    <3>1. PICK d \in Clients : pc[d] = "remove" /\ fac[d] = f
      BY <1>0 DEF FactoriesOK
    <3>2. QED BY <1>1, <2>1, <3>1
  <2>6. \A d \in Clients : pc'[d] = "remove" =>
           factory[fac'[d]].mutex = d /\ factory[fac'[d]].state = "RUNNING"
    BY <1>0, <1>1, <2>1 DEF FactoriesOK
  <2>7. QED BY <1>0, <2>1, <2>2, <2>4, <2>5, <2>6 DEF FactoriesOK
<1>5. CASE FactoryStarts(c) \/ FactoryStartFails(c) \/ FactoryStops(c) \/ RemoveClientFactory(c)
  <2> DEFINE f == fac[c]
  <2>1. f \in Factories /\ f <= created /\ f \in Int /\ f > 0
    <3>1. pc[c] \in {"fstart", "lock", "remove"}
      <4>1. CASE FactoryStarts(c) \/ FactoryStops(c) \/ RemoveClientFactory(c)
        BY <4>1 DEF FactoryStarts, FactoryStops, RemoveClientFactory
      <4>2. CASE FactoryStartFails(c)
        BY <4>2 DEF FactoryStartFails
      <4>3. QED BY <1>5, <4>1, <4>2
    <3>2. f \in Factories /\ f <= created
      BY <1>0, <3>1, FactoryOfClient
    <3>3. QED BY <3>2 DEF Factories
  <2>2. factory[f] \in [state : States, live : BOOLEAN, inner : BOOLEAN, mutex : Clients \cup {None}]
    BY <1>0, <2>1 DEF TypeOK
  <2>3. /\ UNCHANGED <<created, fac>> /\ faults \in Nat /\ faults' \in Nat /\ (faults' = 0 => faults = 0)
        /\ manager \in Int
    <3>1. UNCHANGED <<created, fac>> /\ (faults' = faults \/ faults' = faults + 1)
      <4>1. CASE FactoryStarts(c) \/ FactoryStops(c) \/ RemoveClientFactory(c)
        BY <4>1 DEF FactoryStarts, FactoryStops, RemoveClientFactory
      <4>2. CASE FactoryStartFails(c)
        BY <4>2 DEF FactoryStartFails
      <4>3. QED BY <1>5, <4>1, <4>2
    <3>2. QED BY <1>0, <3>1 DEF TypeOK
  <2>4. /\ factory[f].live => factory[f].state \in {"RUNNING", "START_FAILED"}
        /\ f = manager <=> factory[f].state # "SHUTDOWN_ALREADY"
        /\ faults = 0 => factory[f].state # "START_FAILED"
        /\ factory[f].state = "RUNNING" => factory[f].live
    BY <1>0, <2>1 DEF FactoriesOK
  <2>5. \A d \in Clients : pc[d] = "remove" => factory[fac[d]].mutex = d /\ factory[fac[d]].state = "RUNNING"
    BY <1>0 DEF FactoriesOK
  <2>6. CASE FactoryStarts(c)
    <3>1. /\ factory' = [factory EXCEPT ![f] = [@ EXCEPT !.state = "RUNNING", !.live = TRUE, !.inner = TRUE]]
          /\ factory[f].state = "CREATE_JUST" /\ UNCHANGED <<manager, faults>>
          /\ pc[c] = "fstart" /\ pc'[c] = "run"
      BY <1>0, <2>6 DEF FactoryStarts, TypeOK
    <3>2. /\ factory'[f].state = "RUNNING" /\ factory'[f].live /\ factory'[f].inner
          /\ \A g \in Factories \ {f} : factory'[g] = factory[g]
      BY <1>0, <2>1, <2>2, <3>1 DEF TypeOK
    <3>3. QED BY <1>1, <2>1, <2>3, <2>4, <2>5, <3>1, <3>2, OneFactory
  <2>7. CASE FactoryStartFails(c)
    <3>1. PICK started \in BOOLEAN :
             factory' = [factory EXCEPT ![f] = [@ EXCEPT !.state = "START_FAILED", !.live = started]]
      BY <2>7, Zenon DEF FactoryStartFails
    <3>4. /\ factory[f].state = "CREATE_JUST" /\ manager' = manager /\ faults' = faults + 1
          /\ pc[c] = "fstart" /\ pc' = [pc EXCEPT ![c] = "idle"]
      BY <2>7 DEF FactoryStartFails
    <3>0. pc'[c] = "idle"
      BY <1>0, <3>4 DEF TypeOK
    <3>2. /\ factory'[f].state = "START_FAILED" /\ \A g \in Factories \ {f} : factory'[g] = factory[g]
          /\ faults' # 0
      BY <1>0, <2>1, <2>2, <2>3, <3>1, <3>4 DEF TypeOK
    <3>3. QED BY <1>1, <2>1, <2>3, <2>4, <2>5, <3>0, <3>2, <3>4, OneFactory
  <2>8. CASE FactoryStops(c) /\ factory[f].state = "RUNNING"
    <3>1. /\ factory' = [factory EXCEPT ![f] = [@ EXCEPT !.mutex = c, !.inner = FALSE]]
          /\ factory[f].mutex = None /\ UNCHANGED <<manager, faults>>
          /\ pc[c] = "lock" /\ pc'[c] = "remove"
      BY <1>0, <2>8 DEF FactoryStops, TypeOK
    <3>2. /\ factory'[f].state = "RUNNING" /\ factory'[f].live /\ factory'[f].mutex = c
          /\ \A g \in Factories \ {f} : factory'[g] = factory[g]
      BY <1>0, <2>1, <2>2, <2>4, <2>8, <3>1 DEF TypeOK
    <3>3. \A d \in Clients \ {c} : pc[d] = "remove" => fac[d] # f
      BY <2>5, <3>1
    <3>4. QED BY <1>1, <2>1, <2>3, <2>4, <2>8, <3>1, <3>2, <3>3, OneFactory
  <2>9. CASE FactoryStops(c) /\ factory[f].state # "RUNNING"
    <3>1. UNCHANGED <<factory, manager, created, faults>> /\ pc[c] = "lock" /\ pc'[c] = "down"
      BY <1>0, <2>9 DEF FactoryStops, TypeOK
    <3>2. QED BY <1>1, <3>1, FactoriesFrame
  <2>10. CASE RemoveClientFactory(c)
    <3>1. /\ factory' = [factory EXCEPT ![f] =
                           [@ EXCEPT !.live = FALSE, !.state = "SHUTDOWN_ALREADY", !.mutex = None]]
          /\ manager' = 0 /\ faults' = faults /\ pc[c] = "remove" /\ pc'[c] = "down"
      BY <1>0, <2>10 DEF RemoveClientFactory, TypeOK
    <3>2. /\ factory'[f].state = "SHUTDOWN_ALREADY" /\ ~factory'[f].live
          /\ \A g \in Factories \ {f} : factory'[g] = factory[g]
      BY <1>0, <2>1, <2>2, <3>1 DEF TypeOK
    <3>3. \A d \in Clients \ {c} : pc[d] = "remove" => fac[d] # f
      BY <2>5, <3>1
    <3>4. factory[f].state = "RUNNING"
      BY <2>5, <3>1
    <3>5. QED BY <1>1, <2>1, <2>3, <2>4, <3>1, <3>2, <3>3, <3>4, OneFactory
  <2>11. QED BY <1>5, <2>6, <2>7, <2>8, <2>9, <2>10
<1>6. QED BY <1>2, <1>3, <1>4, <1>5 DEF StepOf

-----------------------------------------------------------------------------
(* Whoever starts a factory stops it. *)

\* A start that fails changes only its factory and counts as a fault.
LEMMA FailsFrame ==
    ASSUME NEW c, FactoryStartFails(c)
    PROVE  pc[c] = "fstart" /\ faults' = faults + 1 /\ UNCHANGED <<state, fac, members, manager, created>>
BY DEF FactoryStartFails

\* How a client comes to be in a table, and how it leaves.
LEMMA EnteredMoves ==
    ASSUME TypeOK, ClientsOK, NEW c \in Clients, StepOf(c)
    PROVE  /\ Entered(c)' => Entered(c) \/ pc[c] = "insert"
           /\ Entered(c) => \/ Entered(c)' /\ pc'[c] # "fstart"
                            \/ pc'[c] = pc[c] /\ state'[c] = state[c] /\ Entered(c)'
                            \/ pc[c] = "unregister" /\ pc'[c] = "test"
                            \/ pc[c] = "fstart" /\ pc'[c] = "idle"
           /\ Entered(c) \/ pc[c] \in {"find", "insert"} => fac'[c] = fac[c]
BY StepMoves DEF Moves, Entered, ClientsOK, Starting, ShuttingDown, TypeOK, Stages, States

\* A factory that is in use has an entry.
LEMMA InUseHasEntry ==
    ASSUME TypeOK, NEW f \in Factories, InUse(f)
    PROVE  \E k \in Keys : members[f][k] # None
<1>1. SUFFICES ASSUME \A k \in Keys : members[f][k] = None
               PROVE  FALSE
  OBVIOUS
<1>2. {k \in Keys : k[1] /\ Registered(f, k)} = {} /\ ~\E k \in Keys : ~k[1] /\ Registered(f, k)
  BY <1>1 DEF Registered
<1>3. Cardinality({k \in Keys : k[1] /\ Registered(f, k)}) = 0
  BY <1>2, FS_EmptySet
<1>4. QED BY <1>2, <1>3 DEF InUse, Producers

\* Starting a factory can only fail when a thread cannot be created.
LEMMA NoFailure ==
    ASSUME IInv, NEW c \in Clients, StepOf(c), pc[c] = "fstart", pc'[c] = "idle"
    PROVE  faults' # 0
<1>0. TypeOK /\ ClientsOK /\ FactoriesOK /\ fac[c] \in Factories
  BY FactoryOfClient DEF IInv
<1>1. FactoryStartFails(c) \/ FactoryStarted(c)
  <2>1. FactoryStarts(c) \/ FactoryStartFails(c) \/ FactoryStarted(c) \/ Consumes(c)
    BY DEF StepOf, StartBegins, GetAndCreateMQClientFactory, RegisterFinds, RegisterInserts, StartEnds,
           ShutdownBegins, StopConsuming, PersistConsumerOffset, Unregister, TestTables, FactoryStops,
           RemoveClientFactory, ShutdownEnds
  <2>2. ~FactoryStarts(c)
    BY <1>0 DEF FactoryStarts, Goes, TypeOK
  <2>3. ~Consumes(c)
    BY <1>0 DEF Consumes, Goes, TypeOK
  <2>4. QED BY <2>1, <2>2, <2>3
<1>2. CASE FactoryStartFails(c)
  <2>1. faults' = faults + 1 /\ faults \in Nat
    BY <1>0, <1>2 DEF FactoryStartFails, TypeOK
  <2>2. QED BY <2>1
<1>3. CASE FactoryStarted(c)
  <2>1. factory[fac[c]].state = "START_FAILED" /\ faults' = faults
    BY <1>0, <1>3 DEF FactoryStarted, Goes, TypeOK
  <2>2. QED BY <1>0, <2>1 DEF FactoriesOK
<1>4. QED BY <1>1, <1>2, <1>3

\* faults only counts up.
LEMMA FaultsGrow ==
    ASSUME TypeOK, NEW c \in Clients, StepOf(c), faults' = 0
    PROVE  faults = 0
<1>1. faults' = faults \/ FactoryStartFails(c)
  BY DEF StepOf, StartBegins, GetAndCreateMQClientFactory, RegisterFinds, RegisterInserts, FactoryStarts,
         FactoryStarted, StartEnds, ShutdownBegins, StopConsuming, PersistConsumerOffset, Unregister,
         TestTables, FactoryStops, RemoveClientFactory, ShutdownEnds, Consumes
<1>2. FactoryStartFails(c) => faults' = faults + 1
  BY DEF FactoryStartFails
<1>3. faults \in Nat
  BY DEF TypeOK
<1>4. QED BY <1>1, <1>2, <1>3

\* What a step does to the tables.
LEMMA TablesStep ==
    ASSUME IInv, NEW c \in Clients, StepOf(c)
    PROVE  /\ \A f \in Factories, k \in Keys :
                 \/ members'[f][k] = members[f][k]
                 \/ /\ f = fac[c] /\ k = Key(c)
                    /\ \/ pc[c] = "insert" /\ pc'[c] = "fstart" /\ members'[f][k] = c
                       \/ pc[c] = "unregister" /\ pc'[c] = "test" /\ members'[f][k] = None
           /\ pc[c] = "unregister" => pc'[c] = "unregister" \/ members'[fac[c]][Key(c)] = None
           /\ pc[c] = "insert" => pc'[c] = "insert" \/ members'[fac[c]][Key(c)] = c
<1>0. TypeOK /\ ClientsOK
  BY DEF IInv
<1>1. CASE RegisterInserts(c) \/ Unregister(c)
  <2>1. fac[c] \in Factories /\ Key(c) \in Keys
    <3>1. pc[c] \in {"insert", "unregister"}
      BY <1>1 DEF RegisterInserts, Unregister
    <3>2. QED BY <1>0, <3>1, FactoryOfClient, KeyInKeys
  <2>2. PICK v : /\ members' = [members EXCEPT ![fac[c]] = [members[fac[c]] EXCEPT ![Key(c)] = v]]
                 /\ \/ pc[c] = "insert" /\ pc'[c] = "fstart" /\ v = c
                    \/ pc[c] = "unregister" /\ pc'[c] = "test" /\ v = None
    BY <1>0, <1>1 DEF RegisterInserts, Unregister, Goes, TypeOK
  <2>3. /\ \A f \in Factories \ {fac[c]} : members'[f] = members[f]
        /\ members'[fac[c]] = [members[fac[c]] EXCEPT ![Key(c)] = v]
    BY <1>0, <2>1, <2>2 DEF TypeOK
  <2>4. members[fac[c]] \in [Keys -> Clients \cup {None}]
    BY <1>0, <2>1 DEF TypeOK
  <2>5. members'[fac[c]][Key(c)] = v /\ \A k \in Keys \ {Key(c)} : members'[fac[c]][k] = members[fac[c]][k]
    BY <2>1, <2>3, <2>4
  <2>6. QED BY <2>2, <2>3, <2>5
<1>2. CASE ~RegisterInserts(c) /\ ~Unregister(c)
  <2>1. members' = members
    BY <1>2, FailsFrame DEF StepOf, StartBegins, GetAndCreateMQClientFactory, RegisterFinds, FactoryStarts,
         FactoryStarted, StartEnds, ShutdownBegins, StopConsuming,
         PersistConsumerOffset, TestTables, FactoryStops, RemoveClientFactory, ShutdownEnds, Consumes, shared
  <2>2. pc[c] \in {"insert", "unregister"} => Consumes(c)
    BY <1>2, FailsFrame DEF StepOf, StartBegins, GetAndCreateMQClientFactory, RegisterFinds, FactoryStarts,
         FactoryStarted, StartEnds, ShutdownBegins, StopConsuming,
         PersistConsumerOffset, TestTables, FactoryStops, RemoveClientFactory, ShutdownEnds
  <2>3. Consumes(c) => pc' = pc
    BY DEF Consumes
  <2>4. QED BY <2>1, <2>2, <2>3
<1>3. QED BY <1>1, <1>2

\* The last client to leave a factory finds its tables empty, and every other
\* finds one who stays.
LEMMA KeptStep ==
    ASSUME IInv, TypeOK', NEW c \in Clients, StepOf(c)
    PROVE  KeptOK'
<1> SUFFICES ASSUME faults' = 0
             PROVE  /\ \A f \in Factories, k \in Keys, d \in Clients :
                          members'[f][k] = d => fac'[d] = f /\ Key(d) = k /\ Entered(d)'
                    /\ \A f \in Factories : factory'[f].live => \E d \in Clients : Keeps(d, f)'
  BY DEF KeptOK, Key, Factories, Keys
<1>0. TypeOK /\ ClientsOK /\ FactoriesOK /\ KeptOK /\ faults = 0
  BY FaultsGrow DEF IInv
<1>1. \A d \in Clients \ {c} : pc'[d] = pc[d] /\ state'[d] = state[d] /\ fac'[d] = fac[d]
  BY <1>0, OthersStay
<1>2. \A d \in Clients \ {c} : Entered(d)' <=> Entered(d)
  BY <1>1 DEF Entered
<1>3. pc[c] = "fstart" => pc'[c] # "idle"
  BY NoFailure
<1>4. /\ Entered(c)' => Entered(c) \/ pc[c] = "insert"
      /\ Entered(c) => Entered(c)' \/ (pc[c] = "unregister" /\ pc'[c] = "test")
      /\ Entered(c) \/ pc[c] \in {"find", "insert"} => fac'[c] = fac[c]
  BY <1>0, <1>3, EnteredMoves
<1>5. ASSUME NEW f \in Factories, NEW k \in Keys, NEW d \in Clients, members'[f][k] = d
      PROVE  fac'[d] = f /\ Key(d) = k /\ Entered(d)'
  <2>0. d # None
    BY LifecycleAssumption
  <2>1. CASE members'[f][k] # members[f][k]
    <3>1. /\ f = fac[c] /\ k = Key(c) /\ d = c
          /\ pc[c] = "insert" /\ pc'[c] = "fstart"
      BY <1>5, <2>0, <2>1, TablesStep
    <3>2. Entered(c)'
      BY <3>1 DEF Entered
    <3>3. QED BY <1>4, <3>1, <3>2
  <2>2. CASE members'[f][k] = members[f][k]
    <3>1. fac[d] = f /\ Key(d) = k /\ Entered(d)
      BY <1>0, <1>5, <2>2 DEF KeptOK
    <3>2. CASE d # c
      BY <1>1, <1>2, <3>1, <3>2
    <3>3. CASE d = c
      <4>1. ~(pc[c] = "unregister" /\ pc'[c] = "test")
        BY <1>5, <2>0, <3>1, <3>3, TablesStep
      <4>2. QED BY <1>4, <3>1, <3>3, <4>1
    <3>4. QED BY <3>2, <3>3
  <2>3. QED BY <2>1, <2>2
<1>6. ASSUME NEW f \in Factories, factory'[f].live
      PROVE  \E d \in Clients : Keeps(d, f)'
  <2>1. CASE ~factory[f].live
    <3>1. FactoryStarts(c) \/ FactoryStartFails(c) \/ FactoryStops(c) \/ RemoveClientFactory(c)
      BY <1>6, <2>1 DEF StepOf, StartBegins, GetAndCreateMQClientFactory, RegisterFinds, RegisterInserts,
           FactoryStarted, StartEnds, ShutdownBegins, StopConsuming, PersistConsumerOffset, Unregister,
           TestTables, ShutdownEnds, Consumes, shared
    <3>2. FactoryStarts(c) /\ f = fac[c]
      <4>1. ~FactoryStartFails(c)
        <5>1. FactoryStartFails(c) => faults' = faults + 1
          BY DEF FactoryStartFails
        <5>2. QED BY <1>0, <5>1
      <4>2. FactoryStops(c) => (factory'[f].live => factory[f].live)
        <5>1. FactoryStops(c) => \/ factory'[f] = factory[f]
                                 \/ factory'[f] = [factory[f] EXCEPT !.mutex = c, !.inner = FALSE]
          BY <1>0 DEF FactoryStops, TypeOK
        <5>2. QED BY <1>0, <5>1 DEF TypeOK
      <4>3. RemoveClientFactory(c) => (factory'[f].live => factory[f].live)
        <5>1. RemoveClientFactory(c) =>
                 \/ factory'[f] = factory[f]
                 \/ factory'[f] = [factory[f] EXCEPT !.live = FALSE, !.state = "SHUTDOWN_ALREADY", !.mutex = None]
          BY <1>0 DEF RemoveClientFactory, TypeOK
        <5>2. QED BY <1>0, <5>1 DEF TypeOK
      <4>4. FactoryStarts(c) => f = fac[c] \/ factory'[f] = factory[f]
        BY <1>0 DEF FactoryStarts, TypeOK
      <4>5. QED BY <1>6, <2>1, <3>1, <4>1, <4>2, <4>3, <4>4
    <3>3. pc'[c] = "run" /\ fac'[c] = f
      BY <1>0, <3>2 DEF FactoryStarts, Goes, TypeOK
    <3>4. Keeps(c, f)'
      BY <3>3 DEF Keeps, Entered
    <3>5. QED BY <3>4
  <2>2. CASE factory[f].live
    <3>1. PICK d \in Clients : Keeps(d, f)
      BY <1>0, <2>2 DEF KeptOK
    <3>2. CASE d # c
      <4>1. Keeps(d, f)'
        BY <1>1, <1>2, <3>1, <3>2 DEF Keeps
      <4>2. QED BY <4>1
    <3>3. CASE d = c /\ pc'[c] # "down"
      <4>1. Keeps(c, f)'
        <5>1. CASE Entered(c)
          BY <1>4, <3>1, <3>3, <5>1 DEF Keeps
        <5>2. CASE ~Entered(c)
          <6>1. pc[c] \in {"test", "lock", "remove"} /\ fac[c] = f
            BY <3>1, <3>3, <5>2 DEF Keeps
          <6>2. pc'[c] \in {"test", "lock", "remove"} /\ fac'[c] = f
            BY <1>0, <3>3, <6>1, StepMoves DEF Moves
          <6>3. QED BY <6>2 DEF Keeps
        <5>3. QED BY <5>1, <5>2
      <4>2. QED BY <4>1
    <3>4. CASE d = c /\ pc'[c] = "down"
      <4>1. fac[c] = f /\ pc[c] \in {"test", "lock", "remove"}
        BY <1>0, <1>4, <3>1, <3>4, StepMoves DEF Keeps, Moves, Entered
      <4>2. CASE pc[c] = "test"
        <5>1. InUse(f)
          <6>1. TestTables(c) \/ Consumes(c)
            BY <4>2 DEF StepOf, StartBegins, GetAndCreateMQClientFactory, RegisterFinds, RegisterInserts,
               FactoryStarts, FactoryStartFails, FactoryStarted, StartEnds, ShutdownBegins, StopConsuming,
               PersistConsumerOffset, Unregister, FactoryStops, RemoveClientFactory, ShutdownEnds
          <6>2. TestTables(c)
            BY <3>4, <4>2, <6>1 DEF Consumes
          <6>3. pc' = [pc EXCEPT ![c] = IF InUse(fac[c]) THEN "down" ELSE "lock"]
            BY <6>2 DEF TestTables, Goes
          <6>4. QED BY <1>0, <3>4, <4>1, <6>3 DEF TypeOK
        <5>2. PICK k \in Keys : members[f][k] # None
          BY <1>0, <5>1, InUseHasEntry
        <5>3. PICK m \in Clients : m = members[f][k]
          BY <1>0, <5>2 DEF TypeOK
        <5>4. fac[m] = f /\ Entered(m)
          BY <1>0, <5>2, <5>3 DEF KeptOK
        <5>5. m # c
          BY <4>2, <5>4 DEF Entered
        <5>6. Keeps(m, f)'
          BY <1>1, <1>2, <5>4, <5>5 DEF Keeps
        <5>7. QED BY <5>6
      <4>3. CASE pc[c] = "lock"
        <5>1. factory[f].state = "RUNNING"
          BY <1>0, <2>2 DEF FactoriesOK
        <5>2. FactoryStops(c) \/ Consumes(c)
          BY <4>3 DEF StepOf, StartBegins, GetAndCreateMQClientFactory, RegisterFinds, RegisterInserts,
               FactoryStarts, FactoryStartFails, FactoryStarted, StartEnds, ShutdownBegins, StopConsuming,
               PersistConsumerOffset, Unregister, TestTables, RemoveClientFactory, ShutdownEnds
        <5>3. pc'[c] \in {"remove", "lock"}
          BY <1>0, <4>1, <4>3, <5>1, <5>2 DEF FactoryStops, Consumes, Goes, TypeOK
        <5>4. QED BY <3>4, <5>3
      <4>4. CASE pc[c] = "remove"
        <5>1. RemoveClientFactory(c) \/ Consumes(c)
          BY <4>4 DEF StepOf, StartBegins, GetAndCreateMQClientFactory, RegisterFinds, RegisterInserts,
               FactoryStarts, FactoryStartFails, FactoryStarted, StartEnds, ShutdownBegins, StopConsuming,
               PersistConsumerOffset, Unregister, TestTables, FactoryStops, ShutdownEnds
        <5>2. RemoveClientFactory(c)
          BY <3>4, <4>4, <5>1 DEF Consumes
        <5>3. factory' = [factory EXCEPT ![f] =
                            [@ EXCEPT !.live = FALSE, !.state = "SHUTDOWN_ALREADY", !.mutex = None]]
          BY <4>1, <5>2 DEF RemoveClientFactory
        <5>4. ~factory'[f].live
          BY <1>0, <5>3 DEF TypeOK
        <5>5. QED BY <1>6, <5>4
      <4>5. QED BY <4>1, <4>2, <4>3, <4>4
    <3>5. QED BY <3>2, <3>3, <3>4
  <2>3. QED BY <2>1, <2>2
<1>7. QED BY <1>5, <1>6

-----------------------------------------------------------------------------
(* A start that overlaps nothing. *)

\* A client whose group raced at no start so far raced at none before.
LEMMA UnracedStays ==
    ASSUME Noted, NEW e \in Clients, Unraced(e)'
    PROVE  /\ Unraced(e) /\ ~Overlaps(e)'
           /\ \A d \in Clients : Key(d) = Key(e) => Unraced(d)
<1>1. \A d \in Clients : Key(d) = Key(e) => d \notin raced'
  BY DEF Unraced, Key
<1>2. raced' = raced \cup {d \in Clients : Overlaps(d)'}
  BY DEF Noted
<1>3. \A d \in Clients : Key(d) = Key(e) => d \notin raced
  BY <1>1, <1>2
<1>4. ~Overlaps(e)'
  BY <1>1, <1>2
<1>5. QED BY <1>3, <1>4 DEF Unraced

\* The keys of the producers of a table.
LEMMA EntryInUse ==
    ASSUME TypeOK, NEW f \in Factories, NEW e \in Clients, members[f][Key(e)] = e, factory[f].inner
    PROVE  InUse(f)
<1>1. Key(e) \in Keys /\ Registered(f, Key(e))
  BY KeyInKeys, LifecycleAssumption DEF Registered
<1>2. CASE ~Key(e)[1]
  BY <1>1, <1>2 DEF InUse
<1>3. CASE Key(e)[1]
  <2> DEFINE Held == {k \in Keys : k[1] /\ Registered(f, k)}
  <2>1. IsFiniteSet(Keys)
    <3>1. [c \in Clients |-> Key(c)] \in Surjection(Clients, Keys)
      BY DEF Surjection, Keys
    <3>2. QED BY <3>1, FS_Surjection, LifecycleAssumption
  <2>2. IsFiniteSet(Held)
    BY <2>1, FS_Subset
  <2>3. Held # {}
    BY <1>1, <1>3
  <2>4. Cardinality(Held) \in Nat /\ Cardinality(Held) # 0
    BY <2>2, <2>3, FS_EmptySet, FS_CardinalityType
  <2>5. QED BY <2>4 DEF InUse, Producers
<1>4. QED BY <1>2, <1>3

\* Which factories a client's step changes, and how.
LEMMA FactoryChange ==
    ASSUME IInv, NEW c \in Clients, StepOf(c), NEW f \in Factories, factory[f].live, factory[f].inner
    PROVE  \/ factory'[f].live /\ factory'[f].inner
           \/ f = fac[c] /\ pc[c] \in {"lock", "remove"}
<1>0. TypeOK /\ FactoriesOK
  BY DEF IInv
<1>1. CASE FactoryStarts(c)
  <2>1. \/ factory'[f] = factory[f]
        \/ factory'[f] = [factory[f] EXCEPT !.state = "RUNNING", !.live = TRUE, !.inner = TRUE]
    BY <1>0, <1>1 DEF FactoryStarts, TypeOK
  <2>2. QED BY <1>0, <2>1 DEF TypeOK
<1>2. CASE FactoryStartFails(c)
  <2>1. factory[fac[c]].state = "CREATE_JUST"
    BY <1>2 DEF FactoryStartFails
  <2>2. f # fac[c]
    BY <1>0, <2>1 DEF FactoriesOK
  <2>3. PICK started \in BOOLEAN :
           factory' = [factory EXCEPT ![fac[c]] = [@ EXCEPT !.state = "START_FAILED", !.live = started]]
    BY <1>2, Zenon DEF FactoryStartFails
  <2>4. QED BY <1>0, <2>2, <2>3 DEF TypeOK
<1>3. CASE FactoryStops(c)
  <2>1. pc[c] = "lock" /\ (f # fac[c] => factory'[f] = factory[f])
    BY <1>0, <1>3 DEF FactoryStops, TypeOK
  <2>2. QED BY <2>1
<1>4. CASE RemoveClientFactory(c)
  <2>1. pc[c] = "remove" /\ (f # fac[c] => factory'[f] = factory[f])
    BY <1>0, <1>4 DEF RemoveClientFactory, TypeOK
  <2>2. QED BY <2>1
<1>5. CASE ~FactoryStarts(c) /\ ~FactoryStartFails(c) /\ ~FactoryStops(c) /\ ~RemoveClientFactory(c)
  <2>1. factory' = factory
    BY <1>5 DEF StepOf, StartBegins, GetAndCreateMQClientFactory, RegisterFinds, RegisterInserts,
         FactoryStarted, StartEnds, ShutdownBegins, StopConsuming, PersistConsumerOffset, Unregister,
         TestTables, ShutdownEnds, Consumes, shared
  <2>2. QED BY <2>1
<1>6. QED BY <1>1, <1>2, <1>3, <1>4, <1>5

\* The manager changes when it has no factory and when a factory is taken out.
LEMMA ManagerChange ==
    ASSUME IInv, NEW c \in Clients, StepOf(c)
    PROVE  \/ manager' = manager
           \/ GetAndCreateMQClientFactory(c) /\ manager = 0
           \/ RemoveClientFactory(c) /\ pc[c] = "remove" /\ pc'[c] = "down" /\ fac[c] = manager
<1>0. TypeOK /\ ClientsOK /\ FactoriesOK
  BY DEF IInv
<1>1. CASE GetAndCreateMQClientFactory(c)
  BY <1>1 DEF GetAndCreateMQClientFactory
<1>2. CASE RemoveClientFactory(c)
  <2>1. pc[c] = "remove" /\ pc'[c] = "down"
    BY <1>0, <1>2 DEF RemoveClientFactory, Goes, TypeOK
  <2>2. fac[c] \in Factories /\ fac[c] <= created
    BY <1>0, <2>1, FactoryOfClient
  <2>3. factory[fac[c]].state = "RUNNING"
    BY <1>0, <2>1 DEF FactoriesOK
  <2>4. QED BY <1>0, <1>2, <2>1, <2>2, <2>3 DEF FactoriesOK
<1>3. CASE ~GetAndCreateMQClientFactory(c) /\ ~RemoveClientFactory(c)
  BY <1>3, FailsFrame DEF StepOf, StartBegins, RegisterFinds, RegisterInserts, FactoryStarts,
     FactoryStarted, StartEnds, ShutdownBegins, StopConsuming, PersistConsumerOffset, Unregister,
     TestTables, FactoryStops, ShutdownEnds, Consumes, shared
<1>4. QED BY <1>1, <1>2, <1>3

\* An undisturbed start works with the factory the manager has, until shutdown.
LEMMA ServedManager ==
    ASSUME IInv, NEW c \in Clients, StepOf(c), NEW e \in Clients, Unraced(e),
           pc'[e] \in {"find", "insert"} \/ Entered(e)'
    PROVE  fac'[e] = manager'
<1>0. TypeOK /\ ClientsOK /\ FactoriesOK /\ ServedOK
  BY DEF IInv
<1>1. CASE GetAndCreateMQClientFactory(c) /\ e = c
  BY <1>1, GetsManager
<1>2. CASE ~(GetAndCreateMQClientFactory(c) /\ e = c)
  <2>1. (pc[e] \in {"find", "insert"} \/ Entered(e)) /\ fac'[e] = fac[e]
    <3>1. CASE e # c
      <4>1. pc'[e] = pc[e] /\ state'[e] = state[e] /\ fac'[e] = fac[e]
        BY <1>0, <3>1, OthersStay
      <4>2. QED BY <4>1 DEF Entered
    <3>2. CASE e = c
      <4>1. ~GetAndCreateMQClientFactory(c)
        BY <1>2, <3>2
      <4>2. pc[c] # "get" \/ pc'[c] = "get"
        BY <1>0, <4>1, FailsFrame DEF StepOf, StartBegins, RegisterFinds, RegisterInserts, FactoryStarts,
          FactoryStarted, StartEnds, ShutdownBegins, StopConsuming, PersistConsumerOffset, Unregister,
          TestTables, FactoryStops, RemoveClientFactory, ShutdownEnds, Consumes
      <4>3. Moves(c) /\ (Entered(c)' => Entered(c) \/ pc[c] = "insert")
        BY <1>0, StepMoves, EnteredMoves
      <4>4. pc'[c] \in {"find", "insert"} => pc[c] \in {"find", "insert"}
        BY <4>2, <4>3 DEF Moves
      <4>5. pc[c] \in {"find", "insert"} \/ Entered(c)
        BY <3>2, <4>3, <4>4
      <4>6. QED BY <1>0, <3>2, <4>5, EnteredMoves
    <3>3. QED BY <3>1, <3>2
  <2>2. fac[e] = manager /\ fac[e] # 0
    BY <1>0, <2>1 DEF ServedOK, ClientsOK, Entered
  <2>3. ~(RemoveClientFactory(c) /\ pc[c] = "remove" /\ pc'[c] = "down" /\ fac[c] = manager)
    <3> SUFFICES ASSUME pc[c] = "remove", pc'[c] = "down", fac[c] = manager
                 PROVE  FALSE
      OBVIOUS
    <3>1. e # c
      BY DEF Entered
    <3>2. CASE Entered(e)
      BY <1>0, <2>2, <3>2 DEF ServedOK
    <3>3. CASE pc[e] \in {"find", "insert"}
      <4>1. Overlaps(e)
        BY <3>1, <3>3 DEF Overlaps, Starting, ShuttingDown
      <4>2. QED BY <1>0, <4>1 DEF ServedOK, Unraced
    <3>4. QED BY <2>1, <3>2, <3>3
  <2>4. QED BY <2>1, <2>2, <2>3, ManagerChange
<1>3. QED BY <1>1, <1>2

\* The client that has just entered.
LEMMA ServedNew ==
    ASSUME IInv, NEW c \in Clients, StepOf(c), ~Overlaps(c)', pc[c] = "insert", pc'[c] # "insert"
    PROVE  /\ members'[fac'[c]][Key(c)] = c
           /\ \A d \in Clients : /\ pc'[d] \in {"lock", "remove"} => fac'[d] # fac'[c]
                                 /\ pc'[d] = "insert" => Key(d) # Key(c)
<1>0. TypeOK /\ ClientsOK
  BY DEF IInv
<1>1. pc'[c] = "fstart" /\ fac'[c] = fac[c]
  BY <1>0, StepMoves, EnteredMoves DEF Moves
<1>2. members'[fac[c]][Key(c)] = c
  BY TablesStep
<1>3. \A d \in Clients \ {c} : ~ShuttingDown(d)' /\ ~(Starting(d)' /\ Key(d) = Key(c))
  BY <1>1 DEF Overlaps, Starting, ShuttingDown, Key
<1>4. QED BY <1>1, <1>2, <1>3 DEF ShuttingDown, Starting

\* A client that was entered before stays so, and stays alone.
LEMMA ServedOld ==
    ASSUME IInv, NEW c \in Clients, StepOf(c), NEW e \in Clients, Unraced(e), Entered(e), Entered(e)'
    PROVE  /\ members'[fac'[e]][Key(e)] = e
           /\ \A d \in Clients : /\ pc'[d] \in {"lock", "remove"} => fac'[d] # fac'[e]
                                 /\ pc'[d] = "insert" => Key(d) # Key(e)
<1>0. TypeOK /\ ClientsOK /\ ServedOK
  BY DEF IInv
<1>1. \A d \in Clients \ {c} : pc'[d] = pc[d] /\ state'[d] = state[d] /\ fac'[d] = fac[d]
  BY <1>0, OthersStay
<1>2. fac'[e] = fac[e] /\ fac[e] \in Factories /\ Key(e) \in Keys
  <2>1. fac'[e] = fac[e]
    BY <1>0, <1>1, EnteredMoves
  <2>2. pc[e] \notin {"idle", "get"} \/ state[e] = "RUNNING"
    BY DEF Entered
  <2>3. QED BY <1>0, <2>1, <2>2, FactoryOfClient, KeyInKeys
<1>3. /\ members[fac[e]][Key(e)] = e /\ fac[e] = manager
      /\ \A d \in Clients : /\ pc[d] \in {"lock", "remove"} => fac[d] # fac[e]
                            /\ pc[d] = "insert" => Key(d) # Key(e)
  BY <1>0 DEF ServedOK
<1>4. members'[fac[e]][Key(e)] = e
  <2>1. SUFFICES ASSUME members'[fac[e]][Key(e)] # members[fac[e]][Key(e)]
                 PROVE  FALSE
    BY <1>3
  <2>2. /\ fac[e] = fac[c] /\ Key(e) = Key(c)
        /\ pc[c] = "insert" \/ (pc[c] = "unregister" /\ pc'[c] = "test")
    BY <1>2, <2>1, TablesStep
  <2>3. pc[c] = "unregister" /\ pc'[c] = "test"
    BY <1>3, <2>2
  <2>4. Unraced(c) /\ Entered(c)
    BY <2>2, <2>3 DEF Unraced, Entered
  <2>5. members[fac[c]][Key(c)] = c
    BY <1>0, <2>4 DEF ServedOK
  <2>6. e = c
    BY <1>3, <2>2, <2>5
  <2>7. QED BY <2>3, <2>6 DEF Entered
<1>5. ASSUME NEW d \in Clients, pc'[d] \in {"lock", "remove"}
      PROVE  fac'[d] # fac[e]
  <2>1. CASE pc[d] \in {"lock", "remove"}
    <3>1. fac'[d] = fac[d]
      BY <1>0, <1>1, <2>1, StepMoves
    <3>2. QED BY <1>3, <2>1, <3>1
  <2>2. CASE pc[d] \notin {"lock", "remove"}
    <3>1. d = c /\ pc[c] = "test" /\ pc'[c] = "lock" /\ fac'[c] = fac[c]
      BY <1>0, <1>1, <1>5, <2>2, StepMoves DEF Moves
    <3>2. ~InUse(fac[c])
      <4>1. TestTables(c) \/ Consumes(c)
        BY <3>1, FailsFrame DEF StepOf, StartBegins, GetAndCreateMQClientFactory, RegisterFinds,
           RegisterInserts, FactoryStarts, FactoryStarted, StartEnds, ShutdownBegins, StopConsuming,
           PersistConsumerOffset, Unregister, FactoryStops, RemoveClientFactory, ShutdownEnds
      <4>2. TestTables(c)
        BY <3>1, <4>1 DEF Consumes
      <4>3. pc' = [pc EXCEPT ![c] = IF InUse(fac[c]) THEN "down" ELSE "lock"]
        BY <4>2 DEF TestTables, Goes
      <4>4. QED BY <1>0, <3>1, <4>3 DEF TypeOK
    <3>3. pc[e] # "fstart"
      <4>1. SUFFICES ASSUME pc[e] = "fstart" PROVE FALSE
        OBVIOUS
      <4>2. Overlaps(e)
        BY <3>1, <4>1 DEF Overlaps, Starting, ShuttingDown
      <4>3. QED BY <1>0, <4>2 DEF ServedOK, Unraced
    <3>4. factory[fac[e]].inner
      BY <1>0, <3>3 DEF ServedOK
    <3>5. InUse(fac[e])
      BY <1>0, <1>2, <1>3, <3>4, EntryInUse
    <3>6. QED BY <3>1, <3>2, <3>5
  <2>3. QED BY <2>1, <2>2
<1>6. ASSUME NEW d \in Clients, pc'[d] = "insert"
      PROVE  Key(d) # Key(e)
  <2>1. CASE pc[d] = "insert"
    BY <1>3, <2>1
  <2>2. CASE pc[d] # "insert"
    <3>1. d = c /\ pc[c] = "find" /\ pc'[c] = "insert"
      BY <1>0, <1>1, <1>6, <2>2, StepMoves DEF Moves
    <3>2. SUFFICES ASSUME Key(d) = Key(e) PROVE FALSE
      OBVIOUS
    <3>3. Unraced(c)
      BY <3>1, <3>2 DEF Unraced
    <3>4. fac[c] = manager
      BY <1>0, <3>1, <3>3 DEF ServedOK
    <3>5. members[fac[c]][Key(c)] # None
      BY <1>3, <3>1, <3>2, <3>4, LifecycleAssumption
    <3>6. RegisterFinds(c) \/ Consumes(c)
      BY <3>1, FailsFrame DEF StepOf, StartBegins, GetAndCreateMQClientFactory, RegisterInserts,
         FactoryStarts, FactoryStarted, StartEnds, ShutdownBegins, StopConsuming, PersistConsumerOffset,
         Unregister, TestTables, FactoryStops, RemoveClientFactory, ShutdownEnds
    <3>7. pc'[c] \in {"idle", "find"}
      BY <1>0, <3>1, <3>5, <3>6 DEF RegisterFinds, Consumes, Goes, TypeOK
    <3>8. QED BY <3>1, <3>7
  <2>3. QED BY <2>1, <2>2
<1>7. QED BY <1>2, <1>4, <1>5, <1>6

\* The factory of a client that was served runs with its inner producer.
LEMMA ServedLive ==
    ASSUME IInv, NEW c \in Clients, StepOf(c), NEW e \in Clients, Unraced(e), Entered(e)', pc'[e] # "fstart"
    PROVE  factory'[fac'[e]].live /\ factory'[fac'[e]].inner
<1>0. TypeOK /\ ClientsOK /\ FactoriesOK /\ ServedOK
  BY DEF IInv
<1>1. \A d \in Clients \ {c} : pc'[d] = pc[d] /\ state'[d] = state[d] /\ fac'[d] = fac[d]
  BY <1>0, OthersStay
<1>2. Entered(e) /\ fac'[e] = fac[e]
  <2>1. CASE e # c
    BY <1>1, <2>1 DEF Entered
  <2>2. CASE e = c
    <3>1. pc[c] = "insert" => pc'[c] \in {"fstart", "insert"}
      BY <1>0, StepMoves DEF Moves
    <3>2. ~(pc'[c] = "insert") /\ pc[c] # "insert"
      BY <2>2, <3>1 DEF Entered
    <3>3. QED BY <1>0, <2>2, <3>2, EnteredMoves
  <2>3. QED BY <2>1, <2>2
<1>3. fac[e] \in Factories /\ fac[e] <= created
  <2>1. pc[e] \notin {"idle", "get"} \/ state[e] = "RUNNING"
    BY <1>2 DEF Entered
  <2>2. QED BY <1>0, <2>1, FactoryOfClient
<1>4. /\ fac[e] = manager
      /\ \A d \in Clients : pc[d] \in {"lock", "remove"} => fac[d] # fac[e]
  BY <1>0, <1>2 DEF ServedOK
<1>5. CASE pc[e] # "fstart"
  <2>1. factory[fac[e]].live /\ factory[fac[e]].inner
    BY <1>0, <1>2, <1>5 DEF ServedOK
  <2>2. QED BY <1>2, <1>3, <1>4, <2>1, FactoryChange
<1>6. CASE pc[e] = "fstart"
  <2>1. e = c /\ pc'[c] = "run"
    <3>1. e = c
      BY <1>1, <1>6
    <3>2. state[c] = "START_FAILED"
      BY <1>0, <1>6, <3>1 DEF ClientsOK, Starting
    <3>3. pc'[c] \in {"run", "idle"} /\ state'[c] = state[c]
      BY <1>0, <1>6, <3>1, StepMoves DEF Moves
    <3>4. QED BY <3>1, <3>2, <3>3 DEF Entered
  <2>2. FactoryStarts(c) \/ FactoryStarted(c)
    <3>1. FactoryStarts(c) \/ FactoryStartFails(c) \/ FactoryStarted(c) \/ Consumes(c)
      BY <1>6, <2>1 DEF StepOf, StartBegins, GetAndCreateMQClientFactory, RegisterFinds, RegisterInserts,
         StartEnds, ShutdownBegins, StopConsuming, PersistConsumerOffset, Unregister, TestTables,
         FactoryStops, RemoveClientFactory, ShutdownEnds
    <3>2. ~Consumes(c)
      BY <1>6, <2>1 DEF Consumes
    <3>3. FactoryStartFails(c) => pc' = [pc EXCEPT ![c] = "idle"]
      BY DEF FactoryStartFails, Goes
    <3>4. ~FactoryStartFails(c)
      BY <1>0, <2>1, <3>3 DEF TypeOK
    <3>5. QED BY <3>1, <3>2, <3>4
  <2>3. CASE FactoryStarts(c)
    <3>1. factory'[fac[c]] = [factory[fac[c]] EXCEPT !.state = "RUNNING", !.live = TRUE, !.inner = TRUE]
      BY <1>0, <1>3, <2>1, <2>3 DEF FactoryStarts, TypeOK
    <3>2. QED BY <1>0, <1>2, <1>3, <2>1, <3>1 DEF TypeOK
  <2>4. CASE FactoryStarted(c)
    <3>1. /\ factory' = factory /\ factory[fac[c]].state # "CREATE_JUST"
          /\ pc' = [pc EXCEPT ![c] = IF factory[fac[c]].state = "START_FAILED" THEN "idle" ELSE "run"]
      BY <2>4 DEF FactoryStarted, Goes, shared
    <3>2. factory[fac[c]].state # "START_FAILED"
      BY <1>0, <2>1, <3>1 DEF TypeOK
    <3>3. factory[fac[c]].state # "SHUTDOWN_ALREADY"
      BY <1>0, <1>3, <1>4, <2>1 DEF FactoriesOK
    <3>4. factory[fac[c]].state = "RUNNING"
      BY <1>0, <1>3, <2>1, <3>1, <3>2, <3>3 DEF TypeOK, States
    <3>5. factory[fac[c]].live
      BY <1>0, <1>3, <2>1, <3>4 DEF FactoriesOK
    <3>6. factory[fac[c]].inner
      BY <1>0, <1>3, <1>4, <2>1, <3>4 DEF FactoriesOK
    <3>7. QED BY <1>2, <2>1, <3>1, <3>5, <3>6
  <2>5. QED BY <2>2, <2>3, <2>4
<1>7. QED BY <1>5, <1>6

\* No step of another client takes away what an undisturbed client was given.
LEMMA ServedStep ==
    ASSUME IInv, NEW c \in Clients, StepOf(c), Noted
    PROVE  ServedOK'
<1>0. TypeOK /\ ClientsOK
  BY DEF IInv
<1>1. ASSUME NEW e \in Clients, Overlaps(e)'
      PROVE  e \in raced'
  BY <1>1 DEF Noted
<1>2. ASSUME NEW e \in Clients, Unraced(e)', pc'[e] \in {"find", "insert"} \/ Entered(e)'
      PROVE  fac'[e] = manager'
  BY <1>2, UnracedStays, ServedManager
<1>3. ASSUME NEW e \in Clients, Unraced(e)', Entered(e)'
      PROVE  /\ members'[fac'[e]][Key(e)] = e
             /\ \A d \in Clients : /\ pc'[d] \in {"lock", "remove"} => fac'[d] # fac'[e]
                                   /\ pc'[d] = "insert" => Key(d) # Key(e)
  <2>1. Unraced(e) /\ ~Overlaps(e)'
    BY <1>3, UnracedStays
  <2>2. CASE Entered(e)
    BY <1>3, <2>1, <2>2, ServedOld
  <2>3. CASE ~Entered(e)
    <3>1. e = c
      <4>1. SUFFICES ASSUME e # c PROVE FALSE
        OBVIOUS
      <4>2. pc'[e] = pc[e] /\ state'[e] = state[e]
        BY <1>0, <4>1, OthersStay
      <4>3. QED BY <1>3, <2>3, <4>2 DEF Entered
    <3>2. pc[c] = "insert" /\ pc'[c] # "insert"
      <4>1. pc[c] = "insert"
        BY <1>0, <1>3, <2>3, <3>1, EnteredMoves
      <4>2. QED BY <1>3, <3>1, <4>1 DEF Entered
    <3>3. QED BY <2>1, <3>1, <3>2, ServedNew
  <2>4. QED BY <2>2, <2>3
<1>4. ASSUME NEW e \in Clients, Unraced(e)', Entered(e)', pc'[e] # "fstart"
      PROVE  factory'[fac'[e]].live /\ factory'[fac'[e]].inner
  BY <1>4, UnracedStays, ServedLive
<1>5. QED BY <1>1, <1>2, <1>3, <1>4 DEF ServedOK, Key

-----------------------------------------------------------------------------
(* The theorems. *)

\* The timer of a factory, and a step that changes nothing.
LEMMA FrameIInv ==
    ASSUME IInv,
           UNCHANGED <<state, pc, fac, factory, members, manager, created, serving, consumed, missed, faults>>,
           raced \subseteq raced', raced' \subseteq Clients,
           stored' \in [Clients -> Nat], copied' \in [Clients -> Nat \cup {NoCopy}],
           \A c \in Clients : Kind[c] = "push" /\ Persisted(c) /\ Settled(c) => Settled(c)'
    PROVE  IInv'
<1>1. TypeOK'
  BY DEF IInv, TypeOK
<1>2. ClientsOK'
  BY DEF IInv, ClientsOK, ShuttingDown, Starting
<1>3. ProgressOK'
  BY DEF IInv, ProgressOK, Persisted
<1>4. FactoriesOK'
  BY FactoriesFrame
<1>5. \A c \in Clients : /\ Entered(c)' <=> Entered(c)
                         /\ Overlaps(c)' <=> Overlaps(c)
                         /\ Unraced(c)' => Unraced(c)
  BY DEF Entered, Overlaps, Starting, ShuttingDown, Unraced, Key
<1>6. KeptOK'
  <2>1. KeptOK
    BY DEF IInv
  <2>2. SUFFICES ASSUME faults' = 0
                 PROVE  /\ \A f \in Factories, k \in Keys, c \in Clients :
                              members'[f][k] = c => fac'[c] = f /\ Key(c) = k /\ Entered(c)'
                        /\ \A f \in Factories : factory'[f].live => \E c \in Clients : Keeps(c, f)'
    BY DEF KeptOK, Key, Factories, Keys
  <2>3. \A c \in Clients, f \in Factories : Keeps(c, f)' <=> Keeps(c, f)
    BY <1>5 DEF Keeps
  <2>4. QED BY <1>5, <2>1, <2>2, <2>3 DEF KeptOK
<1>7. ServedOK'
  <2>1. ServedOK
    BY DEF IInv
  <2>2. \A c \in Clients : Overlaps(c)' => c \in raced'
    BY <1>5, <2>1 DEF ServedOK
  <2>3. \A c \in Clients : Unraced(c)' /\ (pc'[c] \in {"find", "insert"} \/ Entered(c)') => fac'[c] = manager'
    BY <1>5, <2>1 DEF ServedOK
  <2>4. \A c \in Clients : Unraced(c)' /\ Entered(c)' =>
           /\ members'[fac'[c]][Key(c)] = c
           /\ \A d \in Clients : /\ pc'[d] \in {"lock", "remove"} => fac'[d] # fac'[c]
                                 /\ pc'[d] = "insert" => Key(d) # Key(c)
    BY <1>5, <2>1 DEF ServedOK
  <2>5. \A c \in Clients : Unraced(c)' /\ Entered(c)' /\ pc'[c] # "fstart" =>
           factory'[fac'[c]].live /\ factory'[fac'[c]].inner
    BY <1>5, <2>1 DEF ServedOK
  <2>6. QED BY <2>2, <2>3, <2>4, <2>5 DEF ServedOK, Key
<1>8. QED BY <1>1, <1>2, <1>3, <1>4, <1>6, <1>7 DEF IInv

\* Every step of every client keeps the invariant.
LEMMA NextIInv == IInv /\ [Next]_vars => IInv'
<1> SUFFICES ASSUME IInv, [Next]_vars PROVE IInv'
  OBVIOUS
<1>0. TypeOK
  BY DEF IInv
<1>1. ASSUME NEW c \in Clients, StepOf(c), Noted
      PROVE  IInv'
  <2>1. TypeOK'
    BY <1>1, StepTypeOK
  <2>2. QED BY <1>1, <2>1, ClientsStep, ProgressStep, FactoriesStep, KeptStep, ServedStep DEF IInv
<1>2. ASSUME NEW c \in Clients, NEW f \in Factories, PersistAllCopies(f, c), Noted
      PROVE  IInv'
  <2>1. /\ UNCHANGED <<state, pc, fac, factory, members, manager, created, serving, consumed, stored, missed, faults>>
        /\ copied' = [copied EXCEPT ![c] = consumed[c]]
    BY <1>2 DEF PersistAllCopies, shared
  <2>2. raced \subseteq raced' /\ raced' \subseteq Clients
    BY <1>0, <1>2 DEF Noted, TypeOK
  <2>3. stored' \in [Clients -> Nat] /\ copied' \in [Clients -> Nat \cup {NoCopy}]
    BY <1>0, <2>1 DEF TypeOK
  <2>4. \A d \in Clients : Settled(d) => Settled(d)'
    BY <1>0, <2>1 DEF Settled, TypeOK
  <2>5. QED BY <2>1, <2>2, <2>3, <2>4, FrameIInv
<1>3. ASSUME NEW c \in Clients, PersistAllSends(c), Noted
      PROVE  IInv'
  <2>1. PICK sent \in BOOLEAN :
           /\ copied[c] # NoCopy /\ copied' = [copied EXCEPT ![c] = NoCopy]
           /\ stored' = [stored EXCEPT ![c] = IF sent THEN copied[c] ELSE @]
           /\ UNCHANGED <<state, pc, fac, factory, members, manager, created, serving, consumed, missed, faults>>
    BY <1>3 DEF PersistAllSends, UpdateConsumeOffsetToBroker, shared
  <2>2. raced \subseteq raced' /\ raced' \subseteq Clients
    BY <1>0, <1>3 DEF Noted, TypeOK
  <2>3. stored' \in [Clients -> Nat] /\ copied' \in [Clients -> Nat \cup {NoCopy}]
    BY <1>0, <2>1 DEF TypeOK
  <2>4. \A d \in Clients : Settled(d) => Settled(d)'
    BY <1>0, <2>1 DEF Settled, TypeOK
  <2>5. QED BY <2>1, <2>2, <2>3, <2>4, FrameIInv
<1>4. CASE UNCHANGED vars
  <2>1. UNCHANGED <<state, pc, fac, factory, members, manager, created, faults, raced>>
    BY <1>4 DEF vars, shared
  <2>2. UNCHANGED <<serving, consumed, stored, copied, missed>>
    BY <1>4 DEF vars, progress
  <2>3. \A c \in Clients : Settled(c)' <=> Settled(c)
    BY <2>2 DEF Settled
  <2>4. QED BY <1>0, <2>1, <2>2, <2>3, FrameIInv DEF TypeOK
<1>5. QED BY <1>1, <1>2, <1>3, <1>4 DEF Next

\* The invariant holds throughout.
LEMMA IInvHolds == Spec => []IInv
BY InitIInv, NextIInv, PTL DEF Spec

\* A client whose start overlapped neither a shutdown nor a start of its group
\* is served once start() has returned: by the manager's factory, which runs,
\* and under its own entry, whatever the other clients have done since.
THEOREM RunningIsServedHolds == Spec => []RunningIsServed
<1>1. IInv => RunningIsServed
  BY DEF IInv, ServedOK, Unraced, Entered, RunningIsServed
<1>2. QED BY <1>1, IInvHolds, PTL

\* The threads of at most one factory run, and, while no thread could not be
\* created, the last shutdown of MQClientFactory leaves none.
THEOREM FactoryThreadsHolds == Spec => []FactoryThreads
<1>1. ASSUME IInv PROVE FactoryThreads
  <2>0. TypeOK /\ ClientsOK /\ FactoriesOK /\ KeptOK
    BY <1>1 DEF IInv
  <2>1. ASSUME NEW f \in Factories, factory[f].live
        PROVE  f = manager
    <3>1. factory[f].state \in {"RUNNING", "START_FAILED"}
      BY <2>0, <2>1 DEF FactoriesOK
    <3>2. f \in Int /\ created \in Int
      BY <2>0 DEF TypeOK, Factories
    <3>3. QED BY <2>0, <3>1, <3>2 DEF FactoriesOK
  <2>2. ASSUME faults = 0, \A c \in Clients : pc[c] = "idle" /\ state[c] # "RUNNING",
               NEW f \in Factories, factory[f].live
        PROVE  FALSE
    <3>1. PICK c \in Clients : Keeps(c, f)
      BY <2>0, <2>2 DEF KeptOK
    <3>2. QED BY <2>2, <3>1 DEF Keeps, Entered
  <2>3. QED BY <2>1, <2>2 DEF FactoryThreads
<1>2. QED BY <1>1, IInvHolds, PTL

\* shutdown() of a push consumer whose last store got through, with no older copy
\* of the timer under way, ends with its progress at the broker: nothing is
\* consumed after the pool was destroyed, and no later step of the timer or of
\* another client undoes it.
THEOREM StoredOnShutdownHolds == Spec => []StoredOnShutdown
<1>1. IInv => StoredOnShutdown
  BY DEF IInv, ProgressOK, Persisted, Settled, StoredOnShutdown
<1>2. QED BY <1>1, IInvHolds, PTL

-----------------------------------------------------------------------------
(* Routes and addresses. *)

UpdStages == {"idle", "fetch", "addrs", "tables", "unlock"}

ClnStages == {"idle", "filter", "write", "beat", "send"}

RouteTypeOK ==
    /\ namesrv \in [TopicSet -> SUBSET Brokers]
    /\ routeTable \in [TopicSet -> (SUBSET Brokers) \cup {NoRoute}]
    /\ publish \in [TopicSet -> (SUBSET Brokers) \cup {NoRoute}]
    /\ upd \in [Updaters -> [pc : UpdStages, next : 1 .. Len(Topics), data : SUBSET Brokers]]
    /\ cln \in [pc : ClnStages, copy : SUBSET Brokers]
    /\ addrTable \in SUBSET Brokers /\ overlapped \in BOOLEAN

\* The producers know what the route table knows.
PublishOK == publish = routeTable

\* A thread between the address table and the route table has left its addresses.
UpdatersOK ==
    \A u \in Updaters : upd[u].pc = "tables" =>
       upd[u].data \subseteq addrTable /\ cln.pc \notin {"filter", "write"}

\* What cleanOfflineBroker is about to write back names the brokers of all routes.
CleanerOK ==
    cln.pc \in {"filter", "write"} => \A t \in TopicSet : Brk(routeTable, t) \subseteq cln.copy

RouteOK == \A t \in TopicSet : Brk(routeTable, t) \subseteq addrTable

AddrInv == ~overlapped => RouteOK /\ UpdatersOK /\ CleanerOK

RouteIInv == RouteTypeOK /\ PublishOK /\ AddrInv

\* The topic an updater is at is one of the topics.
LEMMA TopicOf == ASSUME RouteTypeOK, NEW u \in Updaters PROVE Topic(u) \in TopicSet
<1>1. upd[u].next \in 1 .. Len(Topics)
  BY DEF RouteTypeOK
<1> QED BY <1>1 DEF Topic, TopicSet

\* No route is known and nothing is under way.
LEMMA RouteInitIInv == RouteInit => RouteIInv
<1> SUFFICES ASSUME RouteInit PROVE RouteIInv
  OBVIOUS
<1>1. Len(Topics) \in Nat /\ Len(Topics) >= 1
  BY RoutesAssumption, EmptySeq, LenProperties
<1>2. RouteTypeOK
  <2>1. [pc |-> "idle", next |-> 1, data |-> {}]
          \in [pc : UpdStages, next : 1 .. Len(Topics), data : SUBSET Brokers]
    BY <1>1 DEF UpdStages
  <2>2. upd \in [Updaters -> [pc : UpdStages, next : 1 .. Len(Topics), data : SUBSET Brokers]]
    BY <2>1 DEF RouteInit
  <2>3. cln \in [pc : ClnStages, copy : SUBSET Brokers]
    BY DEF RouteInit, ClnStages
  <2>4. namesrv \in [TopicSet -> SUBSET Brokers]
    BY RoutesAssumption DEF RouteInit
  <2>5. /\ routeTable \in [TopicSet -> (SUBSET Brokers) \cup {NoRoute}]
        /\ publish \in [TopicSet -> (SUBSET Brokers) \cup {NoRoute}]
    <3>1. \A S : [t \in TopicSet |-> NoRoute] \in [TopicSet -> S \cup {NoRoute}]
      OBVIOUS
    <3> QED BY <3>1 DEF RouteInit
  <2>6. addrTable \in SUBSET Brokers /\ overlapped \in BOOLEAN
    BY DEF RouteInit
  <2> QED BY <2>2, <2>3, <2>4, <2>5, <2>6 DEF RouteTypeOK
<1>3. PublishOK
  BY DEF RouteInit, PublishOK
<1>4. AddrInv
  BY DEF RouteInit, AddrInv, RouteOK, UpdatersOK, CleanerOK, Brk
<1> QED BY <1>2, <1>3, <1>4 DEF RouteIInv

\* Returning from an update, to the next topic or the first.
LEMMA ReturnsType ==
    ASSUME RouteTypeOK, NEW u \in Updaters, Returns(u)
    PROVE  /\ upd' \in [Updaters -> [pc : UpdStages, next : 1 .. Len(Topics), data : SUBSET Brokers]]
           /\ \A w \in Updaters : upd'[w].pc = "tables" => w # u /\ upd'[w] = upd[w]
<1>1. Len(Topics) \in Nat /\ Len(Topics) >= 1
  BY RoutesAssumption, EmptySeq, LenProperties
<1>2. PICK m \in 1 .. Len(Topics) :
         upd' = [upd EXCEPT ![u] = [pc |-> "idle", data |-> {}, next |-> m]]
  <2>1. upd[u].next \in Nat
    BY <1>1 DEF RouteTypeOK
  <2>2. (upd[u].next % Len(Topics)) + 1 \in 1 .. Len(Topics)
    BY <1>1, <2>1
  <2>3. 1 \in 1 .. Len(Topics)
    BY <1>1
  <2> QED BY <2>2, <2>3 DEF Returns
<1>3. [pc |-> "idle", data |-> {}, next |-> m]
        \in [pc : UpdStages, next : 1 .. Len(Topics), data : SUBSET Brokers]
  BY DEF UpdStages
<1> QED BY <1>2, <1>3 DEF RouteTypeOK

\* A thread goes on within the update.
LEMMA GoesToType ==
    ASSUME RouteTypeOK, NEW u \in Updaters, NEW p \in UpdStages, GoesTo(u, p)
    PROVE  /\ upd' \in [Updaters -> [pc : UpdStages, next : 1 .. Len(Topics), data : SUBSET Brokers]]
           /\ \A w \in Updaters : w # u => upd'[w] = upd[w]
           /\ upd'[u].pc = p /\ upd'[u].data = upd[u].data
BY DEF GoesTo, RouteTypeOK

\* What a step that leaves the tables alone has to show.
LEMMA RouteFrame ==
    ASSUME RouteIInv, UNCHANGED <<tables, overlapped>>, RouteTypeOK',
           \A w \in Updaters : upd'[w].pc = "tables" => upd[w].pc = "tables" /\ upd'[w].data = upd[w].data,
           \/ UNCHANGED cln
           \/ cln'.pc \notin {"filter", "write"}
    PROVE  RouteIInv'
<1>1. PublishOK'
  BY DEF RouteIInv, PublishOK, tables
<1>2. ASSUME ~overlapped PROVE RouteOK' /\ UpdatersOK' /\ CleanerOK'
  <2>1. RouteOK /\ UpdatersOK /\ CleanerOK
    BY <1>2 DEF RouteIInv, AddrInv
  <2>2. RouteOK'
    BY <2>1 DEF RouteOK, Brk, tables
  <2>3. UpdatersOK'
    BY <2>1 DEF UpdatersOK, tables
  <2>4. CleanerOK'
    BY <2>1 DEF CleanerOK, Brk, tables
  <2> QED BY <2>2, <2>3, <2>4
<1> QED BY <1>1, <1>2 DEF RouteIInv, AddrInv

\* The steps of a thread in updateTopicRouteInfoFromNameServer.
LEMMA InUpdateIInv == ASSUME RouteIInv, NEW u \in Updaters, InUpdate(u) PROVE RouteIInv'
<1>0. RouteTypeOK
  BY DEF RouteIInv
<1>1. CASE Fetch(u)
  <2>1. namesrv[Topic(u)] \in SUBSET Brokers
    BY <1>0, TopicOf DEF RouteTypeOK
  <2>2. \/ upd' = [upd EXCEPT ![u].pc = "addrs", ![u].data = namesrv[Topic(u)]]
        \/ GoesTo(u, "unlock")
    BY <1>1 DEF Fetch, GetTopicRouteInfoFromNameServer
  <2>3. /\ upd' \in [Updaters -> [pc : UpdStages, next : 1 .. Len(Topics), data : SUBSET Brokers]]
        /\ \A w \in Updaters : w # u => upd'[w] = upd[w]
        /\ upd'[u].pc \in {"addrs", "unlock"}
    <3>1. CASE upd' = [upd EXCEPT ![u].pc = "addrs", ![u].data = namesrv[Topic(u)]]
      BY <2>1, <3>1, <1>0 DEF RouteTypeOK, UpdStages
    <3>2. CASE GoesTo(u, "unlock")
      BY <3>2, <1>0, GoesToType DEF UpdStages
    <3> QED BY <2>2, <3>1, <3>2
  <2>4. RouteTypeOK' /\ UNCHANGED <<tables, overlapped, cln>>
    BY <1>0, <1>1, <2>3 DEF Fetch, RouteTypeOK, tables
  <2> QED BY <2>3, <2>4, RouteFrame
<1>2. CASE FetchFails(u)
  <2>1. GoesTo(u, "unlock") /\ UNCHANGED <<namesrv, tables, overlapped, cln>>
    BY <1>2 DEF FetchFails
  <2>2. /\ upd' \in [Updaters -> [pc : UpdStages, next : 1 .. Len(Topics), data : SUBSET Brokers]]
        /\ \A w \in Updaters : w # u => upd'[w] = upd[w]
        /\ upd'[u].pc = "unlock"
    BY <2>1, <1>0, GoesToType DEF UpdStages
  <2>3. RouteTypeOK'
    BY <1>0, <2>1, <2>2 DEF RouteTypeOK, tables
  <2> QED BY <2>1, <2>2, <2>3, RouteFrame
<1>3. CASE UpdateAddrs(u)
  <2>1. /\ addrTable' = addrTable \cup upd[u].data /\ GoesTo(u, "tables")
        /\ overlapped' = (overlapped \/ cln.pc \in {"filter", "write"})
        /\ UNCHANGED <<namesrv, routeTable, publish, cln>>
    BY <1>3 DEF UpdateAddrs, AddBrokers
  <2>2. /\ upd' \in [Updaters -> [pc : UpdStages, next : 1 .. Len(Topics), data : SUBSET Brokers]]
        /\ \A w \in Updaters : w # u => upd'[w] = upd[w]
        /\ upd'[u].pc = "tables" /\ upd'[u].data = upd[u].data
    BY <2>1, <1>0, GoesToType DEF UpdStages
  <2>3. upd[u].data \in SUBSET Brokers
    BY <1>0 DEF RouteTypeOK
  <2>4. RouteTypeOK'
    BY <1>0, <2>1, <2>2, <2>3 DEF RouteTypeOK
  <2>5. PublishOK'
    BY <2>1 DEF RouteIInv, PublishOK
  <2>6. ASSUME ~overlapped' PROVE RouteOK' /\ UpdatersOK' /\ CleanerOK'
    <3>1. ~overlapped /\ cln.pc \notin {"filter", "write"}
      BY <1>0, <2>1, <2>6 DEF RouteTypeOK
    <3>2. RouteOK /\ UpdatersOK
      BY <3>1 DEF RouteIInv, AddrInv
    <3>3. RouteOK'
      BY <3>2, <2>1 DEF RouteOK, Brk
    <3>4. UpdatersOK'
      BY <3>1, <3>2, <2>1, <2>2 DEF UpdatersOK
    <3>5. CleanerOK'
      BY <3>1, <2>1 DEF CleanerOK
    <3> QED BY <3>3, <3>4, <3>5
  <2> QED BY <2>4, <2>5, <2>6 DEF RouteIInv, AddrInv
<1>4. CASE UpdateTables(u)
  <2>1. /\ upd[u].pc = "tables"
        /\ publish' = [publish EXCEPT ![Topic(u)] = upd[u].data]
        /\ routeTable' = [routeTable EXCEPT ![Topic(u)] = upd[u].data]
        /\ overlapped' = (overlapped \/ cln.pc \in {"filter", "write"})
        /\ upd' = [upd EXCEPT ![u].pc = "unlock", ![u].data = {}]
        /\ UNCHANGED <<namesrv, addrTable, cln>>
    BY <1>4 DEF UpdateTables
  <2>2. /\ upd' \in [Updaters -> [pc : UpdStages, next : 1 .. Len(Topics), data : SUBSET Brokers]]
        /\ \A w \in Updaters : w # u => upd'[w] = upd[w]
        /\ upd'[u].pc = "unlock"
    BY <2>1, <1>0 DEF RouteTypeOK, UpdStages
  <2>3. upd[u].data \in SUBSET Brokers
    BY <1>0 DEF RouteTypeOK
  <2>4. RouteTypeOK'
    BY <1>0, <2>1, <2>2, <2>3 DEF RouteTypeOK
  <2>5. PublishOK'
    BY <2>1 DEF RouteIInv, PublishOK
  <2>6. ASSUME ~overlapped' PROVE RouteOK' /\ UpdatersOK' /\ CleanerOK'
    <3>1. ~overlapped /\ cln.pc \notin {"filter", "write"}
      BY <1>0, <2>1, <2>6 DEF RouteTypeOK
    <3>2. RouteOK /\ UpdatersOK
      BY <3>1 DEF RouteIInv, AddrInv
    <3>3. upd[u].data \subseteq addrTable
      BY <3>2, <2>1 DEF UpdatersOK
    <3>4. RouteOK'
      BY <3>2, <3>3, <2>1, <1>0 DEF RouteOK, Brk, RouteTypeOK
    <3>5. UpdatersOK'
      BY <3>2, <2>1, <2>2 DEF UpdatersOK
    <3>6. CleanerOK'
      BY <3>1, <2>1 DEF CleanerOK
    <3> QED BY <3>4, <3>5, <3>6
  <2> QED BY <2>4, <2>5, <2>6 DEF RouteIInv, AddrInv
<1>5. CASE Unlock(u)
  <2>1. Returns(u) /\ UNCHANGED <<namesrv, tables, overlapped, cln>>
    BY <1>5 DEF Unlock
  <2>2. /\ upd' \in [Updaters -> [pc : UpdStages, next : 1 .. Len(Topics), data : SUBSET Brokers]]
        /\ \A w \in Updaters : upd'[w].pc = "tables" => w # u /\ upd'[w] = upd[w]
    BY <2>1, <1>0, ReturnsType
  <2>3. RouteTypeOK'
    BY <1>0, <2>1, <2>2 DEF RouteTypeOK, tables
  <2> QED BY <2>1, <2>2, <2>3, RouteFrame
<1> QED BY <1>1, <1>2, <1>3, <1>4, <1>5 DEF InUpdate

\* Beginning an update, or finding the lock free and leaving it.
LEMMA TryLockIInv ==
    ASSUME RouteIInv, NEW u \in Updaters, NEW i \in 1 .. Len(Topics), TryLockNamesrv(u, i),
           UNCHANGED <<namesrv, tables, cln, overlapped>>
    PROVE  RouteIInv'
<1>0. RouteTypeOK
  BY DEF RouteIInv
<1>1. /\ upd' \in [Updaters -> [pc : UpdStages, next : 1 .. Len(Topics), data : SUBSET Brokers]]
      /\ \A w \in Updaters : upd'[w].pc = "tables" => upd'[w] = upd[w]
  <2>1. CASE upd' = [upd EXCEPT ![u] = [pc |-> "fetch", data |-> {}, next |-> i]]
    BY <2>1, <1>0 DEF RouteTypeOK, UpdStages
  <2>2. CASE Returns(u)
    BY <2>2, <1>0, ReturnsType
  <2> QED BY <2>1, <2>2 DEF TryLockNamesrv
<1>2. RouteTypeOK'
  BY <1>0, <1>1 DEF RouteTypeOK, tables
<1> QED BY <1>1, <1>2, RouteFrame

\* The steps of cleanBroker.
LEMMA CleanTimerIInv == ASSUME RouteIInv, CleanTimer PROVE RouteIInv'
<1>0. RouteTypeOK
  BY DEF RouteIInv
<1>1. CASE CleanCopies
  <2>1. /\ cln' = [pc |-> "filter", copy |-> addrTable]
        /\ overlapped' = (overlapped \/ \E u \in Updaters : upd[u].pc = "tables")
        /\ UNCHANGED <<namesrv, routeTable, addrTable, publish, upd>>
    BY <1>1 DEF CleanCopies, tables
  <2>2. RouteTypeOK'
    BY <1>0, <2>1 DEF RouteTypeOK, ClnStages
  <2>3. PublishOK'
    BY <2>1 DEF RouteIInv, PublishOK
  <2>4. ASSUME ~overlapped' PROVE RouteOK' /\ UpdatersOK' /\ CleanerOK'
    <3>1. ~overlapped /\ \A u \in Updaters : upd[u].pc # "tables"
      BY <2>1, <2>4
    <3>2. RouteOK
      BY <3>1 DEF RouteIInv, AddrInv
    <3>3. RouteOK'
      BY <3>2, <2>1 DEF RouteOK, Brk
    <3>4. UpdatersOK'
      BY <3>1, <2>1 DEF UpdatersOK
    <3>5. CleanerOK'
      BY <3>2, <2>1 DEF CleanerOK, RouteOK, Brk
    <3> QED BY <3>3, <3>4, <3>5
  <2> QED BY <2>2, <2>3, <2>4 DEF RouteIInv, AddrInv
<1>2. CASE CleanFilters
  <2>1. /\ cln.pc = "filter" /\ cln'.pc = "write"
        /\ cln' = [pc |-> "write",
                   copy |-> {b \in cln.copy : IsBrokerAddrExistInTopicRouteTable(b)}]
        /\ UNCHANGED <<namesrv, routeTable, addrTable, publish, upd, overlapped>>
    BY <1>2 DEF CleanFilters, tables
  <2>2. RouteTypeOK'
    BY <1>0, <2>1 DEF RouteTypeOK, ClnStages
  <2>3. PublishOK'
    BY <2>1 DEF RouteIInv, PublishOK
  <2>4. ASSUME ~overlapped' PROVE RouteOK' /\ UpdatersOK' /\ CleanerOK'
    <3>1. RouteOK /\ UpdatersOK /\ CleanerOK
      BY <2>1, <2>4 DEF RouteIInv, AddrInv
    <3>2. RouteOK'
      BY <3>1, <2>1 DEF RouteOK, Brk
    <3>3. UpdatersOK'
      BY <3>1, <2>1 DEF UpdatersOK
    <3>4. ASSUME NEW t \in TopicSet, NEW b \in Brk(routeTable, t) PROVE b \in cln'.copy
      BY <3>1, <3>4, <2>1 DEF CleanerOK, IsBrokerAddrExistInTopicRouteTable
    <3>5. CleanerOK'
      BY <3>4, <2>1 DEF CleanerOK, Brk
    <3> QED BY <3>2, <3>3, <3>5
  <2> QED BY <2>2, <2>3, <2>4 DEF RouteIInv, AddrInv
<1>3. CASE CleanWrites
  <2>1. /\ cln.pc = "write" /\ addrTable' = cln.copy
        /\ cln' = [pc |-> "beat", copy |-> {}]
        /\ UNCHANGED <<namesrv, routeTable, publish, upd, overlapped>>
    BY <1>3 DEF CleanWrites
  <2>2. RouteTypeOK'
    BY <1>0, <2>1 DEF RouteTypeOK, ClnStages
  <2>3. PublishOK'
    BY <2>1 DEF RouteIInv, PublishOK
  <2>4. ASSUME ~overlapped' PROVE RouteOK' /\ UpdatersOK' /\ CleanerOK'
    <3>1. UpdatersOK /\ CleanerOK
      BY <2>1, <2>4 DEF RouteIInv, AddrInv
    <3>2. RouteOK'
      BY <3>1, <2>1 DEF RouteOK, CleanerOK, Brk
    <3>3. UpdatersOK'
      BY <3>1, <2>1 DEF UpdatersOK
    <3>4. CleanerOK'
      BY <2>1 DEF CleanerOK
    <3> QED BY <3>2, <3>3, <3>4
  <2> QED BY <2>2, <2>3, <2>4 DEF RouteIInv, AddrInv
<1>4. CASE HeartbeatSkipped \/ HeartbeatBegins \/ HeartbeatSends \/ HeartbeatEnds
  <2>1. UNCHANGED <<namesrv, tables, upd, overlapped>>
    BY <1>4 DEF HeartbeatSkipped, HeartbeatBegins, HeartbeatSends, HeartbeatEnds
  <2>2. cln' \in [pc : ClnStages, copy : SUBSET Brokers] /\ cln'.pc \in {"idle", "send"}
    <3>1. CASE HeartbeatSkipped
      BY <3>1, <1>0 DEF HeartbeatSkipped, RouteTypeOK, ClnStages
    <3>2. CASE HeartbeatBegins
      BY <3>2, <1>0 DEF HeartbeatBegins, RouteTypeOK, ClnStages
    <3>3. CASE HeartbeatSends
      <4>1. PICK b \in cln.copy : cln' = [cln EXCEPT !.copy = @ \ {b}]
        BY <3>3 DEF HeartbeatSends
      <4>2. cln.pc = "send"
        BY <3>3 DEF HeartbeatSends
      <4> QED BY <4>1, <4>2, <1>0 DEF RouteTypeOK, ClnStages
    <3>4. CASE HeartbeatEnds
      BY <3>4, <1>0 DEF HeartbeatEnds, RouteTypeOK, ClnStages
    <3> QED BY <1>4, <3>1, <3>2, <3>3, <3>4
  <2>3. RouteTypeOK'
    BY <1>0, <2>1, <2>2 DEF RouteTypeOK, tables
  <2> QED BY <2>1, <2>2, <2>3, RouteFrame
<1> QED BY <1>1, <1>2, <1>3, <1>4 DEF CleanTimer

\* Every step of the timer's threads and of those that ask for a route.
LEMMA RouteNextIInv == RouteIInv /\ [RouteNext]_routeVars => RouteIInv'
<1> SUFFICES ASSUME RouteIInv, [RouteNext]_routeVars PROVE RouteIInv'
  OBVIOUS
<1>0. RouteTypeOK
  BY DEF RouteIInv
<1>1. CASE UpdateTimer
  <2>1. upd["timer"].next \in 1 .. Len(Topics)
    BY <1>0 DEF RouteTypeOK, Updaters
  <2> QED BY <1>1, <2>1, InUpdateIInv, TryLockIInv DEF UpdateTimer, UpdateAll, Updaters
<1>2. CASE CleanTimer
  BY <1>2, CleanTimerIInv
<1>3. ASSUME NEW i \in 1 .. Len(Topics), Asks(i) PROVE RouteIInv'
  BY <1>3, TryLockIInv DEF Asks, Updaters
<1>4. CASE OtherLocksHeartbeat \/ ConnectHangs
  <2>1. UNCHANGED <<namesrv, tables, cln, upd, overlapped>>
    BY <1>4 DEF OtherLocksHeartbeat, ConnectHangs
  <2>2. RouteTypeOK'
    BY <1>0, <2>1 DEF RouteTypeOK, tables
  <2> QED BY <2>1, <2>2, RouteFrame
<1>5. CASE InUpdate("asker")
  BY <1>5, InUpdateIInv DEF Updaters
<1>6. ASSUME NEW t \in TopicSet, NamesrvChanges(t) PROVE RouteIInv'
  <2>1. PICK bs \in SUBSET Brokers : namesrv' = [namesrv EXCEPT ![t] = bs]
    BY <1>6 DEF NamesrvChanges
  <2>2. UNCHANGED <<tables, cln, upd, overlapped>>
    BY <1>6 DEF NamesrvChanges
  <2>3. RouteTypeOK'
    BY <1>0, <2>1, <2>2 DEF RouteTypeOK, tables
  <2> QED BY <2>2, <2>3, RouteFrame
<1>7. CASE UNCHANGED routeVars
  <2>1. UNCHANGED <<namesrv, tables, cln, upd, overlapped>>
    BY <1>7 DEF routeVars
  <2>2. RouteTypeOK'
    BY <1>0, <2>1 DEF RouteTypeOK, tables
  <2> QED BY <2>1, <2>2, RouteFrame
<1> QED BY <1>1, <1>2, <1>3, <1>4, <1>5, <1>6, <1>7 DEF RouteNext

\* Every broker of a known route has an address, and every broker a producer was
\* told of, unless a route was entered while cleanOfflineBroker worked on its copy:
\* for any topics and brokers, whatever the name server says and however often it
\* fails.
THEOREM FactoryAddressesComplete == RouteSpec => []AddressesComplete
<1>1. RouteIInv => AddressesComplete
  BY DEF RouteIInv, AddrInv, RouteOK, PublishOK, AddressesComplete
<1> QED BY RouteInitIInv, RouteNextIInv, <1>1, PTL DEF RouteSpec
=============================================================================
