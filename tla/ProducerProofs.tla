--------------------------- MODULE ProducerProofs ---------------------------
(***************************************************************************)
(* Sends, for any number of threads, brokers and routes.                   *)
(***************************************************************************)
EXTENDS Producer, FiniteSetTheorems, WellFoundedInduction, TLAPS

-----------------------------------------------------------------------------
(* The inductive invariant. *)

Stages   == {"idle", "find", "select", "kernel", "invoke", "waiting", "hung", "done"}
Outcomes == {"none", "exception", "returned", "SEND_OK", "FLUSH_DISK_TIMEOUT"}
Codes    == Stored \cup Refused

Jobs == [pc : Stages, mode : {"SYNC", "ASYNC", "ONEWAY"}, direct : BOOLEAN, times : 0 .. MaxTries,
         queues : Routes \cup {<<>>}, which : Nat, mq : Brokers \cup {NoBroker}, zips : Nat,
         big : BOOLEAN, flag : BOOLEAN, expired : BOOLEAN]

Copies == [from : Attempts, zips : Nat, flag : BOOLEAN]

TypeOK ==
    /\ publish \in [queues : Routes \cup {<<>>}, which : Nat]
    /\ job \in [Threads -> Jobs] /\ outcome \in [Threads -> Outcomes]
    /\ called \in [Threads -> Seq(Outcomes)]
    /\ code \in [Attempts -> Codes \cup {"none"}]
    /\ wire \subseteq Copies /\ disk \subseteq Copies
    /\ status \in [Attempts -> Calls!Ended \cup {"idle", "pending"}] /\ answered \subseteq Attempts

\* The locals of a send.  A body that is not sent synchronously is compressed
\* at most once, because only a send that waits can fail after compress.
JobOK(t) ==
    /\ job[t].pc \in {"kernel", "invoke", "waiting"} \/ outcome[t] = "returned" => job[t].times < MaxTries
    /\ job[t].pc = "done" <=> outcome[t] # "none"
    /\ job[t].pc \in {"idle", "find"} \/ job[t].direct => job[t].times = 0
    /\ job[t].pc \in {"find", "select"} => ~job[t].direct
    /\ job[t].pc = "waiting" => job[t].mode = "SYNC"
    /\ job[t].pc \in {"select", "kernel", "invoke", "waiting"} /\ ~job[t].direct => job[t].queues # <<>>
    /\ job[t].mode # "SYNC" /\ job[t].pc \in {"find", "select", "kernel"} => job[t].zips = 0
    /\ job[t].mode # "SYNC" /\ job[t].pc = "invoke" => job[t].zips = IF job[t].flag THEN 1 ELSE 0

JobsOK == \A t \in Threads : JobOK(t)

\* The attempts a send has not made: the ones to come, the one it prepares and,
\* unless it waits for answers, the ones it gave up.
Unmade(t, k) ==
    \/ k > job[t].times + 1
    \/ k = job[t].times + 1 /\ job[t].pc \in {"idle", "find", "select", "kernel", "invoke"}
    \/ k <= job[t].times /\ job[t].mode # "SYNC"

CallsOK ==
    /\ \A t \in Threads, k \in 1 .. MaxTries : Unmade(t, k) => status[<<t, k>>] = "idle"
    /\ \A a \in Attempts :
          /\ status[a] = "idle" => /\ a \notin answered /\ code[a] = "none"
                                   /\ \A c \in wire \cup disk : c.from # a
          /\ status[a] = "answer" => a \in answered
          /\ a \in answered => code[a] # "none"
          /\ code[a] \in Stored => \E c \in disk : c.from = a

\* An attempt has one copy, on its way or stored.
CopiesOK ==
    /\ \A c, d \in wire \cup disk : c.from = d.from => c = d
    /\ \A c \in wire : code[c.from] = "none" /\ c.from \notin answered
    /\ \A c \in disk : code[c.from] \in Stored
    /\ \A c \in wire \cup disk : job[c.from[1]].mode # "SYNC" => Readable(c)

\* No attempt that a send has turned away from has a copy.
GoneOK ==
    ~RetryAnotherBrokerWhenNotStoreOK =>
       \A c \in wire \cup disk :
          c.from[2] > job[c.from[1]].times /\ outcome[c.from[1]] # "exception"

CalledOK ==
    \A t \in Threads : called[t] # <<>> =>
       /\ job[t].mode = "ASYNC" /\ outcome[t] = "returned" /\ status[Attempt(t)] = "answer"
       /\ called[t] = <<ProcessSendResponse(code[Attempt(t)])>>

IInv == TypeOK /\ JobsOK /\ CallsOK /\ CopiesOK /\ GoneOK /\ CalledOK

-----------------------------------------------------------------------------
(* Steps of one thread that leave the calls and the copies alone. *)
LEMMA AttemptsOf ==
    /\ \A t \in Threads, k \in 1 .. MaxTries : <<t, k>> \in Attempts /\ <<t, k>>[1] = t /\ <<t, k>>[2] = k
    /\ \A a \in Attempts : a[1] \in Threads /\ a[2] \in 1 .. MaxTries /\ a = <<a[1], a[2]>>
BY DEF Attempts

\* Before any send there is no call and no copy.
LEMMA InitIInv == Init => IInv
<1> SUFFICES ASSUME Init PROVE IInv
  OBVIOUS
<1>1. Idle \in Jobs
  BY DEF Idle, Jobs, Stages, MaxTries
<1>2. TypeOK
  BY <1>1 DEF Init, TypeOK, Outcomes, Calls!Init
<1>3. JobsOK
  BY DEF Init, JobsOK, JobOK, Idle
<1>4. CallsOK
  BY AttemptsOf DEF Init, CallsOK, Calls!Init, Stored
<1>5. CopiesOK /\ GoneOK /\ CalledOK
  BY DEF Init, CopiesOK, GoneOK, CalledOK
<1>6. QED BY <1>2, <1>3, <1>4, <1>5 DEF IInv

\* A step that makes no call and changes one send only keeps the invariant if it
\* turns away from no copy.
LEMMA LocalStep ==
    ASSUME IInv, NEW t \in Threads, UNCHANGED <<called, net, rpc>>,
           publish' \in [queues : Routes \cup {<<>>}, which : Nat],
           job' \in [Threads -> Jobs], outcome' \in [Threads -> Outcomes],
           \A u \in Threads \ {t} : job'[u] = job[u] /\ outcome'[u] = outcome[u],
           job[t].pc # "done", JobOK(t)',
           \A k \in 1 .. MaxTries : Unmade(t, k)' => status[<<t, k>>] = "idle",
           job'[t].mode = job[t].mode \/ job[t].pc = "idle",
           ~RetryAnotherBrokerWhenNotStoreOK =>
              \/ job'[t].times = job[t].times /\ outcome'[t] # "exception"
              \/ /\ \A c \in wire \cup disk : c.from # <<t, job[t].times + 1>>
                 /\ job'[t].times <= job[t].times + 1
    PROVE  IInv'
<1>0. TypeOK /\ JobsOK /\ CallsOK /\ CopiesOK /\ GoneOK /\ CalledOK
  BY DEF IInv
<1>1. UNCHANGED <<called, wire, code, disk, status, answered>>
  BY DEF net, rpc
<1>2. TypeOK'
  BY <1>0, <1>1 DEF TypeOK
<1>3. JobsOK'
  <2>1. \A u \in Threads \ {t} : JobOK(u)'
    BY <1>0 DEF JobsOK, JobOK
  <2>2. QED BY <2>1 DEF JobsOK
<1>4. CallsOK'
  <2>1. \A u \in Threads \ {t}, k \in 1 .. MaxTries : Unmade(u, k)' => status[<<u, k>>] = "idle"
    BY <1>0 DEF CallsOK, Unmade
  <2>2. \A u \in Threads, k \in 1 .. MaxTries : Unmade(u, k)' => status[<<u, k>>] = "idle"
    BY <2>1
  <2>3. QED BY <1>0, <1>1, <2>2 DEF CallsOK, MaxTries, Attempts
<1>5. \A c \in wire \cup disk : c.from \in Attempts /\ c.from[1] \in Threads /\ c.from[2] \in 1 .. MaxTries
  BY <1>0, AttemptsOf DEF TypeOK, Copies
<1>6. CopiesOK'
  <2>1. ASSUME NEW c \in wire \cup disk, job'[c.from[1]].mode # "SYNC"
        PROVE  Readable(c)
    <3>1. CASE job'[c.from[1]].mode = job[c.from[1]].mode
      BY <1>0, <2>1, <3>1 DEF CopiesOK
    <3>2. CASE job'[c.from[1]].mode # job[c.from[1]].mode
      <4>1. c.from[1] = t /\ job[t].pc = "idle"
        BY <1>5, <3>2
      <4>2. job[t].times = 0
        BY <1>0, <4>1 DEF JobsOK, JobOK
      <4>3. Unmade(t, c.from[2])
        BY <1>5, <4>1, <4>2 DEF Unmade
      <4>4. status[c.from] = "idle"
        BY <1>0, <1>5, <4>1, <4>3, AttemptsOf DEF CallsOK
      <4>5. QED BY <1>0, <1>5, <4>4 DEF CallsOK
    <3>3. QED BY <3>1, <3>2
  <2>2. QED BY <1>0, <1>1, <2>1 DEF CopiesOK, Readable
<1>7. GoneOK'
  <2>1. ASSUME ~RetryAnotherBrokerWhenNotStoreOK, NEW c \in wire \cup disk
        PROVE  c.from[2] > job'[c.from[1]].times /\ outcome'[c.from[1]] # "exception"
    <3>1. c.from[2] > job[c.from[1]].times /\ outcome[c.from[1]] # "exception"
      BY <1>0, <2>1 DEF GoneOK
    <3>2. CASE c.from[1] # t
      BY <1>5, <3>1, <3>2
    <3>3. CASE c.from[1] = t
      <4>1. CASE job'[t].times = job[t].times /\ outcome'[t] # "exception"
        BY <3>1, <3>3, <4>1
      <4>2. CASE \A d \in wire \cup disk : d.from # <<t, job[t].times + 1>>
        <5>1. c.from = <<t, c.from[2]>> /\ c.from[2] \in 1 .. MaxTries /\ job[t].times \in Int
          BY <1>0, <1>5, <3>3, AttemptsOf DEF TypeOK, Jobs
        <5>2. c.from[2] > job[t].times + 1
          <6>1. c.from[2] # job[t].times + 1
            BY <4>2, <5>1
          <6>2. QED BY <3>1, <3>3, <5>1, <6>1 DEF MaxTries
        <5>3. status[c.from] = "idle"
          <6>1. Unmade(t, c.from[2])
            BY <5>2 DEF Unmade
          <6>2. status[<<t, c.from[2]>>] = "idle"
            BY <1>0, <5>1, <6>1 DEF CallsOK
          <6>3. QED BY <5>1, <6>2
        <5>4. QED BY <1>0, <1>5, <5>3 DEF CallsOK
      <4>3. QED BY <2>1, <4>1, <4>2
    <3>4. QED BY <3>2, <3>3
  <2>2. QED BY <1>1, <2>1 DEF GoneOK
<1>8. CalledOK'
  <2>1. called[t] = <<>>
    BY <1>0 DEF CalledOK, JobsOK, JobOK
  <2>2. \A u \in Threads \ {t} : Attempt(u)' = Attempt(u)
    BY DEF Attempt
  <2>3. ASSUME NEW u \in Threads, called'[u] # <<>>
        PROVE  /\ job'[u].mode = "ASYNC" /\ outcome'[u] = "returned" /\ status'[Attempt(u)'] = "answer"
               /\ called'[u] = <<ProcessSendResponse(code'[Attempt(u)'])>>
    <3>1. u # t
      BY <1>1, <2>1, <2>3
    <3>2. QED BY <1>0, <1>1, <2>2, <2>3, <3>1 DEF CalledOK
  <2>4. QED BY <2>3 DEF CalledOK, ProcessSendResponse
<1>9. QED BY <1>2, <1>3, <1>4, <1>6, <1>7, <1>8 DEF IInv

-----------------------------------------------------------------------------
(* sendDefaultImpl and sendKernelImpl. *)

\* A set of natural numbers has a smallest one.
LEMMA SmallestOf ==
    ASSUME NEW S, S \subseteq Nat, S # {}
    PROVE  \E i \in S : \A j \in S : i <= j
<1> DEFINE R == {ss \in Nat \X Nat : ss[1] < ss[2]}
<1>1. IsWellFoundedOn(R, Nat)
  BY NatLessThanWellFounded DEF OpToRel
<1>2. PICK i \in S : \A j \in S : ~(<<j, i>> \in R)
  BY <1>1, WFMin
<1>3. ASSUME NEW j \in S PROVE i <= j
  <2>1. <<j, i>> \in Nat \X Nat /\ <<j, i>>[1] = j /\ <<j, i>>[2] = i
    OBVIOUS
  <2>2. ~(j < i)
    BY <1>2, <2>1
  <2>3. QED BY <2>2
<1>4. QED BY <1>3

\* A queue that is selected is one of the list, and of another broker than the
\* one that failed.
LEMMA SelectsAQueue ==
    ASSUME NEW queues \in Routes, queues # <<>>, NEW which \in Nat, NEW last
    PROVE  LET q == SelectOneMessageQueue(queues, which, last)
           IN  q \in BrokersOf(queues) \cup {NoBroker} /\ (last # NoBroker => q # last)
<1> DEFINE at(i) == queues[((which + i) % Len(queues)) + 1][1]
           other == {i \in 0 .. Len(queues) - 1 : at(i) # last}
<1>1. Len(queues) \in Nat /\ Len(queues) > 0
  BY ProducerAssumption
<1>2. \A i \in Nat : at(i) \in BrokersOf(queues)
  <2> SUFFICES ASSUME NEW i \in Nat PROVE at(i) \in BrokersOf(queues)
    OBVIOUS
  <2>1. (which + i) % Len(queues) \in 0 .. Len(queues) - 1
    BY <1>1
  <2>2. ((which + i) % Len(queues)) + 1 \in 1 .. Len(queues)
    BY <1>1, <2>1
  <2>3. QED BY <2>2 DEF BrokersOf
<1> HIDE DEF at
<1>3. CASE last = NoBroker
  <2>1. SelectOneMessageQueue(queues, which, last) = at(0)
    BY <1>3 DEF SelectOneMessageQueue, at
  <2>2. QED BY <1>2, <1>3, <2>1
<1>4. CASE last # NoBroker /\ other = {}
  <2>1. SelectOneMessageQueue(queues, which, last) = NoBroker
    BY <1>4 DEF SelectOneMessageQueue, at
  <2>2. QED BY <1>4, <2>1
<1>5. CASE last # NoBroker /\ other # {}
  <2> DEFINE first == CHOOSE i \in other : \A j \in other : i <= j
  <2>1. SelectOneMessageQueue(queues, which, last) = at(first)
    BY <1>5 DEF SelectOneMessageQueue, at
  <2>2. first \in other
    <3>1. other \subseteq Nat
      BY <1>1
    <3>2. \E i \in other : \A j \in other : i <= j
      BY <1>5, <3>1, SmallestOf
    <3>3. QED BY <3>2
  <2>3. at(first) # last /\ first \in Nat
    BY <1>1, <2>2
  <2>4. QED BY <1>2, <2>1, <2>3
<1>6. QED BY <1>3, <1>4, <1>5

\* What a send is after it has returned or thrown.
LEMMA ReturnsJob ==
    ASSUME TypeOK, NEW t \in Threads, NEW how \in Outcomes, Returns(t, how)
    PROVE  /\ job' \in [Threads -> Jobs] /\ outcome' \in [Threads -> Outcomes] /\ called' = called
           /\ \A u \in Threads \ {t} : job'[u] = job[u] /\ outcome'[u] = outcome[u]
           /\ job'[t] = [job[t] EXCEPT !.pc = "done"] /\ outcome'[t] = how
           /\ job'[t].pc = "done" /\ job'[t].times = job[t].times /\ job'[t].mode = job[t].mode
           /\ job'[t].direct = job[t].direct
<1>1. job[t] \in Jobs
  BY DEF TypeOK
<1>2. [job[t] EXCEPT !.pc = "done"] \in Jobs
  BY <1>1 DEF Jobs, Stages
<1>3. /\ job' = [job EXCEPT ![t] = [job[t] EXCEPT !.pc = "done"]]
      /\ outcome' = [outcome EXCEPT ![t] = how] /\ called' = called
  BY DEF Returns
<1>4. job' \in [Threads -> Jobs] /\ outcome' \in [Threads -> Outcomes]
  BY <1>2, <1>3 DEF TypeOK
<1>5. /\ \A u \in Threads \ {t} : job'[u] = job[u] /\ outcome'[u] = outcome[u]
      /\ job'[t] = [job[t] EXCEPT !.pc = "done"] /\ outcome'[t] = how
  BY <1>3 DEF TypeOK
<1>6. QED BY <1>1, <1>3, <1>4, <1>5 DEF Jobs

\* A send that returns before it has called, or after a refusal.
LEMMA ReturnsStep ==
    ASSUME IInv, NEW t \in Threads, NEW how \in Outcomes \ {"none"}, Returns(t, how),
           UNCHANGED <<net, rpc>>, publish' \in [queues : Routes \cup {<<>>}, which : Nat],
           job[t].pc # "done", how = "returned" => job[t].times < MaxTries,
           how = "exception" => \A c \in wire \cup disk : c.from # <<t, job[t].times + 1>>
    PROVE  IInv'
<1>0. TypeOK /\ JobsOK /\ CallsOK
  BY DEF IInv
<1>1. /\ job' \in [Threads -> Jobs] /\ outcome' \in [Threads -> Outcomes] /\ called' = called
      /\ \A u \in Threads \ {t} : job'[u] = job[u] /\ outcome'[u] = outcome[u]
      /\ outcome'[t] = how
      /\ job'[t].pc = "done" /\ job'[t].times = job[t].times /\ job'[t].mode = job[t].mode
      /\ job'[t].direct = job[t].direct
  BY <1>0, ReturnsJob
<1>2. JobOK(t)'
  BY <1>0, <1>1 DEF JobsOK, JobOK, MaxTries
<1>3. \A k \in 1 .. MaxTries : Unmade(t, k)' => status[<<t, k>>] = "idle"
  BY <1>0, <1>1 DEF CallsOK, Unmade
<1>4. job[t].times \in Int
  BY <1>0 DEF TypeOK, Jobs
<1>5. ~RetryAnotherBrokerWhenNotStoreOK =>
              \/ job'[t].times = job[t].times /\ outcome'[t] # "exception"
              \/ /\ \A c \in wire \cup disk : c.from # <<t, job[t].times + 1>>
                 /\ job'[t].times <= job[t].times + 1
  BY <1>1, <1>4
<1>6. QED BY <1>1, <1>2, <1>3, <1>5, LocalStep

\* An attempt that was not made has no copy.
LEMMA UnmadeNoCopy ==
    ASSUME IInv, NEW t \in Threads, job[t].pc \in {"idle", "find", "select", "kernel", "invoke"}
    PROVE  \A c \in wire \cup disk : c.from # <<t, job[t].times + 1>>
<1>0. TypeOK /\ CallsOK
  BY DEF IInv
<1>1. SUFFICES ASSUME NEW c \in wire \cup disk, c.from = <<t, job[t].times + 1>>
               PROVE  FALSE
  OBVIOUS
<1>2. c.from \in Attempts
  BY <1>0 DEF TypeOK, Copies
<1>3. job[t].times + 1 \in 1 .. MaxTries
  BY <1>1, <1>2 DEF Attempts
<1>4. Unmade(t, job[t].times + 1)
  BY DEF Unmade
<1>5. status[c.from] = "idle"
  BY <1>0, <1>1, <1>3, <1>4 DEF CallsOK
<1>6. QED BY <1>0, <1>2, <1>5 DEF CallsOK

\* An attempt that failed: the send goes on with the next one or returns.
LEMMA FailsStep ==
    ASSUME IInv, NEW t \in Threads, Fails(t), UNCHANGED <<net, rpc>>,
           publish' \in [queues : Routes \cup {<<>>}, which : Nat],
           job[t].pc \in {"kernel", "waiting"},
           \/ \A c \in wire \cup disk : c.from # <<t, job[t].times + 1>>
           \/ RetryAnotherBrokerWhenNotStoreOK /\ ~job[t].direct
    PROVE  IInv'
<1>0. TypeOK /\ JobsOK /\ CallsOK
  BY DEF IInv
<1>1. job[t].times < MaxTries
  BY <1>0 DEF JobsOK, JobOK
<1>2. CASE job[t].direct
  <2>1. PICK how \in {"exception", "returned"} : Returns(t, how)
    BY <1>2 DEF Fails
  <2>2. QED BY <1>1, <1>2, <2>1, ReturnsStep DEF Outcomes
<1>3. CASE ~job[t].direct
  <2>1. PICK late \in BOOLEAN :
           job' = [job EXCEPT ![t] = [job[t] EXCEPT !.pc = "select", !.times = job[t].times + 1, !.expired = late]]
    BY <1>3, Zenon DEF Fails
  <2>2. UNCHANGED <<outcome, called>>
    BY <1>3 DEF Fails
  <2>3. job[t] \in Jobs
    BY <1>0 DEF TypeOK
  <2>4. [job[t] EXCEPT !.pc = "select", !.times = job[t].times + 1, !.expired = late] \in Jobs
    <3>1. job[t].times + 1 \in 0 .. MaxTries
      BY <1>1, <2>3 DEF Jobs, MaxTries
    <3>2. QED BY <2>3, <3>1 DEF Jobs, Stages
  <2>5. job' \in [Threads -> Jobs] /\ outcome' \in [Threads -> Outcomes]
    BY <1>0, <2>1, <2>2, <2>4 DEF TypeOK
  <2>6. /\ \A u \in Threads \ {t} : job'[u] = job[u] /\ outcome'[u] = outcome[u]
        /\ job'[t] = [job[t] EXCEPT !.pc = "select", !.times = job[t].times + 1, !.expired = late]
    BY <1>0, <2>1, <2>2 DEF TypeOK
  <2>7. /\ job'[t].pc = "select" /\ job'[t].times = job[t].times + 1 /\ job'[t].mode = job[t].mode
        /\ job'[t].direct = job[t].direct /\ job'[t].queues = job[t].queues /\ job'[t].zips = job[t].zips
        /\ job[t].times \in 0 .. MaxTries
    BY <2>3, <2>6 DEF Jobs
  <2>8. JobOK(t)'
    BY <1>0, <1>3, <2>2, <2>7 DEF JobsOK, JobOK, MaxTries
  <2>9. ASSUME NEW k \in 1 .. MaxTries, Unmade(t, k)'
        PROVE  status[<<t, k>>] = "idle"
    <3>1. Unmade(t, k)
      BY <1>0, <2>7, <2>9 DEF Unmade, JobsOK, JobOK, MaxTries
    <3>2. QED BY <1>0, <3>1 DEF CallsOK
  <2>10. ~RetryAnotherBrokerWhenNotStoreOK =>
            /\ \A c \in wire \cup disk : c.from # <<t, job[t].times + 1>>
            /\ job'[t].times <= job[t].times + 1
    BY <2>7 DEF MaxTries
  <2>11. job[t].pc # "done" /\ UNCHANGED <<called, net, rpc>>
    BY <2>2
  <2>12. QED BY <2>5, <2>6, <2>7, <2>8, <2>9, <2>10, <2>11, LocalStep
<1>4. QED BY <1>2, <1>3 DEF Fails

\* A send begins, or is refused by checkMessage, before any attempt.
LEMMA SendBeginsStep ==
    ASSUME IInv, NEW t \in Threads, NEW mode \in Modes, NEW direct \in BOOLEAN, NEW msg,
           SendBegins(t, mode, direct, msg)
    PROVE  IInv'
<1>0. TypeOK /\ JobsOK /\ CallsOK /\ UNCHANGED <<publish, net, rpc>> /\ job[t].pc = "idle"
  BY DEF IInv, SendBegins, tables
<1>1. publish' \in [queues : Routes \cup {<<>>}, which : Nat]
  BY <1>0 DEF TypeOK
<1>2. CASE MakeSureStateOK /\ CheckMessage(msg)
  <2> DEFINE at == IF direct THEN "kernel" ELSE "find"
  <2>1. PICK big \in BOOLEAN, q \in IF direct THEN Brokers ELSE {NoBroker} :
           job' = [job EXCEPT ![t] = [Idle EXCEPT !.pc = at, !.mode = mode, !.direct = direct, !.mq = q, !.big = big]]
    BY <1>2, Zenon DEF SendBegins
  <2>2. UNCHANGED <<outcome, called>>
    BY <1>2 DEF SendBegins
  <2>3. at \in {"kernel", "find"} /\ mode \in {"SYNC", "ASYNC", "ONEWAY"} /\ q \in Brokers \cup {NoBroker}
    BY ProducerAssumption
  <2>4. PICK j \in Jobs : /\ j = [Idle EXCEPT !.pc = at, !.mode = mode, !.direct = direct, !.mq = q, !.big = big]
                          /\ j.pc = at /\ j.mode = mode /\ j.direct = direct /\ j.times = 0 /\ j.zips = 0
    <3> HIDE DEF at
    <3>1. Idle \in Jobs /\ Idle.times = 0 /\ Idle.zips = 0
      BY DEF Idle, Jobs, Stages, MaxTries
    <3> DEFINE j == [Idle EXCEPT !.pc = at, !.mode = mode, !.direct = direct, !.mq = q, !.big = big]
    <3>2. j \in Jobs
      BY <2>3, <3>1 DEF Jobs, Stages
    <3>3. j.pc = at /\ j.mode = mode /\ j.direct = direct /\ j.times = 0 /\ j.zips = 0
      BY <3>1 DEF Jobs
    <3>4. QED BY <3>2, <3>3
  <2>5. /\ job' \in [Threads -> Jobs] /\ job'[t] = j
        /\ \A u \in Threads \ {t} : job'[u] = job[u] /\ outcome'[u] = outcome[u]
    BY <1>0, <2>1, <2>2, <2>4 DEF TypeOK
  <2>6. outcome'[t] = "none"
    BY <1>0, <2>2 DEF JobsOK, JobOK
  <2>7. JobOK(t)'
    BY <2>3, <2>4, <2>5, <2>6 DEF JobOK, MaxTries
  <2>8. job[t].times = 0
    BY <1>0 DEF JobsOK, JobOK
  <2>9. ASSUME NEW k \in 1 .. MaxTries PROVE status[<<t, k>>] = "idle"
    <3>1. Unmade(t, k)
      BY <1>0, <2>8 DEF Unmade, MaxTries
    <3>2. QED BY <1>0, <3>1 DEF CallsOK
  <2>10. QED BY <1>0, <1>1, <2>2, <2>4, <2>5, <2>6, <2>7, <2>8, <2>9, LocalStep DEF TypeOK
<1>3. CASE ~(MakeSureStateOK /\ CheckMessage(msg))
  <2>1. Returns(t, "exception")
    BY <1>3 DEF SendBegins
  <2>2. \A c \in wire \cup disk : c.from # <<t, job[t].times + 1>>
    BY <1>0, UnmadeNoCopy
  <2>3. QED BY <1>0, <1>1, <2>1, <2>2, ReturnsStep DEF Outcomes
<1>4. QED BY <1>2, <1>3

\* What looking a topic up leaves in the table.
LEMMA FindsTopic ==
    ASSUME TypeOK, TryToFindTopicPublishInfo
    PROVE  publish' \in [queues : Routes \cup {<<>>}, which : Nat]
BY DEF TypeOK, TryToFindTopicPublishInfo, UpdateTopicPublishInfo, tables

\* A send that hangs in a connect has not made its attempt.
LEMMA ConnectHangsStep ==
    ASSUME IInv, NEW t \in Threads, ConnectHangs(t)
    PROVE  IInv'
<1>0. TypeOK /\ JobsOK /\ CallsOK
  BY DEF IInv
<1>1. /\ job[t].pc \in {"find", "kernel", "invoke"}
      /\ job' = [job EXCEPT ![t] = [job[t] EXCEPT !.pc = "hung"]]
      /\ UNCHANGED <<publish, outcome, called, net, rpc>>
  BY DEF ConnectHangs, tables
<1>2. [job[t] EXCEPT !.pc = "hung"] \in Jobs
  <2>1. job[t] \in Jobs
    BY <1>0 DEF TypeOK
  <2>2. QED BY <2>1 DEF Jobs, Stages
<1>3. /\ job' \in [Threads -> Jobs] /\ outcome' \in [Threads -> Outcomes]
      /\ publish' \in [queues : Routes \cup {<<>>}, which : Nat]
      /\ job'[t] = [job[t] EXCEPT !.pc = "hung"]
      /\ \A u \in Threads \ {t} : job'[u] = job[u] /\ outcome'[u] = outcome[u]
  BY <1>0, <1>1, <1>2 DEF TypeOK
<1>4. /\ job'[t].pc = "hung" /\ job'[t].times = job[t].times /\ job'[t].mode = job[t].mode
      /\ job'[t].direct = job[t].direct /\ outcome'[t] = outcome[t]
  BY <1>0, <1>1, <1>3 DEF TypeOK, Jobs
<1>5. JobOK(t)' /\ outcome'[t] = "none" /\ job[t].pc # "done"
  BY <1>0, <1>1, <1>4 DEF JobsOK, JobOK
<1>6. \A k \in 1 .. MaxTries : Unmade(t, k)' => status[<<t, k>>] = "idle"
  BY <1>0, <1>4 DEF CallsOK, Unmade
<1>7. QED BY <1>1, <1>3, <1>4, <1>5, <1>6, LocalStep

\* A send without a route throws before any attempt.
LEMMA FindTopicStep ==
    ASSUME IInv, NEW t \in Threads, FindTopic(t)
    PROVE  IInv'
<1>0. TypeOK /\ JobsOK /\ CallsOK /\ UNCHANGED <<net, rpc>> /\ job[t].pc = "find"
  BY DEF IInv, FindTopic
<1>1. publish' \in [queues : Routes \cup {<<>>}, which : Nat]
  BY <1>0, FindsTopic DEF FindTopic
<1>2. CASE publish'.queues = <<>>
  <2>1. Returns(t, "exception")
    BY <1>2 DEF FindTopic
  <2>2. \A c \in wire \cup disk : c.from # <<t, job[t].times + 1>>
    BY <1>0, UnmadeNoCopy
  <2>3. QED BY <1>0, <1>1, <2>1, <2>2, ReturnsStep DEF Outcomes
<1>3. CASE publish'.queues # <<>>
  <2>1. /\ job' = [job EXCEPT ![t] = [job[t] EXCEPT !.pc = "select", !.queues = publish'.queues,
                                                    !.which = publish'.which]]
        /\ UNCHANGED <<outcome, called>>
    BY <1>3 DEF FindTopic
  <2>2. PICK j \in Jobs :
           /\ j = [job[t] EXCEPT !.pc = "select", !.queues = publish'.queues, !.which = publish'.which]
           /\ j.pc = "select" /\ j.mode = job[t].mode /\ j.direct = job[t].direct /\ j.times = job[t].times
           /\ j.zips = job[t].zips /\ j.queues # <<>>
    <3>1. job[t] \in Jobs /\ publish'.queues \in Routes \cup {<<>>} /\ publish'.which \in Nat
      BY <1>0, <1>1 DEF TypeOK
    <3> DEFINE j == [job[t] EXCEPT !.pc = "select", !.queues = publish'.queues, !.which = publish'.which]
    <3>2. j \in Jobs
      BY <3>1 DEF Jobs, Stages
    <3>3. /\ j.pc = "select" /\ j.mode = job[t].mode /\ j.direct = job[t].direct /\ j.times = job[t].times
          /\ j.zips = job[t].zips /\ j.queues # <<>>
      BY <1>3, <3>1 DEF Jobs
    <3>4. QED BY <3>2, <3>3
  <2>3. /\ job' \in [Threads -> Jobs] /\ job'[t] = j
        /\ \A u \in Threads \ {t} : job'[u] = job[u] /\ outcome'[u] = outcome[u]
    BY <1>0, <2>1, <2>2 DEF TypeOK
  <2>4. outcome'[t] = "none" /\ outcome' \in [Threads -> Outcomes]
    BY <1>0, <2>1 DEF JobsOK, JobOK, TypeOK
  <2>5. JobOK(t)'
    BY <1>0, <2>2, <2>3, <2>4 DEF JobsOK, JobOK, MaxTries
  <2>6. \A k \in 1 .. MaxTries : Unmade(t, k)' => status[<<t, k>>] = "idle"
    BY <1>0, <2>2, <2>3 DEF CallsOK, Unmade
  <2>7. QED BY <1>0, <1>1, <2>1, <2>2, <2>3, <2>4, <2>5, <2>6, LocalStep
<1>4. QED BY <1>2, <1>3

\* A send that finds no queue, or has no tries left, ends without a copy.
LEMMA SelectStep ==
    ASSUME IInv, NEW t \in Threads, Select(t)
    PROVE  IInv'
<1> DEFINE q == SelectOneMessageQueue(job[t].queues, job[t].which, job[t].mq)
<1>0. TypeOK /\ JobsOK /\ CallsOK /\ UNCHANGED <<publish, net, rpc>> /\ job[t].pc = "select"
  BY DEF IInv, Select, tables
<1>1. publish' \in [queues : Routes \cup {<<>>}, which : Nat] /\ job[t] \in Jobs
  BY <1>0 DEF TypeOK
<1>2. CASE job[t].times < MaxTries /\ ~job[t].expired /\ q # NoBroker
  <2>1. /\ job' = [job EXCEPT ![t] = [job[t] EXCEPT !.pc = "kernel", !.mq = q, !.which = job[t].which + 1]]
        /\ UNCHANGED <<outcome, called>>
    BY <1>2 DEF Select
  <2>2. q \in Brokers
    <3>1. ~job[t].direct => job[t].queues \in Routes /\ job[t].queues # <<>>
      BY <1>0, <1>1 DEF JobsOK, JobOK, Jobs
    <3>2. job[t].which \in Nat
      BY <1>1 DEF Jobs
    <3>3. ~job[t].direct
      BY <1>0 DEF JobsOK, JobOK
    <3>4. q \in BrokersOf(job[t].queues)
      BY <1>2, <3>1, <3>2, <3>3, SelectsAQueue
    <3>5. QED BY <3>1, <3>3, <3>4 DEF Brokers
  <2>3. PICK j \in Jobs :
           /\ j = [job[t] EXCEPT !.pc = "kernel", !.mq = q, !.which = job[t].which + 1]
           /\ j.pc = "kernel" /\ j.mode = job[t].mode /\ j.direct = job[t].direct /\ j.times = job[t].times
           /\ j.zips = job[t].zips /\ j.queues = job[t].queues
    <3> HIDE DEF q
    <3>1. job[t].which + 1 \in Nat
      BY <1>1 DEF Jobs
    <3> DEFINE j == [job[t] EXCEPT !.pc = "kernel", !.mq = q, !.which = job[t].which + 1]
    <3>2. j \in Jobs
      BY <1>1, <2>2, <3>1 DEF Jobs, Stages
    <3>3. /\ j.pc = "kernel" /\ j.mode = job[t].mode /\ j.direct = job[t].direct /\ j.times = job[t].times
          /\ j.zips = job[t].zips /\ j.queues = job[t].queues
      BY <1>1 DEF Jobs
    <3>4. QED BY <3>2, <3>3
  <2>4. /\ job' \in [Threads -> Jobs] /\ job'[t] = j
        /\ \A u \in Threads \ {t} : job'[u] = job[u] /\ outcome'[u] = outcome[u]
    BY <1>0, <2>1, <2>3 DEF TypeOK
  <2>5. outcome'[t] = "none" /\ outcome' \in [Threads -> Outcomes]
    BY <1>0, <2>1 DEF JobsOK, JobOK, TypeOK
  <2>6. JobOK(t)'
    BY <1>0, <1>2, <2>3, <2>4, <2>5 DEF JobsOK, JobOK, MaxTries
  <2>7. \A k \in 1 .. MaxTries : Unmade(t, k)' => status[<<t, k>>] = "idle"
    BY <1>0, <2>3, <2>4 DEF CallsOK, Unmade
  <2>8. QED BY <1>0, <1>1, <2>1, <2>3, <2>4, <2>5, <2>6, <2>7, LocalStep
<1>3. CASE ~(job[t].times < MaxTries /\ ~job[t].expired /\ q # NoBroker)
  <2>1. Returns(t, "exception")
    BY <1>3 DEF Select
  <2>2. \A c \in wire \cup disk : c.from # <<t, job[t].times + 1>>
    BY <1>0, UnmadeNoCopy
  <2>3. QED BY <1>0, <1>1, <2>1, <2>2, ReturnsStep DEF Outcomes
<1>4. QED BY <1>2, <1>3

\* An attempt whose broker has no address was not made.
LEMMA NoAddressStep ==
    ASSUME IInv, NEW t \in Threads, NoAddress(t)
    PROVE  IInv'
<1>0. TypeOK /\ UNCHANGED <<net, rpc>> /\ job[t].pc = "kernel" /\ Fails(t) /\ TryToFindTopicPublishInfo
  BY DEF IInv, NoAddress
<1>1. publish' \in [queues : Routes \cup {<<>>}, which : Nat]
  BY <1>0, FindsTopic
<1>2. \A c \in wire \cup disk : c.from # <<t, job[t].times + 1>>
  BY <1>0, UnmadeNoCopy
<1>3. QED BY <1>0, <1>1, <1>2, FailsStep

\* compress and the address lookup prepare an attempt that was not made before.
LEMMA SendKernelStep ==
    ASSUME IInv, NEW t \in Threads, SendKernel(t)
    PROVE  IInv'
<1>0. TypeOK /\ JobsOK /\ CallsOK /\ UNCHANGED <<outcome, called, net, rpc>> /\ job[t].pc = "kernel"
  BY DEF IInv, SendKernel
<1>1. publish' \in [queues : Routes \cup {<<>>}, which : Nat] /\ job[t] \in Jobs
  <2>1. publish' = publish \/ TryToFindTopicPublishInfo
    BY DEF SendKernel, tables
  <2>2. QED BY <1>0, <2>1, FindsTopic DEF TypeOK
<1>2. PICK zipped \in BOOLEAN : TryToCompressMessage(t, zipped)
  BY DEF SendKernel
<1>3. PICK big \in BOOLEAN, n \in {job[t].zips, job[t].zips + 1} :
         /\ job' = [job EXCEPT ![t] = [job[t] EXCEPT !.pc = "invoke", !.flag = zipped, !.big = big, !.zips = n]]
         /\ n = IF zipped THEN job[t].zips + 1 ELSE job[t].zips
  <2>1. PICK big \in IF zipped THEN BOOLEAN ELSE {job[t].big} :
           job' = [job EXCEPT ![t].pc = "invoke", ![t].flag = zipped, ![t].big = big,
                              ![t].zips = IF zipped THEN @ + 1 ELSE @]
    BY <1>2, Zenon DEF TryToCompressMessage
  <2>2. job[t].big \in BOOLEAN
    BY <1>1 DEF Jobs
  <2>3. big \in BOOLEAN
    BY <2>2
  <2>4. CASE zipped
    <3>1. job' = [job EXCEPT ![t] = [job[t] EXCEPT !.pc = "invoke", !.flag = zipped, !.big = big,
                                                   !.zips = job[t].zips + 1]]
      BY <2>1, <2>4
    <3>2. QED BY <2>3, <2>4, <3>1
  <2>5. CASE ~zipped
    <3>1. job' = [job EXCEPT ![t] = [job[t] EXCEPT !.pc = "invoke", !.flag = zipped, !.big = big,
                                                   !.zips = job[t].zips]]
      BY <2>1, <2>5
    <3>2. QED BY <2>3, <2>5, <3>1
  <2>6. QED BY <2>4, <2>5
<1> DEFINE j == [job[t] EXCEPT !.pc = "invoke", !.flag = zipped, !.big = big, !.zips = n]
<1>4. n \in Nat
  BY <1>1 DEF Jobs
<1>5. j \in Jobs
  BY <1>1, <1>4 DEF Jobs, Stages
<1>6. /\ j.pc = "invoke" /\ j.mode = job[t].mode /\ j.direct = job[t].direct /\ j.times = job[t].times
      /\ j.queues = job[t].queues /\ j.flag = zipped /\ j.zips = n
  BY <1>1 DEF Jobs
<1>7. job' = [job EXCEPT ![t] = j]
  BY <1>3
<1> HIDE DEF j
<1>8. /\ job' \in [Threads -> Jobs] /\ job'[t] = j
      /\ \A u \in Threads \ {t} : job'[u] = job[u] /\ outcome'[u] = outcome[u]
  BY <1>0, <1>5, <1>7 DEF TypeOK
<1>9. outcome'[t] = "none" /\ outcome' \in [Threads -> Outcomes]
  BY <1>0 DEF JobsOK, JobOK, TypeOK
<1>10. job[t].zips \in Nat /\ (job[t].mode # "SYNC" => job[t].zips = 0)
  BY <1>0, <1>1 DEF JobsOK, JobOK, Jobs
<1>11. job[t].mode # "SYNC" => n = IF zipped THEN 1 ELSE 0
  BY <1>3, <1>10
<1>12. JobOK(t)'
  BY <1>0, <1>6, <1>8, <1>9, <1>11 DEF JobsOK, JobOK, MaxTries
<1>13. \A k \in 1 .. MaxTries : Unmade(t, k)' => status[<<t, k>>] = "idle"
  BY <1>0, <1>6, <1>8 DEF CallsOK, Unmade
<1>14. QED BY <1>0, <1>1, <1>6, <1>8, <1>9, <1>12, <1>13, LocalStep

\* A synchronous attempt ends the send, or is followed by another when it has no
\* copy.
LEMMA SyncReturnsStep ==
    ASSUME IInv, NEW t \in Threads, SyncReturns(t)
    PROVE  IInv'
<1> DEFINE result == SendMessageSync(t)
<1>0. /\ TypeOK /\ JobsOK /\ CallsOK /\ CopiesOK
      /\ UNCHANGED <<publish, net, rpc>> /\ job[t].pc = "waiting"
  BY DEF IInv, SyncReturns, tables
<1>1. publish' \in [queues : Routes \cup {<<>>}, which : Nat]
  BY <1>0 DEF TypeOK
<1>2. Attempt(t) \in Attempts /\ Attempt(t) = <<t, job[t].times + 1>>
  <2>1. job[t].times \in 0 .. MaxTries /\ job[t].times < MaxTries
    BY <1>0 DEF JobsOK, JobOK, TypeOK, Jobs
  <2>2. job[t].times + 1 \in 1 .. MaxTries
    BY <2>1 DEF MaxTries
  <2>3. QED BY <2>2 DEF Attempt, Attempts
<1>3. result \in {"SEND_OK", "FLUSH_DISK_TIMEOUT", "exception"}
  BY DEF SendMessageSync, ProcessSendResponse
<1>4. CASE result = "exception"
  <2>1. status[Attempt(t)] = "answer" /\ code[Attempt(t)] \notin Stored
    BY <1>4 DEF SendMessageSync, ProcessSendResponse, Stored
  <2>2. Attempt(t) \in answered
    BY <1>0, <1>2, <2>1 DEF CallsOK
  <2>3. \A c \in wire \cup disk : c.from # <<t, job[t].times + 1>>
    BY <1>0, <1>2, <2>1, <2>2 DEF CopiesOK
  <2>4. Fails(t)
    BY <1>4 DEF SyncReturns
  <2>5. QED BY <1>0, <1>1, <2>3, <2>4, FailsStep
<1>5. CASE Again(t, result)
  <2>1. Fails(t) /\ RetryAnotherBrokerWhenNotStoreOK /\ ~job[t].direct
    BY <1>5 DEF SyncReturns, Again
  <2>2. QED BY <1>0, <1>1, <2>1, FailsStep
<1>6. CASE result # "exception" /\ ~Again(t, result)
  <2>1. Returns(t, result)
    BY <1>6 DEF SyncReturns
  <2> HIDE DEF result
  <2>2. QED BY <1>0, <1>1, <1>3, <1>6, <2>1, ReturnsStep DEF Outcomes
<1>7. QED BY <1>4, <1>5, <1>6

-----------------------------------------------------------------------------
(* Calls and their ends. *)

\* The attempt a thread is at, once it may call.
LEMMA AttemptAt ==
    ASSUME TypeOK, JobsOK, NEW t \in Threads,
           job[t].pc \in {"kernel", "invoke", "waiting"} \/ outcome[t] = "returned"
    PROVE  /\ Attempt(t) \in Attempts /\ Attempt(t) = <<t, job[t].times + 1>>
           /\ job[t].times + 1 \in 1 .. MaxTries /\ job[t].times \in Nat
<1>1. job[t].times \in 0 .. MaxTries /\ job[t].times < MaxTries
  BY DEF JobsOK, JobOK, TypeOK, Jobs
<1>2. job[t].times + 1 \in 1 .. MaxTries /\ job[t].times \in Nat
  BY <1>1 DEF MaxTries
<1>3. QED BY <1>2 DEF Attempt, Attempts

\* The calls of other threads are not of this attempt.
LEMMA OtherAttempts ==
    ASSUME NEW t, NEW u, u # t
    PROVE  Attempt(u) # Attempt(t) /\ \A k : <<u, k>> # Attempt(t)
BY DEF Attempt

\* A call that was issued ends, and the thread's own progress stays as it is.
LEMMA CallEndsStep ==
    ASSUME IInv, NEW t \in Threads, UNCHANGED <<publish, job, outcome, called, net>>,
           Calls!EndWithAnswer(Attempt(t)) \/ Calls!EndWithout(Attempt(t)),
           job[t].pc = "waiting" \/ (outcome[t] = "returned" /\ status[Attempt(t)] = "pending")
    PROVE  IInv'
<1>0. TypeOK /\ JobsOK /\ CallsOK /\ CopiesOK /\ GoneOK /\ CalledOK
  BY DEF IInv
<1>1. /\ Attempt(t) \in Attempts /\ Attempt(t) = <<t, job[t].times + 1>>
      /\ job[t].pc \in {"waiting", "done"}
  BY <1>0, AttemptAt DEF JobsOK, JobOK
<1>2. UNCHANGED <<wire, code, disk, answered>>
  BY DEF net, Calls!EndWithAnswer, Calls!EndWithout
<1>3. PICK s \in {"answer", "noAnswer"} :
         /\ status' = [status EXCEPT ![Attempt(t)] = s] /\ status[Attempt(t)] \in {"idle", "pending"}
         /\ s = "answer" => Attempt(t) \in answered
  BY DEF Calls!EndWithAnswer, Calls!EndWithout
<1>4. /\ \A a \in Attempts \ {Attempt(t)} : status'[a] = status[a]
      /\ status'[Attempt(t)] = s
  BY <1>0, <1>1, <1>3 DEF TypeOK
<1>5. TypeOK'
  <2>1. status' \in [Attempts -> Calls!Ended \cup {"idle", "pending"}]
    BY <1>0, <1>3 DEF TypeOK, Calls!Ended
  <2>2. QED BY <1>0, <1>2, <2>1 DEF TypeOK
<1>6. JobsOK'
  BY <1>0 DEF JobsOK, JobOK
<1>7. CallsOK'
  <2>1. ASSUME NEW u \in Threads, NEW k \in 1 .. MaxTries, Unmade(u, k)'
        PROVE  status'[<<u, k>>] = "idle"
    <3>1. Unmade(u, k)
      BY <2>1 DEF Unmade
    <3>2. <<u, k>> # Attempt(t)
      <4>1. CASE u # t
        BY <4>1, OtherAttempts
      <4>2. CASE u = t
        <5>1. job[t].times \in Nat /\ k \in Int
          BY <1>0, <1>1, AttemptAt DEF JobsOK, JobOK
        <5>2. k # job[t].times + 1
          BY <1>1, <3>1, <4>2, <5>1 DEF Unmade
        <5>3. QED BY <1>1, <4>2, <5>2
      <4>3. QED BY <4>1, <4>2
    <3>3. QED BY <1>0, <1>4, <3>1, <3>2, AttemptsOf DEF CallsOK
  <2>2. QED BY <1>0, <1>2, <1>3, <1>4, <2>1 DEF CallsOK
<1>8. CopiesOK' /\ GoneOK'
  BY <1>0, <1>2 DEF CopiesOK, GoneOK, Readable
<1>9. CalledOK'
  <2>1. ASSUME NEW u \in Threads, called'[u] # <<>>
        PROVE  /\ job'[u].mode = "ASYNC" /\ outcome'[u] = "returned" /\ status'[Attempt(u)'] = "answer"
               /\ called'[u] = <<ProcessSendResponse(code'[Attempt(u)'])>>
    <3>1. /\ job[u].mode = "ASYNC" /\ outcome[u] = "returned" /\ status[Attempt(u)] = "answer"
          /\ called[u] = <<ProcessSendResponse(code[Attempt(u)])>>
      BY <1>0, <2>1 DEF CalledOK
    <3>2. Attempt(u)' = Attempt(u) /\ Attempt(u) \in Attempts
      BY <1>0, <3>1, AttemptAt DEF Attempt
    <3>3. Attempt(u) # Attempt(t)
      BY <1>3, <3>1
    <3>4. QED BY <1>2, <1>4, <3>1, <3>2, <3>3
  <2>2. QED BY <2>1 DEF CalledOK, ProcessSendResponse
<1>10. QED BY <1>5, <1>6, <1>7, <1>8, <1>9 DEF IInv

\* The callback of an asynchronous send.
LEMMA OperationCompleteStep ==
    ASSUME IInv, NEW t \in Threads, OperationComplete(t)
    PROVE  IInv'
<1>0. TypeOK /\ JobsOK /\ CallsOK /\ CopiesOK /\ GoneOK /\ CalledOK
  BY DEF IInv
<1>1. /\ UNCHANGED <<publish, job, outcome, wire, code, disk, answered>>
      /\ job[t].mode = "ASYNC" /\ outcome[t] = "returned"
      /\ status[Attempt(t)] = "pending" /\ Attempt(t) \in answered
      /\ status' = [status EXCEPT ![Attempt(t)] = "answer"]
      /\ called' = [called EXCEPT ![t] = Append(called[t], ProcessSendResponse(code[Attempt(t)]))]
  BY DEF OperationComplete, tables, locals, net, Calls!EndWithAnswer
<1>2. /\ Attempt(t) \in Attempts /\ Attempt(t) = <<t, job[t].times + 1>> /\ job[t].pc = "done"
      /\ job[t].times \in Nat
  BY <1>0, <1>1, AttemptAt DEF JobsOK, JobOK
<1>3. /\ \A a \in Attempts \ {Attempt(t)} : status'[a] = status[a]
      /\ status'[Attempt(t)] = "answer"
  BY <1>0, <1>1, <1>2 DEF TypeOK
<1>4. called[t] = <<>>
  BY <1>0, <1>1 DEF CalledOK
<1>5. /\ called'[t] = <<ProcessSendResponse(code[Attempt(t)])>>
      /\ \A u \in Threads \ {t} : called'[u] = called[u]
  <2>1. ProcessSendResponse(code[Attempt(t)]) \in Outcomes
    BY DEF ProcessSendResponse, Outcomes
  <2>2. Append(<<>>, ProcessSendResponse(code[Attempt(t)])) = <<ProcessSendResponse(code[Attempt(t)])>>
    OBVIOUS
  <2>3. QED BY <1>0, <1>1, <1>4, <2>2 DEF TypeOK
<1>6. TypeOK'
  <2>1. status' \in [Attempts -> Calls!Ended \cup {"idle", "pending"}]
    BY <1>0, <1>1 DEF TypeOK, Calls!Ended
  <2>2. <<ProcessSendResponse(code[Attempt(t)])>> \in Seq(Outcomes)
    BY DEF ProcessSendResponse, Outcomes
  <2>3. called' \in [Threads -> Seq(Outcomes)]
    BY <1>0, <1>1, <1>5, <2>2 DEF TypeOK
  <2>4. QED BY <1>0, <1>1, <2>1, <2>3 DEF TypeOK
<1>7. JobsOK'
  BY <1>0, <1>1 DEF JobsOK, JobOK
<1>8. CallsOK'
  <2>1. ASSUME NEW u \in Threads, NEW k \in 1 .. MaxTries, Unmade(u, k)'
        PROVE  status'[<<u, k>>] = "idle"
    <3>1. Unmade(u, k)
      BY <1>1, <2>1 DEF Unmade
    <3>2. status[<<u, k>>] = "idle" /\ <<u, k>> \in Attempts
      BY <1>0, <3>1, AttemptsOf DEF CallsOK
    <3>3. QED BY <1>1, <1>3, <3>2
  <2>2. QED BY <1>0, <1>1, <1>3, <2>1 DEF CallsOK
<1>9. CopiesOK' /\ GoneOK'
  BY <1>0, <1>1 DEF CopiesOK, GoneOK, Readable
<1>10. CalledOK'
  <2>1. ASSUME NEW u \in Threads, called'[u] # <<>>
        PROVE  /\ job'[u].mode = "ASYNC" /\ outcome'[u] = "returned" /\ status'[Attempt(u)'] = "answer"
               /\ called'[u] = <<ProcessSendResponse(code'[Attempt(u)'])>>
    <3>0. Attempt(u)' = Attempt(u)
      BY <1>1 DEF Attempt
    <3>1. CASE u = t
      BY <1>1, <1>3, <1>5, <3>0, <3>1
    <3>2. CASE u # t
      <4>1. /\ job[u].mode = "ASYNC" /\ outcome[u] = "returned" /\ status[Attempt(u)] = "answer"
            /\ called[u] = <<ProcessSendResponse(code[Attempt(u)])>>
        BY <1>0, <1>5, <2>1, <3>2 DEF CalledOK
      <4>2. Attempt(u) # Attempt(t) /\ Attempt(u) \in Attempts
        BY <1>0, <3>2, <4>1, OtherAttempts, AttemptAt
      <4>3. QED BY <1>1, <1>3, <1>5, <3>0, <3>2, <4>1, <4>2
    <3>3. QED BY <3>1, <3>2
  <2>2. QED BY <2>1 DEF CalledOK, ProcessSendResponse
<1>11. QED BY <1>6, <1>7, <1>8, <1>9, <1>10 DEF IInv

\* A call is made: the copy of the message is the only one of this attempt.
LEMMA SendMessageStep ==
    ASSUME IInv, NEW t \in Threads, SendMessage(t)
    PROVE  IInv'
<1> DEFINE a == Attempt(t)
<1>0. TypeOK /\ JobsOK /\ CallsOK /\ CopiesOK /\ GoneOK /\ CalledOK
  BY DEF IInv
<1>1. /\ UNCHANGED <<publish, code, disk, answered>> /\ job[t].pc = "invoke"
      /\ status[a] = "idle" /\ status' = [status EXCEPT ![a] = "pending"]
      /\ wire' = wire \cup {Copy(t)}
  BY DEF SendMessage, tables, Calls!Issue
<1>2. /\ a \in Attempts /\ a = <<t, job[t].times + 1>> /\ a[1] = t /\ a[2] = job[t].times + 1
      /\ job[t].times \in Nat /\ job[t].times < MaxTries
  BY <1>0, <1>1, AttemptAt DEF JobsOK, JobOK
<1>3. /\ \A b \in Attempts \ {a} : status'[b] = status[b]
      /\ status'[a] = "pending"
  BY <1>0, <1>1, <1>2 DEF TypeOK
<1>4. /\ job' \in [Threads -> Jobs] /\ outcome' \in [Threads -> Outcomes] /\ called' = called
      /\ \A u \in Threads \ {t} : job'[u] = job[u] /\ outcome'[u] = outcome[u]
      /\ job'[t].times = job[t].times /\ job'[t].mode = job[t].mode /\ job'[t].direct = job[t].direct
      /\ job'[t].queues = job[t].queues
      /\ \/ job'[t].pc = "waiting" /\ job[t].mode = "SYNC" /\ outcome'[t] = "none"
         \/ job'[t].pc = "done" /\ outcome'[t] = "returned"
  <2>1. CASE job[t].mode = "SYNC"
    <3>1. job' = [job EXCEPT ![t] = [job[t] EXCEPT !.pc = "waiting"]] /\ UNCHANGED <<outcome, called>>
      BY <2>1 DEF SendMessage
    <3>2. job[t] \in Jobs
      BY <1>0 DEF TypeOK
    <3>3. [job[t] EXCEPT !.pc = "waiting"] \in Jobs
      BY <3>2 DEF Jobs, Stages
    <3>4. job' \in [Threads -> Jobs] /\ outcome' \in [Threads -> Outcomes]
      BY <1>0, <3>1, <3>3 DEF TypeOK
    <3>5. /\ \A u \in Threads \ {t} : job'[u] = job[u] /\ outcome'[u] = outcome[u]
          /\ job'[t] = [job[t] EXCEPT !.pc = "waiting"]
      BY <1>0, <3>1 DEF TypeOK
    <3>6. outcome'[t] = "none"
      BY <1>0, <1>1, <3>1 DEF JobsOK, JobOK
    <3>7. QED BY <2>1, <3>1, <3>2, <3>4, <3>5, <3>6 DEF Jobs
  <2>2. CASE job[t].mode # "SYNC"
    <3>1. Returns(t, "returned")
      BY <2>2 DEF SendMessage
    <3>2. job[t] \in Jobs
      BY <1>0 DEF TypeOK
    <3>3. /\ job' \in [Threads -> Jobs] /\ outcome' \in [Threads -> Outcomes] /\ called' = called
          /\ \A u \in Threads \ {t} : job'[u] = job[u] /\ outcome'[u] = outcome[u]
          /\ job'[t] = [job[t] EXCEPT !.pc = "done"] /\ outcome'[t] = "returned"
      BY <1>0, <3>1, ReturnsJob DEF Outcomes
    <3>4. QED BY <3>2, <3>3 DEF Jobs
  <2>3. QED BY <2>1, <2>2
<1>5. Copy(t) \in Copies /\ Copy(t).from = a /\ (job[t].mode # "SYNC" => Readable(Copy(t)))
  <2>1. job[t].zips \in Nat /\ job[t].flag \in BOOLEAN
    BY <1>0 DEF TypeOK, Jobs
  <2>2. Copy(t) \in Copies /\ Copy(t).from = a /\ Copy(t).zips = job[t].zips /\ Copy(t).flag = job[t].flag
    BY <1>2, <2>1 DEF Copy, Copies
  <2>3. job[t].mode # "SYNC" => job[t].zips = IF job[t].flag THEN 1 ELSE 0
    BY <1>0, <1>1 DEF JobsOK, JobOK
  <2>4. QED BY <2>2, <2>3 DEF Readable
<1>6. a \notin answered /\ code[a] = "none" /\ \A c \in wire \cup disk : c.from # a
  BY <1>0, <1>1, <1>2 DEF CallsOK
<1> HIDE DEF a
<1>7. TypeOK'
  <2>1. status' \in [Attempts -> Calls!Ended \cup {"idle", "pending"}]
    BY <1>0, <1>1 DEF TypeOK
  <2>2. QED BY <1>0, <1>1, <1>4, <1>5, <2>1 DEF TypeOK
<1>8. JobsOK'
  <2>1. \A u \in Threads \ {t} : JobOK(u)'
    BY <1>0, <1>4 DEF JobsOK, JobOK
  <2>2. JobOK(t)'
    BY <1>0, <1>1, <1>2, <1>4 DEF JobsOK, JobOK
  <2>3. QED BY <2>1, <2>2 DEF JobsOK
<1>9. CallsOK'
  <2>1. ASSUME NEW u \in Threads, NEW k \in 1 .. MaxTries, Unmade(u, k)'
        PROVE  status'[<<u, k>>] = "idle"
    <3>1. CASE u # t
      <4>1. Unmade(u, k)
        BY <1>4, <2>1, <3>1 DEF Unmade
      <4>2. <<u, k>> # a
        BY <3>1, OtherAttempts DEF a
      <4>3. QED BY <1>0, <1>3, <4>1, <4>2, AttemptsOf DEF CallsOK
    <3>2. CASE u = t
      <4>1. Unmade(t, k) /\ k # job[t].times + 1
        BY <1>1, <1>2, <1>4, <2>1, <3>2 DEF Unmade, MaxTries
      <4>2. <<t, k>> # a
        BY <1>2, <4>1
      <4>3. QED BY <1>0, <1>3, <3>2, <4>1, <4>2, AttemptsOf DEF CallsOK
    <3>3. QED BY <3>1, <3>2
  <2>2. ASSUME NEW b \in Attempts
        PROVE  /\ status'[b] = "idle" => /\ b \notin answered' /\ code'[b] = "none"
                                         /\ \A c \in wire' \cup disk' : c.from # b
               /\ status'[b] = "answer" => b \in answered'
               /\ b \in answered' => code'[b] # "none"
               /\ code'[b] \in Stored => \E c \in disk' : c.from = b
    <3>1. CASE b = a
      BY <1>0, <1>1, <1>3, <1>6, <3>1 DEF Stored
    <3>2. CASE b # a
      BY <1>0, <1>1, <1>3, <1>5, <3>2 DEF CallsOK
    <3>3. QED BY <3>1, <3>2
  <2>3. QED BY <2>1, <2>2 DEF CallsOK, Attempts, MaxTries, Stored
<1>10. \A c \in wire \cup disk : c.from \in Attempts /\ c.from[1] \in Threads
  BY <1>0, AttemptsOf DEF TypeOK, Copies
<1>11. CopiesOK'
  <2>1. \A c, d \in wire' \cup disk' : c.from = d.from => c = d
    BY <1>0, <1>1, <1>5, <1>6 DEF CopiesOK
  <2>2. \A c \in wire' : code'[c.from] = "none" /\ c.from \notin answered'
    BY <1>0, <1>1, <1>5, <1>6 DEF CopiesOK
  <2>3. \A c \in disk' : code'[c.from] \in Stored
    BY <1>0, <1>1 DEF CopiesOK
  <2>4. \A c \in wire' \cup disk' : job'[c.from[1]].mode # "SYNC" => Readable(c)
    <3>1. \A u \in Threads : job'[u].mode = job[u].mode
      BY <1>4
    <3>2. QED BY <1>0, <1>1, <1>2, <1>5, <1>10, <3>1 DEF CopiesOK
  <2>5. QED BY <2>1, <2>2, <2>3, <2>4 DEF CopiesOK, Readable, Stored
<1>12. GoneOK'
  <2>1. \A u \in Threads : /\ job'[u].times = job[u].times
                           /\ outcome'[u] = "exception" => outcome[u] = "exception"
    BY <1>4
  <2>2. ASSUME ~RetryAnotherBrokerWhenNotStoreOK, NEW c \in wire' \cup disk'
        PROVE  c.from[2] > job'[c.from[1]].times /\ outcome'[c.from[1]] # "exception"
    <3>1. CASE c \in wire \cup disk
      BY <1>0, <1>10, <2>1, <2>2, <3>1 DEF GoneOK
    <3>2. CASE c = Copy(t)
      BY <1>2, <1>4, <1>5, <3>2
    <3>3. QED BY <1>1, <3>1, <3>2
  <2>3. QED BY <2>2 DEF GoneOK
<1>13. CalledOK'
  <2>1. called[t] = <<>>
    BY <1>0, <1>1 DEF CalledOK, JobsOK, JobOK
  <2>2. ASSUME NEW u \in Threads, called'[u] # <<>>
        PROVE  /\ job'[u].mode = "ASYNC" /\ outcome'[u] = "returned" /\ status'[Attempt(u)'] = "answer"
               /\ called'[u] = <<ProcessSendResponse(code'[Attempt(u)'])>>
    <3>1. u # t
      BY <1>4, <2>1, <2>2
    <3>2. /\ job[u].mode = "ASYNC" /\ outcome[u] = "returned" /\ status[Attempt(u)] = "answer"
          /\ called[u] = <<ProcessSendResponse(code[Attempt(u)])>>
      BY <1>0, <1>4, <2>2 DEF CalledOK
    <3>3. Attempt(u) # a /\ Attempt(u) \in Attempts /\ Attempt(u)' = Attempt(u)
      BY <1>0, <1>4, <3>1, <3>2, OtherAttempts, AttemptAt DEF a, Attempt
    <3>4. QED BY <1>1, <1>3, <1>4, <3>1, <3>2, <3>3
  <2>3. QED BY <2>2 DEF CalledOK, ProcessSendResponse
<1>14. QED BY <1>7, <1>8, <1>9, <1>11, <1>12, <1>13 DEF IInv

\* No connection: the call ends as it is made and no copy leaves.
LEMMA SendDisconnectedStep ==
    ASSUME IInv, NEW t \in Threads, SendDisconnected(t)
    PROVE  IInv'
<1> DEFINE a == Attempt(t)
<1>0. TypeOK /\ JobsOK /\ CallsOK /\ CopiesOK /\ GoneOK /\ CalledOK
  BY DEF IInv
<1>1. /\ UNCHANGED <<publish, wire, code, disk, answered>> /\ job[t].pc = "invoke"
      /\ status' = [status EXCEPT ![a] = "noAnswer"]
  BY DEF SendDisconnected, tables, net, Calls!EndWithout
<1>2. /\ a \in Attempts /\ a = <<t, job[t].times + 1>>
      /\ job[t].times \in Nat /\ job[t].times < MaxTries
  BY <1>0, <1>1, AttemptAt DEF JobsOK, JobOK
<1>3. /\ \A b \in Attempts \ {a} : status'[b] = status[b]
      /\ status'[a] = "noAnswer"
  BY <1>0, <1>1, <1>2 DEF TypeOK
<1>4. PICK how \in {"SEND_OK", "returned"} :
         /\ job' \in [Threads -> Jobs] /\ outcome' \in [Threads -> Outcomes] /\ called' = called
         /\ \A u \in Threads \ {t} : job'[u] = job[u] /\ outcome'[u] = outcome[u]
         /\ outcome'[t] = how /\ job'[t].pc = "done" /\ job'[t].times = job[t].times
         /\ job'[t].mode = job[t].mode /\ job'[t].direct = job[t].direct
  <2>1. PICK how \in {"SEND_OK", "returned"} : Returns(t, how)
    BY DEF SendDisconnected
  <2>2. QED BY <1>0, <2>1, ReturnsJob DEF Outcomes
<1> HIDE DEF a
<1>5. TypeOK'
  <2>1. status' \in [Attempts -> Calls!Ended \cup {"idle", "pending"}]
    BY <1>0, <1>1 DEF TypeOK, Calls!Ended
  <2>2. QED BY <1>0, <1>1, <1>4, <2>1 DEF TypeOK
<1>6. JobsOK'
  <2>1. \A u \in Threads \ {t} : JobOK(u)'
    BY <1>0, <1>4 DEF JobsOK, JobOK
  <2>2. JobOK(t)'
    BY <1>0, <1>2, <1>4 DEF JobsOK, JobOK
  <2>3. QED BY <2>1, <2>2 DEF JobsOK
<1>7. CallsOK'
  <2>1. ASSUME NEW u \in Threads, NEW k \in 1 .. MaxTries, Unmade(u, k)'
        PROVE  status'[<<u, k>>] = "idle"
    <3>1. CASE u # t
      <4>1. Unmade(u, k)
        BY <1>4, <2>1, <3>1 DEF Unmade
      <4>2. <<u, k>> # a
        BY <3>1, OtherAttempts DEF a
      <4>3. QED BY <1>0, <1>3, <4>1, <4>2, AttemptsOf DEF CallsOK
    <3>2. CASE u = t
      <4>1. Unmade(t, k) /\ k # job[t].times + 1
        BY <1>1, <1>2, <1>4, <2>1, <3>2 DEF Unmade, MaxTries
      <4>2. <<t, k>> # a
        BY <1>2, <4>1
      <4>3. QED BY <1>0, <1>3, <3>2, <4>1, <4>2, AttemptsOf DEF CallsOK
    <3>3. QED BY <3>1, <3>2
  <2>2. QED BY <1>0, <1>1, <1>3, <2>1 DEF CallsOK
<1>8. \A c \in wire \cup disk : c.from[1] \in Threads
  BY <1>0, AttemptsOf DEF TypeOK, Copies
<1>9. CopiesOK'
  <2>1. \A u \in Threads : job'[u].mode = job[u].mode
    BY <1>4
  <2>2. QED BY <1>0, <1>1, <1>8, <2>1 DEF CopiesOK, Readable
<1>10. GoneOK'
  <2>1. \A u \in Threads : /\ job'[u].times = job[u].times
                           /\ outcome'[u] = "exception" => outcome[u] = "exception"
    BY <1>4
  <2>2. QED BY <1>0, <1>1, <1>8, <2>1 DEF GoneOK
<1>11. CalledOK'
  <2>1. called[t] = <<>>
    BY <1>0, <1>1 DEF CalledOK, JobsOK, JobOK
  <2>2. ASSUME NEW u \in Threads, called'[u] # <<>>
        PROVE  /\ job'[u].mode = "ASYNC" /\ outcome'[u] = "returned" /\ status'[Attempt(u)'] = "answer"
               /\ called'[u] = <<ProcessSendResponse(code'[Attempt(u)'])>>
    <3>1. u # t
      BY <1>4, <2>1, <2>2
    <3>2. /\ job[u].mode = "ASYNC" /\ outcome[u] = "returned" /\ status[Attempt(u)] = "answer"
          /\ called[u] = <<ProcessSendResponse(code[Attempt(u)])>>
      BY <1>0, <1>4, <2>2 DEF CalledOK
    <3>3. Attempt(u) # a /\ Attempt(u) \in Attempts /\ Attempt(u)' = Attempt(u)
      BY <1>0, <1>4, <3>1, <3>2, OtherAttempts, AttemptAt DEF a, Attempt
    <3>4. QED BY <1>1, <1>3, <1>4, <3>1, <3>2, <3>3
  <2>3. QED BY <2>2 DEF CalledOK, ProcessSendResponse
<1>12. QED BY <1>5, <1>6, <1>7, <1>9, <1>10, <1>11 DEF IInv

\* A broker stores or refuses a copy, and answers whoever waits for that.
LEMMA BrokerHandlesStep ==
    ASSUME IInv, NEW copy \in wire, BrokerHandles(copy)
    PROVE  IInv'
<1> DEFINE a == copy.from
<1>0. TypeOK /\ JobsOK /\ CallsOK /\ CopiesOK /\ GoneOK /\ CalledOK
  BY DEF IInv
<1>1. UNCHANGED <<publish, job, outcome, called>> /\ wire' = wire \ {copy}
  BY DEF BrokerHandles, tables, locals
<1>2. PICK c \in Stored \cup Refused :
         code' = [code EXCEPT ![a] = c] /\ disk' = IF c \in Stored THEN disk \cup {copy} ELSE disk
  BY DEF BrokerHandles
<1>3. status' = status /\ (answered' = answered \/ answered' = answered \cup {a})
  BY DEF BrokerHandles, rpc, Calls!Answer
<1>4. copy \in Copies /\ a \in Attempts /\ code[a] = "none" /\ a \notin answered
  BY <1>0 DEF TypeOK, Copies, CopiesOK
<1>5. /\ \A b \in Attempts \ {a} : code'[b] = code[b]
      /\ code'[a] = c
  BY <1>0, <1>2, <1>4 DEF TypeOK
<1>6. status[a] # "idle"
  BY <1>0, <1>4 DEF CallsOK
<1>7. c # "none" /\ "none" \notin Stored
  BY DEF Stored, Refused
<1>8. \A d \in wire \cup disk : d.from \in Attempts /\ (d # copy => d.from # a)
  BY <1>0 DEF CopiesOK, TypeOK, Copies
<1> HIDE DEF a
<1>9. TypeOK'
  <2>1. code' \in [Attempts -> Codes \cup {"none"}]
    BY <1>0, <1>2 DEF TypeOK, Codes
  <2>2. disk' \subseteq Copies /\ wire' \subseteq Copies /\ answered' \subseteq Attempts
    BY <1>0, <1>1, <1>2, <1>3, <1>4 DEF TypeOK
  <2>3. QED BY <1>0, <1>1, <1>3, <2>1, <2>2 DEF TypeOK
<1>10. JobsOK'
  BY <1>0, <1>1 DEF JobsOK, JobOK
<1>11. wire' \cup disk' \subseteq wire \cup disk
  BY <1>1, <1>2
<1>12. CallsOK'
  <2>1. \A u \in Threads, k \in 1 .. MaxTries : Unmade(u, k)' => status'[<<u, k>>] = "idle"
    BY <1>0, <1>1, <1>3 DEF CallsOK, Unmade
  <2>2. ASSUME NEW b \in Attempts
        PROVE  /\ status'[b] = "idle" => /\ b \notin answered' /\ code'[b] = "none"
                                         /\ \A d \in wire' \cup disk' : d.from # b
               /\ status'[b] = "answer" => b \in answered'
               /\ b \in answered' => code'[b] # "none"
               /\ code'[b] \in Stored => \E d \in disk' : d.from = b
    <3>1. CASE b = a
      <4>1. c \in Stored => copy \in disk' /\ copy.from = a
        BY <1>2 DEF a
      <4>2. status'[a] = "answer" => a \in answered'
        BY <1>0, <1>3, <1>4 DEF CallsOK
      <4>3. QED BY <1>3, <1>5, <1>6, <1>7, <3>1, <4>1, <4>2
    <3>2. CASE b # a
      <4>1. code'[b] = code[b] /\ (b \in answered' <=> b \in answered)
        BY <1>3, <1>5, <3>2
      <4>2. code[b] \in Stored => \E d \in disk' : d.from = b
        BY <1>0, <1>2 DEF CallsOK
      <4>3. QED BY <1>0, <1>3, <1>11, <4>1, <4>2 DEF CallsOK
    <3>3. QED BY <3>1, <3>2
  <2>3. QED BY <2>1, <2>2 DEF CallsOK, Attempts, MaxTries, Stored
<1>13. CopiesOK'
  <2>1. \A d, e \in wire' \cup disk' : d.from = e.from => d = e
    BY <1>0, <1>11 DEF CopiesOK
  <2>2. \A d \in wire' : code'[d.from] = "none" /\ d.from \notin answered'
    BY <1>0, <1>1, <1>3, <1>5, <1>8 DEF CopiesOK
  <2>3. \A d \in disk' : code'[d.from] \in Stored
    <3>1. \A d \in disk : code'[d.from] \in Stored
      BY <1>0, <1>4, <1>5, <1>7, <1>8 DEF CopiesOK, a
    <3>2. c \in Stored => code'[copy.from] \in Stored
      BY <1>5 DEF a
    <3>3. QED BY <1>2, <3>1, <3>2
  <2>4. \A d \in wire' \cup disk' : job'[d.from[1]].mode # "SYNC" => Readable(d)
    BY <1>0, <1>1, <1>11 DEF CopiesOK
  <2>5. QED BY <2>1, <2>2, <2>3, <2>4 DEF CopiesOK, Readable, Stored
<1>14. GoneOK'
  BY <1>0, <1>1, <1>11 DEF GoneOK
<1>15. CalledOK'
  <2>1. ASSUME NEW u \in Threads, called'[u] # <<>>
        PROVE  /\ job'[u].mode = "ASYNC" /\ outcome'[u] = "returned" /\ status'[Attempt(u)'] = "answer"
               /\ called'[u] = <<ProcessSendResponse(code'[Attempt(u)'])>>
    <3>1. /\ job[u].mode = "ASYNC" /\ outcome[u] = "returned" /\ status[Attempt(u)] = "answer"
          /\ called[u] = <<ProcessSendResponse(code[Attempt(u)])>>
      BY <1>0, <1>1, <2>1 DEF CalledOK
    <3>2. Attempt(u)' = Attempt(u) /\ Attempt(u) \in Attempts
      BY <1>0, <1>1, <3>1, AttemptAt DEF Attempt
    <3>3. Attempt(u) # a
      BY <1>0, <1>4, <3>1, <3>2 DEF CallsOK
    <3>4. QED BY <1>1, <1>3, <1>5, <3>1, <3>2, <3>3
  <2>2. QED BY <2>1 DEF CalledOK, ProcessSendResponse
<1>16. QED BY <1>9, <1>10, <1>12, <1>13, <1>14, <1>15 DEF IInv

-----------------------------------------------------------------------------
(* The theorems. *)

\* Start, shutdown and the tables.
LEMMA TablesStep ==
    ASSUME IInv, UNCHANGED <<locals, called, net, rpc>>,
           publish' \in [queues : Routes \cup {<<>>}, which : Nat]
    PROVE  IInv'
<1>1. UNCHANGED <<job, outcome, called, wire, code, disk, status, answered>>
  BY DEF locals, net, rpc
<1>2. TypeOK' /\ JobsOK'
  BY <1>1 DEF IInv, TypeOK, JobsOK, JobOK
<1>3. CallsOK' /\ CopiesOK'
  BY <1>1 DEF IInv, CallsOK, CopiesOK, Unmade, Readable
<1>4. GoneOK' /\ CalledOK'
  BY <1>1 DEF IInv, GoneOK, CalledOK, Attempt, ProcessSendResponse
<1>5. QED BY <1>2, <1>3, <1>4 DEF IInv

\* Every step of threads, brokers and callbacks keeps the invariant.
LEMMA NextIInv == IInv /\ [Next]_vars => IInv'
<1> SUFFICES ASSUME IInv, [Next]_vars PROVE IInv'
  OBVIOUS
<1>0. TypeOK /\ publish \in [queues : Routes \cup {<<>>}, which : Nat]
  BY DEF IInv, TypeOK
<1>1. CASE Start \/ Shutdown
  BY <1>0, <1>1, TablesStep DEF Start, Shutdown, tables
<1>2. CASE RouteChanges
  <2>1. PICK r \in Routes : publish' = [publish EXCEPT !.queues = r]
    BY <1>2 DEF RouteChanges, UpdateTopicPublishInfo
  <2>2. publish' \in [queues : Routes \cup {<<>>}, which : Nat]
    BY <1>0, <2>1
  <2>3. QED BY <1>2, <2>2, TablesStep DEF RouteChanges
<1>3. ASSUME NEW b \in Brokers, AddressDropped(b) PROVE IInv'
  BY <1>0, <1>3, TablesStep DEF AddressDropped
<1>4. ASSUME NEW t \in Threads, NEW mode \in Modes, NEW direct \in BOOLEAN, NEW msg \in Messages,
             SendBegins(t, mode, direct, msg)
      PROVE  IInv'
  BY <1>4, SendBeginsStep
<1>5. ASSUME NEW t \in Threads, Step(t) PROVE IInv'
  <2>1. CASE CallEnds(t)
    <3>1. /\ UNCHANGED <<publish, job, outcome, called, net>> /\ job[t].pc = "waiting"
          /\ Calls!EndWithAnswer(Attempt(t)) \/ Calls!EndWithout(Attempt(t))
      BY <2>1 DEF CallEnds, tables, locals
    <3>2. QED BY <3>1, CallEndsStep
  <2>2. QED BY <1>5, <2>1, FindTopicStep, SelectStep, NoAddressStep, SendKernelStep, SendMessageStep,
               SendDisconnectedStep, SyncReturnsStep DEF Step
<1>6. ASSUME NEW t \in Threads, OperationComplete(t) PROVE IInv'
  BY <1>6, OperationCompleteStep
<1>7. ASSUME NEW t \in Threads, ResponseLost(t) PROVE IInv'
  BY <1>7, CallEndsStep DEF ResponseLost, tables, locals
<1>8. ASSUME NEW copy \in wire, BrokerHandles(copy) PROVE IInv'
  BY <1>8, BrokerHandlesStep
<1>9. CASE UNCHANGED vars
  BY <1>0, <1>9, TablesStep DEF vars, tables
<1>10. ASSUME NEW t \in Threads, ConnectHangs(t) PROVE IInv'
  BY <1>10, ConnectHangsStep
<1>11. QED BY <1>1, <1>2, <1>3, <1>4, <1>5, <1>6, <1>7, <1>8, <1>9, <1>10 DEF Next

\* The invariant holds throughout.
LEMMA IInvHolds == Spec => []IInv
BY InitIInv, NextIInv, PTL DEF Spec

\* However often sendDefaultImpl tries, a message has at most one copy on the
\* brokers, and none when send() throws: an attempt is only given up when it was
\* not made or when its broker has refused it.
THEOREM NoHiddenCopyHolds == Spec => []NoHiddenCopy
<1>1. ASSUME IInv PROVE NoHiddenCopy
  <2>0. TypeOK /\ CallsOK /\ CopiesOK /\ GoneOK
    BY <1>1 DEF IInv
  <2>1. SUFFICES ASSUME ~RetryAnotherBrokerWhenNotStoreOK, NEW t \in Threads
                 PROVE  Cardinality(CopiesOf(t)) <= IF outcome[t] = "exception" THEN 0 ELSE 1
    BY DEF NoHiddenCopy
  <2>2. CASE CopiesOf(t) = {}
    BY <2>2, FS_EmptySet
  <2>3. CASE CopiesOf(t) # {}
    <3>1. PICK c \in CopiesOf(t) : TRUE
      BY <2>3
    <3>2. outcome[t] # "exception"
      BY <2>0, <2>1, <3>1 DEF GoneOK, CopiesOf
    <3>3. ASSUME NEW d \in CopiesOf(t) PROVE d = c
      <4>1. ASSUME NEW e \in CopiesOf(t) PROVE e.from = <<t, job[t].times + 1>>
        <5>0. e \in disk /\ e.from \in Attempts /\ e.from[1] = t /\ job[t].times \in Int
          BY <2>0 DEF CopiesOf, TypeOK, Copies, Jobs
        <5>1. /\ e \in disk /\ e.from \in Attempts /\ e.from[1] = t /\ e.from = <<t, e.from[2]>>
              /\ e.from[2] \in 1 .. MaxTries /\ job[t].times \in Int
          BY <5>0, AttemptsOf
        <5>2. e.from[2] > job[t].times
          BY <2>0, <2>1, <5>1 DEF GoneOK
        <5>3. ~Unmade(t, e.from[2])
          <6>1. status[e.from] # "idle"
            BY <2>0, <5>1 DEF CallsOK
          <6>2. Unmade(t, e.from[2]) => status[<<t, e.from[2]>>] = "idle"
            BY <2>0, <5>1 DEF CallsOK
          <6>3. QED BY <5>1, <6>1, <6>2
        <5>4. e.from[2] = job[t].times + 1
          BY <5>1, <5>2, <5>3 DEF Unmade, MaxTries
        <5>5. QED BY <5>1, <5>4
      <4>2. QED BY <2>0, <3>1, <4>1 DEF CopiesOK, CopiesOf
    <3>4. CopiesOf(t) = {c}
      BY <3>1, <3>3
    <3>5. QED BY <3>2, <3>4, FS_Singleton
  <2>4. QED BY <2>2, <2>3
<1>2. QED BY <1>1, IInvHolds, PTL

\* The SendCallback of an asynchronous send is called at most once, with success
\* exactly when a broker has stored the message, in a form that consumers read.
THEOREM CallbackTrueHolds == Spec => []CallbackTrue
<1>1. ASSUME IInv PROVE CallbackTrue
  <2>0. TypeOK /\ JobsOK /\ CallsOK /\ CopiesOK /\ CalledOK
    BY <1>1 DEF IInv
  <2>1. SUFFICES ASSUME NEW t \in Threads
                 PROVE  /\ Len(called[t]) <= 1
                        /\ called[t] # <<>> => (called[t][1] # "exception" <=> CopiesOf(t) # {})
                        /\ called[t] # <<>> => \A c \in CopiesOf(t) : Readable(c)
    BY DEF CallbackTrue
  <2>2. CASE called[t] = <<>>
    BY <2>2
  <2>3. CASE called[t] # <<>>
    <3>1. /\ job[t].mode = "ASYNC" /\ outcome[t] = "returned" /\ status[Attempt(t)] = "answer"
          /\ called[t] = <<ProcessSendResponse(code[Attempt(t)])>>
      BY <2>0, <2>3 DEF CalledOK
    <3>2. Len(called[t]) = 1 /\ called[t][1] = ProcessSendResponse(code[Attempt(t)])
      BY <3>1
    <3>3. Attempt(t) \in Attempts /\ Attempt(t) = <<t, job[t].times + 1>> /\ job[t].times \in Nat
      BY <2>0, <3>1, AttemptAt
    <3>4. called[t][1] # "exception" <=> code[Attempt(t)] \in Stored
      BY <3>2 DEF ProcessSendResponse, Stored
    <3>5. ASSUME NEW c \in CopiesOf(t) PROVE c.from = Attempt(t) /\ Readable(c)
      <4>1. /\ c \in disk /\ c.from \in Attempts /\ c.from[1] = t /\ c.from = <<t, c.from[2]>>
            /\ c.from[2] \in 1 .. MaxTries
        BY <2>0, AttemptsOf DEF CopiesOf, TypeOK, Copies
      <4>2. ~Unmade(t, c.from[2])
        <5>1. status[c.from] # "idle"
          BY <2>0, <4>1 DEF CallsOK
        <5>2. Unmade(t, c.from[2]) => status[<<t, c.from[2]>>] = "idle"
          BY <2>0, <4>1 DEF CallsOK
        <5>3. QED BY <4>1, <5>1, <5>2
      <4>3. c.from[2] = job[t].times + 1
        BY <3>1, <3>3, <4>1, <4>2 DEF Unmade, MaxTries
      <4>4. QED BY <2>0, <3>1, <3>3, <4>1, <4>3 DEF CopiesOK
    <3>6. code[Attempt(t)] \in Stored => CopiesOf(t) # {}
      <4>1. SUFFICES ASSUME code[Attempt(t)] \in Stored PROVE \E c \in disk : c.from[1] = t
        BY DEF CopiesOf
      <4>2. PICK c \in disk : c.from = Attempt(t)
        BY <2>0, <3>3, <4>1 DEF CallsOK
      <4>3. QED BY <3>3, <4>2
    <3>7. CopiesOf(t) # {} => code[Attempt(t)] \in Stored
      BY <2>0, <3>5 DEF CopiesOK, CopiesOf
    <3>8. QED BY <3>2, <3>4, <3>5, <3>6, <3>7
  <2>4. QED BY <2>2, <2>3
<1>2. QED BY <1>1, IInvHolds, PTL
=============================================================================
