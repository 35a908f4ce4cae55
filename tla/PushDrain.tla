----------------------------- MODULE PushDrain -----------------------------
(***************************************************************************)
(* PushConsumer with its threads: what the consume executor (ThreadPool)   *)
(* and the remoting client really give a request that waits for a thread   *)
(* and a thread that waits for a call.  AddWork may wake nobody, and the   *)
(* work then waits for the next AddWork; a send-back that has to connect   *)
(* may never return.                                                       *)
(***************************************************************************)
EXTENDS PushConsumer

VARIABLES
    awake,  \* a thread of the executor is bound to call GetWork
    hung    \* consume threads whose send-back never returns

drainVars == <<vars, awake, hung>>

DrainInit == Init /\ awake = FALSE /\ hung = {}

\* AddWork wakes a thread, or none: the pool is at its maximum, the thread it
\* picks was stopped, or no thread could be made.  A thread that is awake takes
\* work until GetWork finds none.
AwakeAfter ==
    IF work' \ work # {} THEN {hung # Workers, awake}
    ELSE {awake /\ work' # {}}

\* A step of the consumer, in which the threads that hang take no part.
Runs(A) ==
    /\ A
    /\ \A w \in hung : task'[w] \in {task[w], NoTask}
    /\ hung' = {w \in hung : task'[w] # NoTask}
    /\ awake' \in AwakeAfter

\* The send-back connects to a broker that does not complete the connection.
HangBack(w) ==
    /\ task[w].pc = "back" /\ w \notin hung
    /\ hung' = hung \cup {w}
    /\ awake' \in {awake /\ hung' # Workers, FALSE}
    /\ UNCHANGED vars

DrainNext == Runs(Next) \/ \E w \in Workers : HangBack(w)

DrainSpec == DrainInit /\ [][DrainNext]_drainVars

\* The steps of one consume thread other than taking a request: once it has
\* one it runs to the end of Do.
TaskStep(w) ==
    \/ \E k \in 0 .. Cardinality(task[w].msgs) : ConsumeMessage(w, k)
    \/ \E kept, gone \in SUBSET task[w].failed : SendMessageBack(w, kept, gone)
    \/ RemoveMessage(w) \/ UpdateOffset(w)

SentBack(w) == \E gone \in SUBSET task[w].failed : SendMessageBack(w, {}, gone)

TakeRequest(r) == DiscardRequest(r) \/ \E w \in Workers : StartRequest(w, r)

\* Fairness: a thread that does not hang goes on (the listener returns), a
\* thread that is awake takes every request of the queue, timers fire, and a
\* message that is sent back over and over is sent back in the end.
Fairness ==
    /\ \A w \in Workers : WF_drainVars(Runs(TaskStep(w))) /\ SF_drainVars(Runs(SentBack(w)))
    /\ \A r \in [pq : PQs, msgs : (SUBSET Matching) \ {{}}] :
          /\ WF_drainVars(awake /\ Runs(TakeRequest(r)))
          /\ WF_drainVars(Runs(OnTimeOut(r)))
    /\ \A c \in Clients : WF_drainVars(Runs(SetDropped(c)))

FairDrainSpec == DrainSpec /\ Fairness

-----------------------------------------------------------------------------
\* The message is with a request nobody is bound to take, or with a thread that hangs.
Stranded(p, o) ==
    \/ ~awake /\ \E r \in work : r.pq = p /\ o \in r.msgs
    \/ \E w \in hung : task[w].pq = p /\ o \in task[w].msgs

\* Every message put into a ProcessQueue leaves it: the listener or the retry
\* topic gets it in the end, however often sending it back fails and whatever
\* batch it is in, unless the queue is dropped or its client dies meanwhile, or
\* the message is left to a sleeping pool or to a call that never returns.
TreeDrains ==
    \A p \in PQs, o \in Messages :
       o \in msgTreeMap[p] ~> o \notin msgTreeMap[p] \/ dropped[p] \/ Stranded(p, o)
=============================================================================
