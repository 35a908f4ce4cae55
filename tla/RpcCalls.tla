------------------------------ MODULE RpcCalls ------------------------------
(***************************************************************************)
(* What the remoting layer promises to the rest of the client, without     *)
(* sockets, threads and tables: a call that was issued ends at most once,  *)
(* with the broker's answer to this very call or without one.  A call      *)
(* whose bytes got mixed up with another call's on the connection is       *)
(* outside the promise: nothing is said of how it ends.                    *)
(***************************************************************************)
CONSTANTS
    Calls,    \* the calls made
    Oneway    \* the ones that expect no answer

VARIABLES
    status,   \* call -> how far it got
    answered, \* the calls a broker answered
    mixed     \* the calls whose frame reached a broker with foreign bytes in it

vars == <<status, answered, mixed>>

Ended == {"answer", "noAnswer", "both"}

Init ==
    /\ status = [c \in Calls |-> "idle"]
    /\ answered = {} /\ mixed = {}

Issue(c) ==
    /\ status[c] = "idle" /\ status' = [status EXCEPT ![c] = "pending"]
    /\ UNCHANGED <<answered, mixed>>

\* A call that has already been given up may still be answered.
Answer(c) ==
    /\ status[c] # "idle" /\ c \notin Oneway \cup answered
    /\ answered' = answered \cup {c}
    /\ UNCHANGED <<status, mixed>>

EndWithAnswer(c) ==
    /\ status[c] = "pending" /\ c \in answered
    /\ status' = [status EXCEPT ![c] = "answer"]
    /\ UNCHANGED <<answered, mixed>>

\* Without a connection a call ends as soon as it is made.
EndWithout(c) ==
    /\ status[c] \in {"idle", "pending"} /\ status' = [status EXCEPT ![c] = "noAnswer"]
    /\ UNCHANGED <<answered, mixed>>

\* Frames run into each other; the broker may answer what it made of them.
Mix(S) ==
    /\ mixed' = mixed \cup S
    /\ \E A \in SUBSET (S \ Oneway) : answered' = answered \cup A
    /\ UNCHANGED status

MixedEnds(c) ==
    /\ c \in mixed /\ \E e \in Ended : status' = [status EXCEPT ![c] = e]
    /\ UNCHANGED <<answered, mixed>>

Next ==
    \/ \E c \in Calls : Issue(c) \/ Answer(c) \/ EndWithAnswer(c) \/ EndWithout(c) \/ MixedEnds(c)
    \/ \E S \in SUBSET Calls : Mix(S)

Spec == Init /\ [][Next]_vars
=============================================================================
