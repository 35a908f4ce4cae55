--------------------------- MODULE MCReceivePath ---------------------------
(***************************************************************************)
(* The way of an answer into the application for TLC: the bytes of a       *)
(* connection become messages of the protocol (Framing), and the body of   *)
(* the answer to a pull becomes messages of the application (PullClient).  *)
(* They share no state, so a behaviour exercises one of them.              *)
(***************************************************************************)
EXTENDS Framing, PullClient

VARIABLE side

Kind(t, b, w) == [tag |-> t, body |-> b, wire |-> w]

\* A message that was packed, one that was not, and one without a tag.
MessageKinds == {Kind("a", 9, 1), Kind("b", 1, 1), Kind(None, 1, 1)}

TwoIds == {0, 1}

InitBoth == side \in {"connection", "pull"} /\ Init /\ PullInit

OnConnection(A) == side = "connection" /\ A /\ UNCHANGED <<side, pullVars>>

InPull(A) == side = "pull" /\ A /\ UNCHANGED <<side, vars>>

varsBoth == <<side, vars, pullVars>>

SpecBoth ==
    /\ InitBoth /\ [][OnConnection(Next) \/ InPull(PullNext)]_varsBoth
    /\ WF_varsBoth(OnConnection(Arrivals)) /\ WF_varsBoth(OnConnection(EventThread))
    /\ WF_varsBoth(InPull(Pulls)) /\ WF_varsBoth(InPull(PullKernelImpl))
    /\ WF_varsBoth(InPull(Answered)) /\ WF_varsBoth(InPull(Process))

\* Pulls reach the broker again after its replicas and the table changed; while the connection
\* runs nobody pulls.
PullsResumed == side = "pull" => PullsGoOn
=============================================================================
