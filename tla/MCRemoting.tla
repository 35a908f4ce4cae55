----------------------------- MODULE MCRemoting -----------------------------
(* An instance of Remoting for TLC: an asynchronous send with a body, a     *)
(* synchronous query and a one-way request to one broker.                   *)
EXTENDS Remoting, TLC

CONSTANTS send, query, unregister, b1

MCKind ==
    [c \in Calls |-> CASE c = query -> "sync" [] c = unregister -> "oneway" [] OTHER -> "async"]

MCAddr == [c \in Calls |-> b1]
=============================================================================
