-------------------------- MODULE MCClientFactory --------------------------
(***************************************************************************)
(* The two sides of MQClientFactory for TLC: its life (Lifecycle) and its  *)
(* routes (Routes).  They share no state but the factory itself, so a      *)
(* behaviour exercises one side.                                           *)
(***************************************************************************)
EXTENDS Lifecycle, Routes

CONSTANTS b1, b2

VARIABLE side

\* The topics of a push consumer's process, in the order of the std::set.
ConsumerTopics == <<"%RETRY%g", "A", "TBW102">>

\* The retry topic is created with the first message that is sent back.
ConsumerRoutes ==
    [t \in TopicSet |-> CASE t = "%RETRY%g" -> {} [] t = "A" -> {b1} [] t = "TBW102" -> {b1, b2}]

KindOf == [c \in Clients |-> CASE c = "push" -> "push" [] c = "pull" -> "pull" [] OTHER -> "producer"]

GroupOf == [c \in Clients |-> "g"]

TheClients == {"producer", "twin", "push", "pull"}

InitBoth == side \in {"routes", "life"} /\ Init /\ RouteInit

InRoutes(A) == side = "routes" /\ A /\ UNCHANGED <<side, vars>>

NextBoth == InRoutes(RouteNext) \/ (side = "life" /\ Next /\ UNCHANGED <<side, routeVars>>)

varsBoth == <<side, vars, routeVars>>

SpecBoth ==
    /\ InitBoth /\ [][NextBoth]_varsBoth
    /\ WF_varsBoth(InRoutes(UpdateTimer)) /\ WF_varsBoth(InRoutes(CleanTimer))
    /\ WF_varsBoth(InRoutes(InUpdate("asker")))

\* The refresh follows the name server; while the other side runs nothing is refreshed.
RoutesFollowed == \A t \in TopicSet : []<>(side = "life" \/ UpToDate(t))

\* Every broker that keeps its address hears heartbeats.
HeartbeatsReached == \A b \in Brokers \ Down : []<>(side = "life" \/ HeardOf(b))
=============================================================================
