--------------------------- MODULE MCPushConsumer ---------------------------
EXTENDS PushConsumer, TLC

Symmetry == Permutations(Clients) \cup Permutations(PQs) \cup Permutations(Workers)
=============================================================================
