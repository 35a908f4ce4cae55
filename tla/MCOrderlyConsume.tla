-------------------------- MODULE MCOrderlyConsume --------------------------
EXTENDS OrderlyConsume, TLC

Symmetry == Permutations(PQs) \cup Permutations(Workers)

\* Bound: the queue is not given up again when no ProcessQueue is left for it.
LastStays == created = PQs => table # NoPQ
=============================================================================
