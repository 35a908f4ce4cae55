----------------------------- MODULE MCProducer -----------------------------
(* Instances of Producer for TLC. *)
EXTENDS Producer, TLC

CONSTANTS b1, b2, t1, t2

\* Two brokers, the topic on one of them, and a topic no queue of which can be written.
MCRoutes == {<< <<b1, 0>>, <<b1, 1>>, <<b2, 0>> >>, << <<b1, 0>> >>, <<>>}

Symmetry == Permutations(Threads)
=============================================================================
