----------------------------- MODULE MCServices -----------------------------
(* Instances of Services for TLC: two pull requests and two callbacks.      *)
EXTENDS Services
=============================================================================
