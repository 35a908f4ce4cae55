----------------------------- MODULE MCRebalance -----------------------------
EXTENDS Rebalance
=============================================================================
