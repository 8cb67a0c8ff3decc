---------------------------- MODULE MCUsageCounters ----------------------------
(* UsageCounters on two nodes that may hold each other's mark in turn.        *)
EXTENDS UsageCounters, TLC

Symmetry == Permutations(Node)
=============================================================================
