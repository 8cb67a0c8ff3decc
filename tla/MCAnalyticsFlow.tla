--------------------------- MODULE MCAnalyticsFlow ---------------------------
(* Connections of two nodes that pass through one slave. *)
EXTENDS AnalyticsFlow

CONSTANTS n1, n2

\* The nodes take turns.
Alternate == [c \in Conn |-> IF c % 2 = 1 THEN n1 ELSE n2]
\* A long connection and short ones.
LongShort == [c \in Conn |-> IF c = 1 THEN 2 ELSE 1]
=============================================================================
