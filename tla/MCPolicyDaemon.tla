---------------------------- MODULE MCPolicyDaemon ----------------------------
(***************************************************************************)
(* The daemon for TLC: anna is throttled, may be blocked hard or softly    *)
(* for a burst, and expires; ben is billed and limited in connections.     *)
(***************************************************************************)
EXTENDS PolicyDaemonProps
===============================================================================
