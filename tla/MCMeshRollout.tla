---------------------------- MODULE MCMeshRollout ----------------------------
(***************************************************************************)
(* Small instances of MeshRollout for TLC: a master and one or two slaves. *)
(***************************************************************************)
EXTENDS MeshRolloutProps

CONSTANTS master, relay, exit   \* the members of the repository's tests

\* The topology lists the master first (mesh init), then the slaves.
TopologyRank == [m \in Member |-> CASE m = master -> 1 [] m = relay -> 2 [] m = exit -> 3]
==============================================================================
