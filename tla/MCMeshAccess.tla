----------------------------- MODULE MCMeshAccess -----------------------------
(***************************************************************************)
(* Small instances of MeshAccess for TLC.                                  *)
(***************************************************************************)
EXTENDS MeshAccessProps, Sequences

CONSTANTS
  relay, exit,       \* slaves that are entries
  n1,                \* a managed node
  daemon, operator   \* who synchronises

\* Nodes stay at relay.
Fixed == <<[n \in Node |-> relay]>>

\* Nodes go to the other entry.
Moves == Fixed \o <<[n \in Node |-> exit]>>
==============================================================================
