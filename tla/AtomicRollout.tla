----------------------------- MODULE AtomicRollout -----------------------------
(***************************************************************************)
(* What "admin mesh apply" promises (docs/MESH.md), without messages,      *)
(* journals or crashes: one rollout at a time; a decision to finalize is   *)
(* only taken while nobody has gone back to the old plan; a member that    *)
(* ends the rollout follows the decision; a rollout that was decided is    *)
(* closed only when it is finalized at every member.                       *)
(***************************************************************************)
CONSTANTS Member, Tx, NoTx

VARIABLES
  open,      \* the rollout in progress, NoTx when there is none
  used,      \* rollouts ever opened
  decided,   \* rollouts decided to be finalized
  ended      \* [tx, member, how]: how a rollout ended at a member

vars == <<open, used, decided, ended>>

How(t) == IF t \in decided THEN "finalized" ELSE "rolled-back"

Init == open = NoTx /\ used = {} /\ decided = {} /\ ended = {}

Open(t) ==
  /\ open = NoTx /\ t \notin used
  /\ open' = t /\ used' = used \cup {t}
  /\ UNCHANGED <<decided, ended>>

Decide ==
  /\ open # NoTx
  /\ \A x \in ended : x.tx # open
  /\ decided' = decided \cup {open}
  /\ UNCHANGED <<open, used, ended>>

End(t, m) ==
  /\ t \in used
  /\ ended' = ended \cup {[tx |-> t, member |-> m, how |-> How(t)]}
  /\ UNCHANGED <<open, used, decided>>

Close ==
  /\ open # NoTx
  /\ open \in decided =>
       \A m \in Member : [tx |-> open, member |-> m, how |-> "finalized"] \in ended
  /\ open' = NoTx
  /\ UNCHANGED <<used, decided, ended>>

Next ==
  \/ \E t \in Tx : Open(t)
  \/ Decide
  \/ \E t \in Tx, m \in Member : End(t, m)
  \/ Close

Spec == Init /\ [][Next]_vars
================================================================================
