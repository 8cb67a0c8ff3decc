--------------------------- MODULE MeshRolloutProps ---------------------------
(***************************************************************************)
(* What makes a rollout correct: properties of MeshRollout, checked by TLC *)
(* through MCMeshRollout and partly proved in MeshRolloutProofs.           *)
(***************************************************************************)
EXTENDS MeshRollout

\* Two members never end the same transaction differently: one keeping the new
\* plan (finalized), the other the old one (rolled back).
Agreement ==
  \A x, y \in outcome : x.tx = y.tx => x.how = y.how

\* Once the decision to finalize is saved, no member rolls that transaction
\* back: "已有最终提交决定则继续确认" (docs/MESH.md).
DecisionHonoured ==
  \A x \in outcome : x.how = "rolled-back" => x.tx \notin decided

\* A member that holds an open transaction can always be reached by "recover":
\* the master's journal names that transaction.
JournalCoversOpenTransactions ==
  \A m \in Member : agent[m].tx # NoTx => agent[m].tx = journal.tx

\* A plan that was finalized at a member is never given up for an older one.
FinalizedIsKept ==
  \A x \in outcome :
    x.how = "finalized" => agent[x.member].active >= x.rev

\* A member outside any transaction runs the plan its state declares.
RuntimeFollowsState ==
  \A m \in Member : agent[m].tx = NoTx => runtime[m] = agent[m].active

\* Every state a member saves passes validateMeshState when it is read back: a
\* state that does not is refused by loadState and the member is out of reach.
StateLoads ==
  /\ \A m \in Member :
       LET j == agent[m] IN
       /\ j.tx = NoTx => j.pending = 0 /\ j.previous = 0 /\ j.phase = ""
       /\ j.tx # NoTx => j.pending > j.previous /\ j.phase # ""
       /\ j.phase = "committed" => j.active = j.pending
       /\ j.lastTx # NoTx => j.lastOutcome # ""
  /\ journal.tx # NoTx => journal.rev = revision

\* The master switches only after every slave runs the new plan.
MasterSwitchesLast ==
  [][agent'[Master].phase = "committing" \/ agent'[Master].phase = "committed" =>
       Switched(agent[Master]) \/
       \A m \in Member \ {Master} :
         agent[m].tx = agent'[Master].tx /\ agent[m].phase = "committed"]_vars

\* The rollout implements the abstract promise of AtomicRollout.
Atomic == INSTANCE AtomicRollout WITH
  open <- journal.tx,
  used <- begun,
  ended <- {[tx |-> x.tx, member |-> x.member, how |-> x.how] : x \in outcome}

\* Every step of the coordinator, the agents and the network, faults included,
\* is a step of the abstract rollout or leaves it alone: all members end a
\* transaction the way the saved decision says, and a decided one is closed
\* only when it is finalized everywhere.
AtomicSpec == Atomic!Spec

\* What the operator and the machines owe for a rollout to end: processes run,
\* live exchanges are answered, and "recover" is run while a journal is open.
Fairness ==
  /\ \A c \in Coord :
       /\ WF_vars(Recover(c))
       /\ WF_vars(PersistRefused(c) \/ \E t \in Tx : Persist(c, t))
       /\ WF_vars((\E m \in Member : Send(c, m)) \/ Succeeded(c) \/ Refused(c))
       /\ WF_vars(Decide(c) \/ DecideFails(c))
       /\ WF_vars(Clear(c))
  /\ WF_vars(\E r \in PendingRequests : AgentNext(r))

FairSpec == Spec /\ Fairness

\* Every journal is eventually removed, whatever was lost on the way.
RecoveryCompletes == journal.tx # NoTx ~> journal.tx = NoTx

===============================================================================
