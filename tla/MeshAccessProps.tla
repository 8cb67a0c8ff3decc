--------------------------- MODULE MeshAccessProps ---------------------------
(***************************************************************************)
(* What entry access promises: no byte is charged twice, a secret that was *)
(* replaced or withdrawn does not come back, and an entry serves what its  *)
(* lease says and nothing once the lease is over.                          *)
(***************************************************************************)
EXTENDS MeshAccess

\* Whatever reports are lost, repeated or merged out of order, and whoever
\* merges them, the master never charges a node more bytes at an entry than
\* that entry measured for it (mergeMeshUsage, rotateDeviceCredentials).
NoDoubleCharge ==
  \A e \in Entry, n \in Node : charged[e][n] <= carried[e][n]

\* While nodes stay at their entry, every byte measured there is charged or is
\* still ahead of the baseline, and nothing else is: no report, rotation,
\* grant or failed apply loses a byte or invents one.
EveryByteOnce ==
  \A n \in assigned :
    LET a == slave[Home(n)] IN
    /\ Baseline(n) = charged[Home(n)][n]
    /\ a.gen[n] # 0 => a.bytes[n] = carried[Home(n)][n]

\* An identity the master has replaced stops for good where its replacement
\* arrived: no late grant, retry or rollback of an apply puts an older secret
\* of a node into sing-box again (installMeshAccess, meshLeaseCycle).
NoSecretReturns ==
  [][\A e \in Entry, n \in Node :
       live'[e][n] # live[e][n] => live'[e][n] = 0 \/ live'[e][n] >= slave[e].gen[n]]_vars

\* A slave's records agree with its lease and its counters, and nothing waits
\* to be applied: no cycle of its daemon will touch sing-box.
Settled(e) ==
  LET a == slave[e] IN
  /\ ~a.pending
  /\ a.seq # 0 => LeaseExpired(a) = a.expired /\ LeaseBlocked(a) = a.blocked

\* A commit or a rollback may have stopped half-way at a slave in this phase:
\* its state is the one saved before, and either plan may be running.
HalfDone(phase, decision) ==
  phase = "committing" \/ (phase = "committed" /\ decision = "rollback")

\* When a slave is settled, no commit or rollback is half-done there and its
\* lease lets identities in, sing-box authenticates exactly those, under the
\* plan and grant it holds: no apply that failed is forgotten, and the
\* rollback that resolves a half-done commit brings the running configuration
\* back whichever plan it left running (mesh_agent.go:184-208).
ServesItsGrant ==
  \A e \in Entry :
    /\ Settled(e) /\ ~HalfDone(slave[e].phase, rollout)
    /\ View(e, slave[e]) # Nobody
    => live[e] = View(e, slave[e])

\* When a slave is settled and lets nobody in, sing-box authenticates nobody:
\* permissions, disabling and expiry are synchronised by the master
\* (docs/MESH.md:16). It does not hold (README, Disagreements).
RevokedIsOff ==
  \A e \in Entry :
    Settled(e) /\ View(e, slave[e]) = Nobody => live[e] = Nobody

\* An entry the master no longer reaches stops serving: with the lease over,
\* sing-box comes to authenticate nobody unless a new lease arrives
\* (meshLeaseCycle, meshLocalView).
LeaseEndsService ==
  \A e \in Entry :
    (slave[e].seq # 0 /\ LeaseExpired(slave[e])) ~>
      (live[e] = Nobody \/ ~LeaseExpired(slave[e]))
==============================================================================
