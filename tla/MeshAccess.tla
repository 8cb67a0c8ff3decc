------------------------------ MODULE MeshAccess ------------------------------
(***************************************************************************)
(* Entry access: how the master hands the identities of a user's nodes to  *)
(* the slaves that serve them as entries, for the length of a lease, and   *)
(* how it charges the traffic the slaves report                            *)
(* (cmd/sbmgr/mesh_access.go, called by the daemon's cycles and by "admin  *)
(* mesh sync").                                                            *)
(*                                                                         *)
(* One user is modelled, with one managed node per element of Node.  A     *)
(* node keeps its AuthUser; its UUID, the secret that sing-box and the     *)
(* usage report know it by, is a generation: 1, 2, ... and 0 for none.     *)
(* Upload and download are counted the same way and are one counter.       *)
(*                                                                         *)
(* Time is the time left of each lease, on one clock.  A slave's state and *)
(* its running sing-box are separate: an apply moves the first into the    *)
(* second, can fail, and can succeed without its confirmation being saved. *)
(* A rollout (MeshRollout) appears as the steps that change which entry    *)
(* serves a node, with the applies and saves of a commit or a rollback     *)
(* that succeed or stop half-way.                                          *)
(***************************************************************************)
EXTENDS Naturals, FiniteSets, FiniteSetsExt

CONSTANTS
  Entry,      \* the slaves with client settings: Mesh.Members but the master
  Members,    \* the number of members, the master included
  Node,       \* the user's managed nodes
  Sync,       \* processes that run meshSyncAccess: the daemon, an operator
  Route,      \* the entry of each node's route under each plan revision
  MaxPlan,    \* bound: plan revisions
  Quota,      \* QuotaBytes, 0 for none
  Lease,      \* meshLeaseDuration in ticks
  Edits,      \* the operations of administrators that may happen
  MaxGen,     \* bound: UUIDs a node is given
  MaxSeq,     \* bound: grants built
  MaxBytes    \* bound: bytes measured for a node at an entry

ASSUME NodeAssumption == IsFiniteSet(Node)
ASSUME MembersAssumption == Members \in Nat \ {0}
ASSUME PlanAssumption == MaxPlan \in Nat \ {0}
ASSUME RouteAssumption == Route \in [1 .. MaxPlan -> [Node -> Entry]]
ASSUME NumberAssumption == {Quota, Lease, MaxSeq, MaxBytes} \subseteq Nat
ASSUME GenAssumption == MaxGen \in Nat \ {0}
ASSUME EditsAssumption ==
  Edits \subseteq {"rotate-link", "rotate", "reassign", "disable", "reset", "mesh apply"}

VARIABLES
  assigned,  \* nodes the user has, in the master's state
  issued,    \* the last UUID given to each node
  enabled,   \* the user's Enabled
  used,      \* measuredUsage of the user at the master
  base,      \* Counters["mesh:<entry>:<identity>:..."]
  seq,       \* MeshSyncSequence
  plan,      \* revision of the master's MeshAgent.Active
  rollout,   \* MeshRollout: none, applied, or the Decision carried out
  proc,      \* the processes that synchronise
  grants,    \* grants on their way, with the time left of their lease
  slave,     \* the state of each slave
  live,      \* the identities each slave's sing-box authenticates
  charged,   \* history: bytes charged for a node at an entry
  carried    \* history: bytes the entry measured for it

master == <<assigned, issued, enabled, used, base, seq, plan, rollout, charged>>
vars == <<assigned, issued, enabled, used, base, seq, plan, rollout, proc,
          grants, slave, live, charged, carried>>

--------------------------------------------------------------------------------
(* Data *)

Gen == 0 .. MaxGen
Identities == [Node -> Gen]
Nobody == [n \in Node |-> 0]
Plan == 1 .. MaxPlan
Phase == {"", "prepared", "committing", "committed"}

Slave ==
  [rev : Plan,          \* MeshAgent.Active
   phase : Phase,       \* MeshAgent.Phase, "" when Transaction is empty
   seq : Nat,           \* MeshLease.Sequence, 0 for no lease yet
   ttl : 0 .. Lease,    \* time to MeshLease.Until
   expired : BOOLEAN,   \* MeshLease.Expired, as last applied
   blocked : BOOLEAN,   \* MeshLease.Blocked holds the user, as last applied
   limit : Nat,         \* MeshLease.Quota of the user
   enabled : BOOLEAN,   \* the granted user's Enabled
   gen : Identities,    \* the granted nodes
   bytes : [Node -> Nat],  \* their traffic
   total : Nat,         \* the user's traffic
   pending : BOOLEAN]   \* StatsApplyPending

NewSlave ==
  [rev |-> 1, phase |-> "", seq |-> 0, ttl |-> 0, expired |-> FALSE,
   blocked |-> FALSE, limit |-> 0, enabled |-> FALSE, gen |-> Nobody,
   bytes |-> Nobody, total |-> 0, pending |-> FALSE]

Report == [entry : Entry, rev : Plan, gen : Identities, bytes : [Node -> Nat]]
Grant == [entry : Entry, seq : Nat, ttl : 0 .. Lease, rev : Plan,
          enabled : BOOLEAN, gen : Identities, share : Nat]

Max2(a, b) == IF a < b THEN b ELSE a
HasUser(gen) == \E n \in Node : gen[n] # 0
Exhausted(limited, count, limit) == limited /\ limit <= count

\* meshLocalView: what a slave's sing-box should authenticate now
View(e, a) ==
  [n \in Node |->
     IF /\ a.ttl > 0 /\ a.enabled
        /\ ~Exhausted(Quota > 0, a.total, a.limit)
        /\ Route[a.rev][n] = e
     THEN a.gen[n] ELSE 0]

LeaseExpired(a) == a.ttl = 0
LeaseBlocked(a) == HasUser(a.gen) /\ Exhausted(Quota > 0, a.total, a.limit)

--------------------------------------------------------------------------------
(* The master's accounts *)

Home(n) == Route[plan][n]
Baseline(n) == base[Home(n)][n][issued[n]]

Init ==
  /\ assigned = Node
  /\ issued = [n \in Node |-> 1]
  /\ enabled = TRUE
  /\ used = 0
  /\ base = [e \in Entry |-> [n \in Node |-> [g \in Gen |-> 0]]]
  /\ seq = 0
  /\ plan = 1
  /\ rollout = "none"
  /\ proc = [p \in Sync |-> [todo |-> {}, report |-> {}]]
  /\ grants = {}
  /\ slave = [e \in Entry |-> NewSlave]
  /\ live = [e \in Entry |-> Nobody]
  /\ charged = [e \in Entry |-> Nobody]
  /\ carried = [e \in Entry |-> Nobody]

\* The baselines after rotateDeviceCredentials gave node n a new UUID
MovedBaseline(n) ==
  [base EXCEPT ![Home(n)][n] =
     [@ EXCEPT ![issued[n] + 1] = Baseline(n), ![issued[n]] = 0]]

\* "admin device rotate-link" and the portal's reset
RotateLink(n) ==
  /\ "rotate-link" \in Edits
  /\ n \in assigned /\ issued[n] < MaxGen
  /\ rollout = "none"
  /\ issued' = [issued EXCEPT ![n] = @ + 1]
  /\ base' = MovedBaseline(n)
  /\ UNCHANGED <<assigned, enabled, used, seq, plan, rollout, proc, grants,
                 slave, live, charged, carried>>

\* "admin device rotate"
Rotate(n) ==
  /\ "rotate" \in Edits
  /\ n \in assigned /\ issued[n] < MaxGen
  /\ issued' = [issued EXCEPT ![n] = @ + 1]
  /\ UNCHANGED <<assigned, enabled, used, base, seq, plan, rollout, proc, grants,
                 slave, live, charged, carried>>

\* The selection of a device's routes leaves node n out
Unassign(n) ==
  /\ "reassign" \in Edits
  /\ n \in assigned
  /\ assigned' = assigned \ {n}
  /\ UNCHANGED <<issued, enabled, used, base, seq, plan, rollout, proc, grants,
                 slave, live, charged, carried>>

\* It takes the route in again, under the same name: same AuthUser, new UUID
Assign(n) ==
  /\ "reassign" \in Edits
  /\ n \notin assigned /\ issued[n] < MaxGen
  /\ rollout = "none"
  /\ assigned' = assigned \cup {n}
  /\ issued' = [issued EXCEPT ![n] = @ + 1]
  /\ UNCHANGED <<enabled, used, base, seq, plan, rollout, proc, grants, slave,
                 live, charged, carried>>

\* The user is disabled, expires or is blocked, or is enabled again
SetEnabled ==
  /\ "disable" \in Edits
  /\ enabled' = ~enabled
  /\ UNCHANGED <<assigned, issued, used, base, seq, plan, rollout, proc, grants,
                 slave, live, charged, carried>>

\* A billing period ends: the user's counters restart, the baselines do not
ResetTraffic ==
  /\ "reset" \in Edits
  /\ used > 0
  /\ used' = 0
  /\ UNCHANGED <<assigned, issued, enabled, base, seq, plan, rollout, proc,
                 grants, slave, live, charged, carried>>

--------------------------------------------------------------------------------
(* meshSyncAccess *)

\* The loop starts, with the members listed now
Begin(p) ==
  /\ rollout = "none"
  /\ proc[p].todo = {} /\ proc[p].report = {}
  /\ proc' = [proc EXCEPT ![p].todo = Entry]
  /\ UNCHANGED <<master, grants, slave, live, carried>>

\* The "usage" exchange: what the slave answers is read under its own lock,
\* and waits for the master's
Ask(p, e) ==
  /\ e \in proc[p].todo /\ proc[p].report = {}
  /\ proc' = [proc EXCEPT ![p] =
       [todo |-> @.todo \ {e},
        report |-> {[entry |-> e, rev |-> slave[e].rev, gen |-> slave[e].gen,
                     bytes |-> slave[e].bytes]}]]
  /\ UNCHANGED <<master, grants, slave, live, carried>>

\* The exchange fails, or the process ends
NoAnswer(p, e) ==
  /\ e \in proc[p].todo /\ proc[p].report = {}
  /\ proc' = [proc EXCEPT ![p].todo = @ \ {e}]
  /\ UNCHANGED <<master, grants, slave, live, carried>>

\* mergeMeshUsage: the nodes a report is about, and what it adds for each
Reported(r) ==
  {n \in assigned : Home(n) = r.entry /\ r.gen[n] = issued[n]}
\* As if a report below the baseline were a counter that started again
AddedAfterRestart(r) ==
  [n \in Node |-> IF n \notin Reported(r) THEN 0
                  ELSE IF r.bytes[n] < Baseline(n) THEN r.bytes[n]
                  ELSE r.bytes[n] - Baseline(n)]
Added(r) ==
  [n \in Node |-> IF n \in Reported(r)
                  THEN Max2(r.bytes[n], Baseline(n)) - Baseline(n) ELSE 0]
\* As if an older report could lower a baseline
MergedBaseLatest(r) ==
  [base EXCEPT ![r.entry] =
     [n \in Node |-> IF n \in Reported(r)
                     THEN [base[r.entry][n] EXCEPT ![issued[n]] = r.bytes[n]]
                     ELSE base[r.entry][n]]]
MergedBase(r) ==
  [base EXCEPT ![r.entry] =
     [n \in Node |-> IF n \in Reported(r)
                     THEN [base[r.entry][n] EXCEPT ![issued[n]] = Max2(r.bytes[n], Baseline(n))]
                     ELSE base[r.entry][n]]]
MergedCharged(r) ==
  [charged EXCEPT ![r.entry] = [n \in Node |-> charged[r.entry][n] + Added(r)[n]]]
AddedInAll(r) == LET added == Added(r) IN MapThenSumSet(LAMBDA n : added[n], Node)

\* buildMeshAccess, when the merge has brought the user to usage
BuiltGrant(e, usage) ==
  [entry |-> e, seq |-> seq + 1, ttl |-> Lease, rev |-> plan,
   enabled |-> enabled /\ ~Exhausted(Quota > 0, usage, Quota),
   gen |-> [n \in Node |-> IF n \in assigned /\ Home(n) = e THEN issued[n] ELSE 0],
   share |-> IF Quota = 0 THEN 0
             ELSE Max2(1, (Max2(usage, Quota) - usage) \div Members)]

Merge(p) ==
  \E r \in proc[p].report :
    /\ rollout = "none" /\ r.rev = plan
    /\ seq < MaxSeq
    /\ base' = MergedBase(r)
    /\ charged' = MergedCharged(r)
    /\ used' = used + AddedInAll(r)
    /\ seq' = seq + 1
    /\ grants' = grants \cup {BuiltGrant(r.entry, used')}
    /\ proc' = [proc EXCEPT ![p].report = {}]
    /\ UNCHANGED <<assigned, issued, enabled, plan, rollout, slave, live, carried>>

\* The topology changed in between, the save failed, or the process ends
MergeRefused(p) ==
  /\ proc[p].report # {}
  /\ proc' = [proc EXCEPT ![p].report = {}]
  /\ UNCHANGED <<master, grants, slave, live, carried>>

--------------------------------------------------------------------------------
(* The slave *)

\* applyState on a saved state: the new configuration runs and the state is
\* saved as done; it runs and that save is missing; or it does not run
Applies(e, saved, done, result) ==
  /\ result \in {"done", "unconfirmed", "failed"}
  /\ slave' = [slave EXCEPT ![e] = IF result = "done" THEN done ELSE saved]
  /\ live' = IF result = "failed" THEN live
             ELSE [live EXCEPT ![e] = View(e, saved)]

\* The state installMeshAccess builds from a grant
Granted(a, g) ==
  LET total == IF HasUser(g.gen) THEN a.total ELSE 0
  IN  [a EXCEPT
         !.seq = g.seq, !.ttl = g.ttl, !.expired = FALSE, !.blocked = FALSE,
         !.enabled = g.enabled, !.gen = g.gen, !.total = total,
         !.bytes = [n \in Node |-> IF a.gen[n] # 0 /\ g.gen[n] # 0 THEN a.bytes[n] ELSE 0],
         !.limit = IF Quota > 0 /\ HasUser(g.gen) THEN g.share + total ELSE 0]

\* As if the sequence of a grant were not compared
AcceptableInAnyOrder(a, g) == a.phase = "" /\ g.rev = a.rev /\ g.ttl > 0

Acceptable(a, g) ==
  /\ a.phase = ""
  /\ g.rev = a.rev
  /\ g.ttl > 0
  /\ g.seq > a.seq

\* The "access" exchange reaches the slave, now or after its sender gave up
Install(g, result) ==
  LET e == g.entry
      next == Granted(slave[e], g)
      changed == View(e, slave[e]) # View(e, next) \/ slave[e].pending
  IN  /\ Acceptable(slave[e], g)
      /\ grants' = grants \ {g}
      /\ IF changed
         THEN Applies(e, [next EXCEPT !.pending = TRUE], [next EXCEPT !.pending = FALSE], result)
         ELSE slave' = [slave EXCEPT ![e] = next] /\ result = "done" /\ UNCHANGED live
      /\ UNCHANGED <<master, proc, carried>>

\* It is lost, refused, or fails before the slave saves anything
Lost(g) ==
  /\ grants' = grants \ {g}
  /\ UNCHANGED <<master, proc, slave, live, carried>>

\* As if only the quota were looked at
LeaseCycleQuotaOnly(e, result) ==
  LET a == slave[e]
      saved == [a EXCEPT !.pending = TRUE]
  IN  /\ a.seq # 0 /\ LeaseBlocked(a) # a.blocked
      /\ Applies(e, saved, [saved EXCEPT !.pending = FALSE, !.blocked = LeaseBlocked(a)], result)
      /\ UNCHANGED <<master, proc, grants, carried>>

LeaseCycle(e, result) ==
  LET a == slave[e]
      saved == [a EXCEPT !.pending = TRUE]
  IN  /\ a.seq # 0
      /\ LeaseExpired(a) # a.expired \/ LeaseBlocked(a) # a.blocked
      /\ Applies(e, saved, [saved EXCEPT !.pending = FALSE,
                              !.expired = LeaseExpired(a), !.blocked = LeaseBlocked(a)], result)
      /\ UNCHANGED <<master, proc, grants, carried>>

\* daemonCycleLocked retries what is pending; it can fail without a trace
RetryApply(e) ==
  /\ slave[e].pending
  /\ Applies(e, slave[e], [slave[e] EXCEPT !.pending = FALSE], "done")
  /\ UNCHANGED <<master, proc, grants, carried>>

\* mergeUserStats: bytes sing-box counted under the node's AuthUser
Measure(e, n) ==
  /\ live[e][n] # 0 /\ slave[e].gen[n] # 0
  /\ carried[e][n] < MaxBytes
  /\ slave' = [slave EXCEPT ![e].bytes[n] = @ + 1, ![e].total = @ + 1]
  /\ carried' = [carried EXCEPT ![e][n] = @ + 1]
  /\ UNCHANGED <<master, proc, grants, live>>

Passed(ttl) == IF ttl = 0 THEN 0 ELSE ttl - 1
Tick ==
  /\ (\E e \in Entry : slave[e].ttl > 0) \/ (\E g \in grants : g.ttl > 0)
  /\ slave' = [e \in Entry |-> [slave[e] EXCEPT !.ttl = Passed(@)]]
  /\ grants' = {[g EXCEPT !.ttl = Passed(@)] : g \in grants}
  /\ UNCHANGED <<master, proc, live, carried>>

--------------------------------------------------------------------------------
(* A new plan, as MeshRollout carries it out *)

StartRollout ==
  /\ "mesh apply" \in Edits
  /\ rollout = "none" /\ plan < MaxPlan
  /\ rollout' = "apply"
  /\ UNCHANGED <<assigned, issued, enabled, used, base, seq, plan, proc, grants,
                 slave, live, charged, carried>>

\* An exchange failed, or the coordinator died and "recover" follows
GiveUp ==
  /\ rollout = "apply"
  /\ rollout' = "rollback"
  /\ UNCHANGED <<assigned, issued, enabled, used, base, seq, plan, proc, grants,
                 slave, live, charged, carried>>

\* Requests to prepare and to commit may be executed late: the coordinator
\* has turned to the rollback and the slave has not heard of it
Undecided == rollout \in {"apply", "rollback"}

PrepareAt(e) ==
  /\ Undecided /\ slave[e].phase = ""
  /\ slave' = [slave EXCEPT ![e].phase = "prepared"]
  /\ UNCHANGED <<master, proc, grants, live, carried>>

\* "committing" is saved, the plan is applied, "committed" is saved
CommitAt(e) ==
  /\ Undecided /\ slave[e].phase \in {"prepared", "committing"}
  /\ LET next == [slave[e] EXCEPT !.rev = plan + 1, !.phase = "committed"]
     IN  Applies(e, next, next, "done")
  /\ UNCHANGED <<master, proc, grants, carried>>

\* What runs when meshApplyCandidate on candidate has stopped somewhere, or
\* the save after it is missing: it failed at once, it was undone, the undo
\* failed, or it succeeded.  The state saved before stays.
LeftRunning(e, candidate, before) ==
  \E running \in {live[e], View(e, candidate), View(e, before)} :
    live' = [live EXCEPT ![e] = running]

\* The commit stops after "committing" was saved: no flag asks the daemon to
\* apply again, the transaction stays open for the recovery
CommitStops(e) ==
  /\ Undecided /\ slave[e].phase \in {"prepared", "committing"}
  /\ slave' = [slave EXCEPT ![e].phase = "committing"]
  /\ LeftRunning(e, [slave[e] EXCEPT !.rev = plan + 1], slave[e])
  /\ UNCHANGED <<master, proc, grants, carried>>

\* The previous plan is applied and the end of the transaction is saved
Undoes(e) ==
  LET next == [slave[e] EXCEPT !.rev = plan, !.phase = ""]
  IN  Applies(e, next, next, "done")

\* As if a plan that was not saved as active needed no rollback
RollBackCommittedOnly(e) ==
  /\ rollout = "rollback" /\ slave[e].phase # ""
  /\ IF slave[e].phase = "committed" THEN Undoes(e)
     ELSE slave' = [slave EXCEPT ![e].phase = ""] /\ UNCHANGED live
  /\ UNCHANGED <<master, proc, grants, carried>>

RollBackAt(e) ==
  /\ rollout = "rollback" /\ slave[e].phase # ""
  /\ IF slave[e].phase \in {"committing", "committed"} THEN Undoes(e)
     ELSE slave' = [slave EXCEPT ![e].phase = ""] /\ UNCHANGED live
  /\ UNCHANGED <<master, proc, grants, carried>>

\* The rollback stops before its save, with the previous plan running or not
RollBackStops(e) ==
  /\ rollout = "rollback" /\ slave[e].phase \in {"committing", "committed"}
  /\ LeftRunning(e, [slave[e] EXCEPT !.rev = plan], slave[e])
  /\ UNCHANGED <<master, proc, grants, slave, carried>>

\* Every slave has answered its commit: the master commits and the decision
\* turns
Decide ==
  /\ rollout = "apply" /\ \A e \in Entry : slave[e].phase = "committed"
  /\ plan' = plan + 1
  /\ rollout' = "finalize"
  /\ UNCHANGED <<assigned, issued, enabled, used, base, seq, proc, grants, slave,
                 live, charged, carried>>

FinalizeAt(e) ==
  /\ rollout = "finalize" /\ slave[e].phase = "committed"
  /\ slave' = [slave EXCEPT ![e].phase = ""]
  /\ UNCHANGED <<master, proc, grants, live, carried>>

\* Every slave has carried out the decision
EndRollout ==
  /\ rollout \in {"rollback", "finalize"}
  /\ \A e \in Entry : slave[e].phase = ""
  /\ rollout' = "none"
  /\ UNCHANGED <<assigned, issued, enabled, used, base, seq, plan, proc, grants,
                 slave, live, charged, carried>>

--------------------------------------------------------------------------------

Edit == \/ SetEnabled \/ ResetTraffic
        \/ \E n \in Node : RotateLink(n) \/ Rotate(n) \/ Unassign(n) \/ Assign(n)

Synchronise(p) ==
  \/ Begin(p) \/ Merge(p) \/ MergeRefused(p)
  \/ \E e \in Entry : Ask(p, e) \/ NoAnswer(p, e)

Result == {"done", "unconfirmed", "failed"}

SlaveStep(e) ==
  \/ RetryApply(e)
  \/ \E result \in Result : LeaseCycle(e, result)
  \/ \E n \in Node : Measure(e, n)

Delivery == \E g \in grants : Lost(g) \/ \E result \in Result : Install(g, result)

RolloutAt(e) ==
  \/ PrepareAt(e) \/ CommitAt(e) \/ CommitStops(e)
  \/ RollBackAt(e) \/ RollBackStops(e) \/ FinalizeAt(e)

RolloutStep ==
  \/ StartRollout \/ GiveUp \/ Decide \/ EndRollout
  \/ \E e \in Entry : RolloutAt(e)

Next ==
  \/ Edit \/ Delivery \/ RolloutStep \/ Tick
  \/ \E p \in Sync : Synchronise(p)
  \/ \E e \in Entry : SlaveStep(e)

\* A slave's daemon keeps running and an apply does not fail for ever; nothing
\* is assumed of the master or of the network.
Fairness ==
  /\ WF_vars(Tick)
  /\ \A e \in Entry : WF_vars(LeaseCycle(e, "done")) /\ WF_vars(RetryApply(e))

Spec == Init /\ [][Next]_vars
FairSpec == Spec /\ Fairness
================================================================================
