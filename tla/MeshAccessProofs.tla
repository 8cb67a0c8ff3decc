--------------------------- MODULE MeshAccessProofs ---------------------------
(***************************************************************************)
(* Proofs about MeshAccess for any entries, nodes, synchronising           *)
(* processes, plans, quotas and leases.                                    *)
(***************************************************************************)
EXTENDS MeshAccessProps, FiniteSetTheorems, WellFoundedInduction, TLAPS

--------------------------------------------------------------------------------
(* No byte is charged twice *)

\* Baselines follow a node's identity: no operation gives it a new UUID and
\* leaves the baseline behind, which "rotate" and "reassign" do, and which
\* "rotate-link" does at an entry the node has left and will come back to.
BaselinesFollow ==
  /\ "rotate" \notin Edits /\ "reassign" \notin Edits
  /\ "rotate-link" \notin Edits \/ "mesh apply" \notin Edits

LedgerTypes ==
  /\ issued \in [Node -> 1 .. MaxGen]
  /\ base \in [Entry -> [Node -> [Gen -> Nat]]]
  /\ charged \in [Entry -> [Node -> Nat]]
  /\ carried \in [Entry -> [Node -> Nat]]
  /\ plan \in Plan /\ (rollout \in {"apply", "rollback"} => plan < MaxPlan)

\* What a slave holds and what is reported of it was measured there.
SlavesMeasure ==
  /\ DOMAIN slave = Entry
  /\ \A e \in Entry :
       /\ {"bytes", "gen", "total"} \subseteq DOMAIN slave[e]
       /\ slave[e].bytes \in [Node -> Nat]
       /\ \A n \in Node : slave[e].bytes[n] <= carried[e][n]
ReportsMeasured ==
  /\ DOMAIN proc = Sync
  /\ \A p \in Sync :
       /\ {"todo", "report"} \subseteq DOMAIN proc[p]
       /\ proc[p].todo \subseteq Entry
       /\ \A r \in proc[p].report :
            /\ r.entry \in Entry
            /\ r.bytes \in [Node -> Nat]
            /\ \A n \in Node : r.bytes[n] <= carried[r.entry][n]

\* The baseline of a node's identity is what was charged; identities to come
\* have none.
BaselinesCharged ==
  \A e \in Entry, n \in Node :
    /\ base[e][n][issued[n]] = charged[e][n]
    /\ charged[e][n] <= carried[e][n]
    /\ \A g \in Gen : g > issued[n] => base[e][n][g] = 0

\* Without new plans a node is charged only at the entry it started at.
ChargedAtHome ==
  "mesh apply" \notin Edits =>
    /\ rollout = "none"
    /\ \A e \in Entry, n \in Node : e # Home(n) => charged[e][n] = 0

LedgerInv ==
  /\ LedgerTypes /\ SlavesMeasure /\ ReportsMeasured
  /\ BaselinesCharged /\ ChargedAtHome

LEMMA HomeIsEntry ==
  ASSUME plan \in Plan, NEW n \in Node
  PROVE  Home(n) \in Entry
BY RouteAssumption DEF Home, Plan

LEMMA NewSlaveHolds ==
  /\ DOMAIN NewSlave = {"rev", "phase", "seq", "ttl", "expired", "blocked", "limit", "enabled",
                        "gen", "bytes", "total", "pending"}
  /\ NewSlave.bytes = Nobody /\ NewSlave.gen = Nobody /\ NewSlave.seq = 0
BY DEF NewSlave

LEMMA LedgerInit == Init => LedgerInv
<1> SUFFICES ASSUME Init PROVE LedgerInv
  OBVIOUS
<1> USE GenAssumption, PlanAssumption
<1>1. LedgerTypes
  BY DEF Init, LedgerTypes, Gen, Plan, Nobody
<1>2. SlavesMeasure
  BY NewSlaveHolds DEF Init, SlavesMeasure, Nobody
<1>3. ReportsMeasured
  BY DEF Init, ReportsMeasured
<1>4. BaselinesCharged /\ ChargedAtHome
  <2>1. 1 \in Gen
    BY DEF Gen
  <2>2. \A e \in Entry, n \in Node :
          /\ base[e][n] = [g \in Gen |-> 0] /\ issued[n] = 1
          /\ charged[e][n] = 0 /\ carried[e][n] = 0
    BY DEF Init, Nobody
  <2>3. BaselinesCharged
    BY <2>1, <2>2 DEF BaselinesCharged
  <2>4. ChargedAtHome
    BY <2>2 DEF Init, ChargedAtHome
  <2> QED BY <2>3, <2>4
<1> QED BY <1>1, <1>2, <1>3, <1>4 DEF LedgerInv

\* A step that leaves the accounts, the reports and the measurements alone.
LEMMA LedgerIdle ==
  ASSUME LedgerInv,
         UNCHANGED <<issued, base, charged, carried, plan, rollout, proc>>,
         DOMAIN slave' = Entry,
         \A e \in Entry :
           /\ DOMAIN slave'[e] = DOMAIN slave[e]
           /\ slave'[e].bytes \in [Node -> Nat]
           /\ \A n \in Node : slave'[e].bytes[n] <= slave[e].bytes[n]
  PROVE  LedgerInv'
<1>1. SlavesMeasure'
  BY DEF LedgerInv, SlavesMeasure, LedgerTypes
<1>2. LedgerTypes' /\ ReportsMeasured' /\ BaselinesCharged' /\ ChargedAtHome'
  <2>1. /\ issued' = issued /\ base' = base /\ charged' = charged /\ carried' = carried
        /\ plan' = plan /\ rollout' = rollout /\ proc' = proc
    OBVIOUS
  <2>2. LedgerTypes' /\ ReportsMeasured'
    BY <2>1 DEF LedgerInv, LedgerTypes, ReportsMeasured
  <2>3. BaselinesCharged'
    BY <2>1 DEF LedgerInv, BaselinesCharged
  <2>4. ChargedAtHome'
    BY <2>1 DEF LedgerInv, ChargedAtHome, Home
  <2> QED BY <2>2, <2>3, <2>4
<1> QED BY <1>1, <1>2 DEF LedgerInv

LEMMA LedgerRotateLink ==
  ASSUME LedgerInv, BaselinesFollow, NEW n \in Node, RotateLink(n)
  PROVE  LedgerInv'
<1> USE DEF LedgerInv
<1> DEFINE h == Home(n)
           i == issued[n]
<1>0. /\ i \in 1 .. MaxGen /\ i < MaxGen /\ i + 1 \in 1 .. MaxGen
      /\ i \in Gen /\ i + 1 \in Gen /\ h \in Entry /\ i # i + 1
  BY GenAssumption, HomeIsEntry DEF RotateLink, LedgerTypes, Gen
<1>1. issued' = [issued EXCEPT ![n] = i + 1] /\ issued' \in [Node -> 1 .. MaxGen]
  BY <1>0 DEF RotateLink, LedgerTypes
<1>2. base' = [base EXCEPT ![h][n] = [base[h][n] EXCEPT ![i + 1] = base[h][n][i], ![i] = 0]]
  BY DEF RotateLink, MovedBaseline, Baseline, LedgerTypes
<1>3. base' \in [Entry -> [Node -> [Gen -> Nat]]]
  <2>1. [base[h][n] EXCEPT ![i + 1] = base[h][n][i], ![i] = 0] \in [Gen -> Nat]
    <3>1. base[h][n] \in [Gen -> Nat]
      BY <1>0 DEF LedgerTypes
    <3>2. base[h][n][i] \in Nat /\ 0 \in Nat
      BY <1>0, <3>1
    <3> HIDE DEF h, i
    <3> QED BY <3>1, <3>2
  <2>2. [base[h] EXCEPT ![n] = [base[h][n] EXCEPT ![i + 1] = base[h][n][i], ![i] = 0]]
          \in [Node -> [Gen -> Nat]]
    BY <1>0, <2>1 DEF LedgerTypes
  <2> QED BY <1>0, <1>2, <2>2 DEF LedgerTypes
<1>4. /\ \A e \in Entry, m \in Node : (e # h \/ m # n) => base'[e][m] = base[e][m]
      /\ base'[h][n] = [base[h][n] EXCEPT ![i + 1] = base[h][n][i], ![i] = 0]
  BY <1>0, <1>2 DEF LedgerTypes
<1>5. UNCHANGED <<charged, carried, plan, rollout, proc, slave>>
  BY DEF RotateLink
<1>6. LedgerTypes' /\ SlavesMeasure' /\ ReportsMeasured' /\ ChargedAtHome'
  BY <1>1, <1>3, <1>5 DEF LedgerTypes, SlavesMeasure, ReportsMeasured, ChargedAtHome, Home
<1>7. BaselinesCharged'
  <2> SUFFICES ASSUME NEW e \in Entry, NEW m \in Node
               PROVE  /\ base'[e][m][issued'[m]] = charged[e][m]
                      /\ charged[e][m] <= carried[e][m]
                      /\ \A g \in Gen : g > issued'[m] => base'[e][m][g] = 0
    BY <1>5 DEF BaselinesCharged
  <2>1. CASE m # n
    BY <1>1, <1>4, <2>1 DEF BaselinesCharged, LedgerTypes
  <2>2. CASE m = n /\ e # h
    <3>1. charged[e][n] = 0
      BY <2>2 DEF RotateLink, BaselinesFollow, ChargedAtHome
    <3>2. issued'[n] = i + 1 /\ base'[e][n] = base[e][n]
      BY <1>1, <1>4, <2>2 DEF LedgerTypes
    <3>3. \A g \in Gen : g > i => base[e][n][g] = 0
      BY DEF BaselinesCharged
    <3>4. \A g \in Gen : g > i + 1 => g > i
      BY <1>0 DEF Gen
    <3>5. i + 1 > i
      BY <1>0
    <3> QED BY <1>0, <2>2, <3>1, <3>2, <3>3, <3>4, <3>5 DEF BaselinesCharged
  <2>3. CASE m = n /\ e = h
    <3>1. issued'[n] = i + 1
      BY <1>1 DEF LedgerTypes
    <3>2. base'[h][n][i + 1] = base[h][n][i]
      BY <1>0, <1>4 DEF LedgerTypes
    <3>3. \A g \in Gen : g > i + 1 => g > i /\ g # i /\ g # i + 1
      BY <1>0 DEF Gen
    <3>4. \A g \in Gen : g > i + 1 => base'[h][n][g] = base[h][n][g]
      BY <1>0, <1>4, <3>3 DEF LedgerTypes
    <3> QED BY <1>0, <2>3, <3>1, <3>2, <3>3, <3>4 DEF BaselinesCharged
  <2> QED BY <2>1, <2>2, <2>3
<1> QED BY <1>6, <1>7

LEMMA LedgerMerge ==
  ASSUME LedgerInv, NEW p \in Sync, Merge(p)
  PROVE  LedgerInv'
<1> USE DEF LedgerInv
<1> PICK r \in proc[p].report :
      /\ base' = MergedBase(r)
      /\ charged' = MergedCharged(r)
      /\ proc' = [proc EXCEPT ![p].report = {}]
  BY DEF Merge
<1>0. UNCHANGED <<assigned, issued, plan, rollout, slave, carried>>
  BY DEF Merge
<1>1. /\ r.entry \in Entry /\ r.bytes \in [Node -> Nat]
      /\ \A n \in Node : r.bytes[n] <= carried[r.entry][n]
  BY DEF ReportsMeasured
<1>2. \A n \in Node : issued[n] \in Gen
  BY DEF LedgerTypes, Gen
<1>3. \A n \in Reported(r) : Home(n) = r.entry /\ Baseline(n) = base[r.entry][n][issued[n]]
  BY DEF Reported, Baseline
<1> DEFINE top(n) == Max2(r.bytes[n], base[r.entry][n][issued[n]])
<1>5. \A n \in Node : /\ top(n) \in Nat
                      /\ top(n) <= carried[r.entry][n]
                      /\ base[r.entry][n][issued[n]] <= top(n)
  BY <1>1, <1>2 DEF Max2, LedgerTypes, BaselinesCharged
<1>6. \A e \in Entry, n \in Node :
        base'[e][n] = IF e = r.entry /\ n \in Reported(r)
                      THEN [base[e][n] EXCEPT ![issued[n]] = top(n)] ELSE base[e][n]
  <2>1. base' = [base EXCEPT ![r.entry] =
                   [n \in Node |-> IF n \in Reported(r)
                      THEN [base[r.entry][n] EXCEPT ![issued[n]] = top(n)]
                      ELSE base[r.entry][n]]]
    BY <1>3 DEF MergedBase
  <2> DEFINE row == [n \in Node |-> IF n \in Reported(r)
                      THEN [base[r.entry][n] EXCEPT ![issued[n]] = top(n)]
                      ELSE base[r.entry][n]]
  <2>2. base' = [base EXCEPT ![r.entry] = row]
    BY <2>1
  <2>3. \A n \in Node : row[n] = IF n \in Reported(r)
                      THEN [base[r.entry][n] EXCEPT ![issued[n]] = top(n)]
                      ELSE base[r.entry][n]
    OBVIOUS
  <2> HIDE DEF row, top
  <2>4. \A e \in Entry : base'[e] = IF e = r.entry THEN row ELSE base[e]
    BY <1>1, <2>2 DEF LedgerTypes
  <2> QED BY <2>3, <2>4
<1>7. \A n \in Node : n \in Reported(r) =>
        charged[r.entry][n] + Added(r)[n] = top(n)
  BY <1>1, <1>2, <1>3, <1>5 DEF Added, LedgerTypes, BaselinesCharged
<1>8. \A n \in Node : n \notin Reported(r) => charged[r.entry][n] + Added(r)[n] = charged[r.entry][n]
  BY <1>1 DEF Added, LedgerTypes
<1>9. \A e \in Entry, n \in Node :
        charged'[e][n] = IF e = r.entry /\ n \in Reported(r) THEN top(n) ELSE charged[e][n]
  BY <1>1, <1>7, <1>8 DEF MergedCharged, LedgerTypes
<1>10. LedgerTypes'
  <2>1. base' \in [Entry -> [Node -> [Gen -> Nat]]]
    <3>1. \A e \in Entry, n \in Node : base'[e][n] \in [Gen -> Nat]
      <4> SUFFICES ASSUME NEW e \in Entry, NEW n \in Node PROVE base'[e][n] \in [Gen -> Nat]
        OBVIOUS
      <4>1. base[e][n] \in [Gen -> Nat]
        BY DEF LedgerTypes
      <4> HIDE DEF top
      <4>2. [base[e][n] EXCEPT ![issued[n]] = top(n)] \in [Gen -> Nat]
        BY <1>2, <1>5, <4>1
      <4> QED BY <1>6, <4>1, <4>2
    <3>2. base' = [base EXCEPT ![r.entry] = base'[r.entry]] /\ DOMAIN base'[r.entry] = Node
          /\ base'[r.entry] = [n \in Node |-> base'[r.entry][n]]
      BY <1>1 DEF MergedBase, LedgerTypes
    <3>3. base'[r.entry] \in [Node -> [Gen -> Nat]]
      BY <1>1, <3>1, <3>2
    <3> QED BY <1>1, <3>2, <3>3 DEF LedgerTypes
  <2>2. charged' \in [Entry -> [Node -> Nat]]
    <3>1. \A n \in Node : charged'[r.entry][n] \in Nat
      BY <1>1, <1>5, <1>9 DEF LedgerTypes
    <3>2. charged' = [charged EXCEPT ![r.entry] = charged'[r.entry]]
          /\ charged'[r.entry] = [n \in Node |-> charged'[r.entry][n]]
      BY <1>1 DEF MergedCharged, LedgerTypes
    <3>3. charged'[r.entry] \in [Node -> Nat]
      BY <3>1, <3>2
    <3> QED BY <1>1, <3>2, <3>3 DEF LedgerTypes
  <2> QED BY <1>0, <2>1, <2>2 DEF LedgerTypes
<1>11. SlavesMeasure' /\ ReportsMeasured'
  BY <1>0 DEF SlavesMeasure, ReportsMeasured
<1>12. BaselinesCharged'
  <2> SUFFICES ASSUME NEW e \in Entry, NEW n \in Node
               PROVE  /\ base'[e][n][issued[n]] = charged'[e][n]
                      /\ charged'[e][n] <= carried[e][n]
                      /\ \A g \in Gen : g > issued[n] => base'[e][n][g] = 0
    BY <1>0 DEF BaselinesCharged
  <2>1. CASE e = r.entry /\ n \in Reported(r)
    <3>1. base'[e][n] = [base[e][n] EXCEPT ![issued[n]] = top(n)] /\ charged'[e][n] = top(n)
      BY <1>6, <1>9, <2>1
    <3>2. \A g \in Gen : g > issued[n] => g # issued[n]
      BY <1>2 DEF Gen
    <3> QED BY <1>2, <1>5, <2>1, <3>1, <3>2 DEF LedgerTypes, BaselinesCharged
  <2>2. CASE ~(e = r.entry /\ n \in Reported(r))
    <3>1. base'[e][n] = base[e][n] /\ charged'[e][n] = charged[e][n]
      BY <1>6, <1>9, <2>2
    <3> QED BY <3>1 DEF BaselinesCharged
  <2> QED BY <2>1, <2>2
<1>13. ChargedAtHome'
  <2>1. \A n \in Node : Home(n)' = Home(n)
    BY <1>0 DEF Home
  <2>2. \A e \in Entry, n \in Node : e # Home(n) => charged'[e][n] = charged[e][n]
    BY <1>3, <1>9
  <2> QED BY <1>0, <2>1, <2>2 DEF ChargedAtHome
<1> QED BY <1>10, <1>11, <1>12, <1>13

LEMMA LedgerMeasure ==
  ASSUME LedgerInv, NEW e \in Entry, NEW n \in Node, Measure(e, n)
  PROVE  LedgerInv'
<1> USE DEF LedgerInv
<1>0. UNCHANGED <<issued, base, charged, plan, rollout, proc>>
  BY DEF Measure, master
<1>1. /\ carried' = [carried EXCEPT ![e][n] = @ + 1]
      /\ carried' \in [Entry -> [Node -> Nat]]
      /\ carried'[e][n] = carried[e][n] + 1
      /\ \A f \in Entry, m \in Node : carried[f][m] <= carried'[f][m]
  BY DEF Measure, LedgerTypes
<1>2. LedgerTypes'
  BY <1>0, <1>1 DEF LedgerTypes
<1>3. SlavesMeasure'
  <2>1. DOMAIN slave' = Entry
    BY DEF Measure, SlavesMeasure
  <2>2. \A f \in Entry : f # e => slave'[f] = slave[f]
    BY DEF Measure, SlavesMeasure
  <2>3. slave'[e] = [slave[e] EXCEPT !.bytes = [slave[e].bytes EXCEPT ![n] = slave[e].bytes[n] + 1],
                                     !.total = slave[e].total + 1]
    BY DEF Measure, SlavesMeasure
  <2>4. slave'[e].bytes = [slave[e].bytes EXCEPT ![n] = slave[e].bytes[n] + 1]
        /\ {"bytes", "gen", "total"} \subseteq DOMAIN slave'[e]
    BY <2>3 DEF SlavesMeasure
  <2>5. /\ slave'[e].bytes \in [Node -> Nat]
        /\ \A m \in Node : slave'[e].bytes[m] <= carried'[e][m]
    BY <1>1, <2>4 DEF SlavesMeasure, LedgerTypes
  <2>6. \A f \in Entry, m \in Node : f # e => slave'[f].bytes[m] <= carried'[f][m]
    BY <1>1, <2>2 DEF SlavesMeasure, LedgerTypes
  <2> QED BY <2>1, <2>2, <2>4, <2>5, <2>6 DEF SlavesMeasure
<1>4. ReportsMeasured'
  BY <1>0, <1>1 DEF ReportsMeasured, LedgerTypes
<1>5. BaselinesCharged'
  BY <1>0, <1>1 DEF BaselinesCharged, LedgerTypes
<1>6. ChargedAtHome'
  BY <1>0 DEF ChargedAtHome, Home
<1> QED BY <1>2, <1>3, <1>4, <1>5, <1>6

\* A report is what the slave holds when it answers.
LEMMA LedgerReport ==
  ASSUME LedgerInv, NEW p \in Sync, NEW e \in Entry,
         Ask(p, e) \/ NoAnswer(p, e)
  PROVE  LedgerInv'
<1> USE DEF LedgerInv
<1>0. UNCHANGED <<issued, base, charged, carried, plan, rollout, slave>>
  BY DEF Ask, NoAnswer, master
<1>1. /\ DOMAIN proc' = Sync
      /\ \A q \in Sync : q # p => proc'[q] = proc[q]
      /\ {"todo", "report"} \subseteq DOMAIN proc'[p]
      /\ proc'[p].todo \subseteq Entry
      /\ \/ proc'[p].report \subseteq proc[p].report
         \/ proc'[p].report = {[entry |-> e, rev |-> slave[e].rev, gen |-> slave[e].gen,
                                bytes |-> slave[e].bytes]}
  BY DEF Ask, NoAnswer, ReportsMeasured
<1>2. ReportsMeasured'
  BY <1>0, <1>1 DEF ReportsMeasured, SlavesMeasure
<1>3. LedgerTypes' /\ SlavesMeasure' /\ BaselinesCharged'
  BY <1>0 DEF LedgerTypes, SlavesMeasure, BaselinesCharged
<1>4. ChargedAtHome'
  BY <1>0 DEF ChargedAtHome, Home
<1> QED BY <1>2, <1>3, <1>4

\* A step of a rollout at a slave changes the plan and the phase there, and
\* what runs to what the same grant lets in under some plan.
LEMMA RolloutAtSlave ==
  ASSUME DOMAIN slave = Entry, NEW e \in Entry, "gen" \in DOMAIN slave[e], RolloutAt(e)
  PROVE  /\ UNCHANGED <<master, proc, grants, carried>>
         /\ DOMAIN slave' = Entry
         /\ \A f \in Entry : f # e => slave'[f] = slave[f]
         /\ DOMAIN slave'[e] = DOMAIN slave[e]
         /\ \A i \in DOMAIN slave[e] : i \notin {"rev", "phase"} => slave'[e][i] = slave[e][i]
         /\ \/ live' = live \/ live' = [live EXCEPT ![e] = live[e]]
            \/ \E a : a.gen = slave[e].gen /\ live' = [live EXCEPT ![e] = View(e, a)]
<1>1. ASSUME NEW p, NEW r
      PROVE  [slave[e] EXCEPT !.rev = r].gen = slave[e].gen
             /\ [slave[e] EXCEPT !.rev = r, !.phase = p].gen = slave[e].gen
  OBVIOUS
<1>2. CASE PrepareAt(e)
  BY <1>2 DEF PrepareAt
<1>3. CASE CommitAt(e)
  <2> DEFINE next == [slave[e] EXCEPT !.rev = plan + 1, !.phase = "committed"]
  <2>1. /\ slave' = [slave EXCEPT ![e] = next] /\ live' = [live EXCEPT ![e] = View(e, next)]
        /\ UNCHANGED <<master, proc, grants, carried>>
    BY <1>3 DEF CommitAt, Applies
  <2>2. next.gen = slave[e].gen
    BY <1>1
  <2>3. /\ DOMAIN next = DOMAIN slave[e]
        /\ \A i \in DOMAIN slave[e] : i \notin {"rev", "phase"} => next[i] = slave[e][i]
    OBVIOUS
  <2> HIDE DEF next
  <2> QED BY <2>1, <2>2, <2>3
<1>4. CASE CommitStops(e)
  <2> DEFINE next == [slave[e] EXCEPT !.rev = plan + 1]
             here == slave[e]
  <2>1. /\ slave' = [slave EXCEPT ![e] = [slave[e] EXCEPT !.phase = "committing"]]
        /\ UNCHANGED <<master, proc, grants, carried>>
    BY <1>4 DEF CommitStops
  <2>2. \E running \in {live[e], View(e, next), View(e, here)} :
          live' = [live EXCEPT ![e] = running]
    BY <1>4 DEF CommitStops, LeftRunning
  <2>3. next.gen = here.gen
    BY <1>1
  <2> HIDE DEF next
  <2>4. \/ live' = [live EXCEPT ![e] = live[e]]
        \/ \E a : a.gen = slave[e].gen /\ live' = [live EXCEPT ![e] = View(e, a)]
    BY <2>2, <2>3
  <2> QED BY <2>1, <2>4
<1>5. CASE RollBackAt(e)
  <2> DEFINE next == [slave[e] EXCEPT !.rev = plan, !.phase = ""]
  <2>1. /\ \/ slave' = [slave EXCEPT ![e] = [slave[e] EXCEPT !.phase = ""]] /\ live' = live
           \/ slave' = [slave EXCEPT ![e] = next] /\ live' = [live EXCEPT ![e] = View(e, next)]
        /\ UNCHANGED <<master, proc, grants, carried>>
    BY <1>5 DEF RollBackAt, Undoes, Applies
  <2>2. next.gen = slave[e].gen
    BY <1>1
  <2>3. /\ DOMAIN next = DOMAIN slave[e]
        /\ \A i \in DOMAIN slave[e] : i \notin {"rev", "phase"} => next[i] = slave[e][i]
    OBVIOUS
  <2> HIDE DEF next
  <2> QED BY <2>1, <2>2, <2>3
<1>6. CASE RollBackStops(e)
  <2> DEFINE next == [slave[e] EXCEPT !.rev = plan]
             here == slave[e]
  <2>1. UNCHANGED <<slave, master, proc, grants, carried>>
    BY <1>6 DEF RollBackStops
  <2>2. \E running \in {live[e], View(e, next), View(e, here)} :
          live' = [live EXCEPT ![e] = running]
    BY <1>6 DEF RollBackStops, LeftRunning
  <2>3. next.gen = here.gen
    BY <1>1
  <2> HIDE DEF next
  <2>4. \/ live' = [live EXCEPT ![e] = live[e]]
        \/ \E a : a.gen = slave[e].gen /\ live' = [live EXCEPT ![e] = View(e, a)]
    BY <2>2, <2>3
  <2> QED BY <2>1, <2>4
<1>7. CASE FinalizeAt(e)
  BY <1>7 DEF FinalizeAt
<1> QED BY <1>2, <1>3, <1>4, <1>5, <1>6, <1>7 DEF RolloutAt

\* Grants, lease cycles, retries and the steps of a rollout at a slave leave
\* it with no more than it had measured.
LEMMA LedgerSlave ==
  ASSUME LedgerInv, NEW e \in Entry,
         \/ RetryApply(e) \/ RolloutAt(e)
         \/ \E result \in Result : LeaseCycle(e, result)
  PROVE  LedgerInv'
<1>0. DOMAIN slave = Entry /\ {"bytes", "gen", "total"} \subseteq DOMAIN slave[e]
  BY DEF LedgerInv, SlavesMeasure
<1>1. UNCHANGED <<issued, base, charged, carried, plan, rollout, proc>>
  BY <1>0, RolloutAtSlave DEF RetryApply, LeaseCycle, master
<1>2. /\ DOMAIN slave' = Entry
      /\ \A f \in Entry : f # e => slave'[f] = slave[f]
      /\ DOMAIN slave'[e] = DOMAIN slave[e]
      /\ slave'[e].bytes = slave[e].bytes
  <2>1. CASE RetryApply(e)
    BY <1>0, <2>1 DEF RetryApply, Applies
  <2>2. CASE RolloutAt(e)
    BY <1>0, <2>2, RolloutAtSlave
  <2>3. CASE \E result \in Result : LeaseCycle(e, result)
    BY <1>0, <2>3 DEF LeaseCycle, Applies
  <2> QED BY <2>1, <2>2, <2>3
<1> QED BY <1>1, <1>2, LedgerIdle DEF LedgerInv, SlavesMeasure

LEMMA GrantedBytes ==
  ASSUME NEW a, NEW g, {"bytes", "gen", "total"} \subseteq DOMAIN a, a.bytes \in [Node -> Nat]
  PROVE  /\ DOMAIN Granted(a, g) = DOMAIN a
         /\ Granted(a, g).bytes =
              [n \in Node |-> IF a.gen[n] # 0 /\ g.gen[n] # 0 THEN a.bytes[n] ELSE 0]
         /\ Granted(a, g).gen = g.gen
BY DEF Granted

LEMMA LedgerInstall ==
  ASSUME LedgerInv, NEW g \in grants, g.entry \in Entry,
         NEW result \in Result, Install(g, result)
  PROVE  LedgerInv'
<1> DEFINE e == g.entry
           next == Granted(slave[e], g)
<1>0. UNCHANGED <<issued, base, charged, carried, plan, rollout, proc>>
  BY DEF Install, master
<1>1. /\ DOMAIN next = DOMAIN slave[e]
      /\ next.bytes \in [Node -> Nat]
      /\ \A n \in Node : next.bytes[n] <= slave[e].bytes[n]
  <2>1. {"bytes", "gen", "total"} \subseteq DOMAIN slave[e] /\ slave[e].bytes \in [Node -> Nat]
    BY DEF LedgerInv, SlavesMeasure
  <2>2. /\ DOMAIN next = DOMAIN slave[e]
        /\ next.bytes = [n \in Node |-> IF slave[e].gen[n] # 0 /\ g.gen[n] # 0
                                        THEN slave[e].bytes[n] ELSE 0]
    BY <2>1, GrantedBytes
  <2> HIDE DEF next, e
  <2> QED BY <2>1, <2>2
<1> HIDE DEF next
<1>2. \E b \in BOOLEAN :
        slave' = [slave EXCEPT ![e] = next] \/ slave' = [slave EXCEPT ![e] = [next EXCEPT !.pending = b]]
  BY DEF Install, Applies, next
<1>3. /\ DOMAIN slave' = Entry
      /\ \A f \in Entry : f # e => slave'[f] = slave[f]
      /\ DOMAIN slave'[e] = DOMAIN slave[e]
      /\ slave'[e].bytes = next.bytes
  BY <1>1, <1>2 DEF LedgerInv, SlavesMeasure
<1> QED BY <1>0, <1>1, <1>3, LedgerIdle DEF LedgerInv, SlavesMeasure

\* Every grant is for an entry.
Addressed == \A g \in grants : {"entry", "ttl"} \subseteq DOMAIN g /\ g.entry \in Entry

LEMMA AddressedStep ==
  ASSUME LedgerInv, Addressed, [Next]_vars
  PROVE  Addressed'
<1>1. CASE \E p \in Sync : Merge(p)
  <2> PICK p \in Sync : Merge(p)
    BY <1>1
  <2> PICK r \in proc[p].report : grants' = grants \cup {BuiltGrant(r.entry, used')}
    BY DEF Merge
  <2>1. r.entry \in Entry
    BY DEF LedgerInv, ReportsMeasured
  <2> QED BY <2>1 DEF Addressed, BuiltGrant
<1>2. CASE Tick
  BY <1>2 DEF Tick, Addressed
<1>3. CASE grants' \subseteq grants
  BY <1>3 DEF Addressed
<1>4. CASE UNCHANGED vars
  BY <1>3, <1>4 DEF vars
<1>5. CASE Edit
  BY <1>3, <1>5 DEF Edit, SetEnabled, ResetTraffic, RotateLink, Rotate, Unassign, Assign
<1>6. CASE Delivery
  BY <1>3, <1>6 DEF Delivery, Lost, Install
<1>7. CASE RolloutStep
  <2>1. CASE \E e \in Entry : RolloutAt(e)
    BY <1>3, <2>1, RolloutAtSlave DEF LedgerInv, SlavesMeasure
  <2> QED BY <1>3, <1>7, <2>1 DEF RolloutStep, StartRollout, GiveUp, Decide, EndRollout
<1>8. CASE \E p \in Sync : Synchronise(p)
  BY <1>1, <1>3, <1>8 DEF Synchronise, Begin, MergeRefused, Ask, NoAnswer
<1>9. CASE \E e \in Entry : SlaveStep(e)
  BY <1>3, <1>9 DEF SlaveStep, RetryApply, LeaseCycle, Measure
<1> QED BY <1>2, <1>4, <1>5, <1>6, <1>7, <1>8, <1>9 DEF Next

LEMMA LedgerStep ==
  ASSUME LedgerInv, Addressed, BaselinesFollow, [Next]_vars
  PROVE  LedgerInv'
<1> USE DEF LedgerInv
<1>0. ASSUME UNCHANGED <<issued, base, charged, carried, plan, rollout, proc, slave>>
      PROVE  LedgerInv'
  BY <1>0, LedgerIdle DEF SlavesMeasure
<1>1. CASE UNCHANGED vars
  BY <1>0, <1>1 DEF vars
<1>2. CASE Edit
  <2>1. CASE SetEnabled \/ ResetTraffic
    BY <1>0, <2>1 DEF SetEnabled, ResetTraffic
  <2>2. ~\E n \in Node : Rotate(n) \/ Unassign(n) \/ Assign(n)
    BY DEF BaselinesFollow, Rotate, Unassign, Assign
  <2> QED BY <1>2, <2>1, <2>2, LedgerRotateLink DEF Edit
<1>3. CASE Delivery
  <2> PICK g \in grants : Lost(g) \/ \E result \in Result : Install(g, result)
    BY <1>3 DEF Delivery
  <2>1. CASE Lost(g)
    BY <1>0, <2>1 DEF Lost, master
  <2>2. CASE \E result \in Result : Install(g, result)
    BY <2>2, LedgerInstall DEF Addressed
  <2> QED BY <2>1, <2>2
<1>4. CASE RolloutStep
  <2>1. CASE StartRollout \/ GiveUp \/ EndRollout
    <3>1. /\ "mesh apply" \in Edits
          /\ rollout' \in {"apply", "rollback"} => plan < MaxPlan
          /\ UNCHANGED <<issued, base, charged, carried, plan, proc, slave>>
      BY <2>1 DEF StartRollout, GiveUp, EndRollout, ChargedAtHome, LedgerTypes
    <3>2. LedgerTypes'
      BY <3>1 DEF LedgerTypes
    <3>3. SlavesMeasure' /\ ReportsMeasured' /\ BaselinesCharged'
      <4>1. SlavesMeasure'
        BY <3>1 DEF SlavesMeasure
      <4>2. ReportsMeasured'
        BY <3>1 DEF ReportsMeasured
      <4> QED BY <3>1, <4>1, <4>2 DEF BaselinesCharged
    <3>4. ChargedAtHome'
      BY <3>1 DEF ChargedAtHome
    <3> QED BY <3>2, <3>3, <3>4
  <2>2. CASE Decide
    <3>1. /\ rollout = "apply" /\ plan' = plan + 1 /\ rollout' = "finalize"
          /\ UNCHANGED <<issued, base, charged, carried, proc, slave>>
      BY <2>2 DEF Decide
    <3>2. "mesh apply" \in Edits
      BY <3>1 DEF ChargedAtHome
    <3>3. LedgerTypes'
      BY <3>1, PlanAssumption DEF LedgerTypes, Plan
    <3>4. SlavesMeasure'
      BY <3>1 DEF SlavesMeasure
    <3>5. ReportsMeasured' /\ BaselinesCharged'
      BY <3>1 DEF ReportsMeasured, BaselinesCharged
    <3>6. ChargedAtHome'
      BY <3>2 DEF ChargedAtHome
    <3> QED BY <3>3, <3>4, <3>5, <3>6
  <2>3. CASE \E e \in Entry : RolloutAt(e)
    BY <2>3, LedgerSlave
  <2> QED BY <1>4, <2>1, <2>2, <2>3 DEF RolloutStep
<1>5. CASE Tick
  <2>1. /\ UNCHANGED <<issued, base, charged, carried, plan, rollout, proc>>
        /\ slave' = [e \in Entry |-> [slave[e] EXCEPT !.ttl = Passed(slave[e].ttl)]]
    BY <1>5 DEF Tick, master
  <2>2. /\ DOMAIN slave' = Entry
        /\ \A e \in Entry : /\ DOMAIN slave'[e] = DOMAIN slave[e]
                             /\ slave'[e].bytes = slave[e].bytes
    BY <2>1 DEF SlavesMeasure
  <2>3. \A e \in Entry : /\ slave'[e].bytes \in [Node -> Nat]
                         /\ \A n \in Node : slave'[e].bytes[n] <= slave[e].bytes[n]
    BY <2>2 DEF SlavesMeasure
  <2> QED BY <2>1, <2>2, <2>3, LedgerIdle
<1>6. CASE \E p \in Sync : Synchronise(p)
  <2> PICK p \in Sync : Synchronise(p)
    BY <1>6
  <2>1. CASE Merge(p)
    BY <2>1, LedgerMerge
  <2>2. CASE \E e \in Entry : Ask(p, e) \/ NoAnswer(p, e)
    BY <2>2, LedgerReport
  <2>3. CASE Begin(p) \/ MergeRefused(p)
    <3>1. /\ UNCHANGED <<issued, base, charged, carried, plan, rollout, slave>>
          /\ DOMAIN proc' = Sync
          /\ \A q \in Sync : q # p => proc'[q] = proc[q]
          /\ {"todo", "report"} \subseteq DOMAIN proc'[p]
          /\ proc'[p].todo \subseteq Entry
          /\ proc'[p].report \subseteq proc[p].report
      BY <2>3 DEF Begin, MergeRefused, ReportsMeasured, master
    <3>2. ReportsMeasured'
      BY <3>1 DEF ReportsMeasured
    <3>3. LedgerTypes'
      BY <3>1 DEF LedgerTypes
    <3>4. SlavesMeasure' /\ BaselinesCharged'
      BY <3>1 DEF SlavesMeasure, BaselinesCharged
    <3>5. ChargedAtHome'
      BY <3>1 DEF ChargedAtHome, Home
    <3> QED BY <3>2, <3>3, <3>4, <3>5
  <2> QED BY <2>1, <2>2, <2>3 DEF Synchronise
<1>7. CASE \E e \in Entry : SlaveStep(e)
  BY <1>7, LedgerSlave, LedgerMeasure DEF SlaveStep
<1> QED BY <1>1, <1>2, <1>3, <1>4, <1>5, <1>6, <1>7 DEF Next

\* However reports and grants are lost, delayed and reordered, and however
\* many processes merge them, the master charges a node at most what its
\* entries measured (mergeMeshUsage), as long as baselines follow the node.
THEOREM ChargedOnce ==
  ASSUME BaselinesFollow
  PROVE  Spec => []NoDoubleCharge
<1>1. Init => LedgerInv /\ Addressed
  BY LedgerInit DEF Init, Addressed
<1>2. LedgerInv /\ Addressed /\ [Next]_vars => (LedgerInv /\ Addressed)'
  BY AddressedStep, LedgerStep
<1>3. LedgerInv => NoDoubleCharge
  BY DEF LedgerInv, BaselinesCharged, NoDoubleCharge
<1> QED BY <1>1, <1>2, <1>3, PTL DEF Spec

--------------------------------------------------------------------------------
(* Every byte is charged once *)

\* Nodes keep their entry and their assignment.
NodesStay == {"rotate", "reassign", "mesh apply"} \cap Edits = {}

\* Since it was granted a node was never without its counter: every grant for
\* its entry names it.
NeverDropped ==
  /\ assigned = Node
  /\ \A g \in grants :
       /\ {"entry", "ttl", "gen"} \subseteq DOMAIN g
       /\ \A n \in Node : Home(n) = g.entry => g.gen[n] # 0
  /\ \A n \in Node :
       IF slave[Home(n)].gen[n] = 0 THEN carried[Home(n)][n] = 0
       ELSE slave[Home(n)].bytes[n] = carried[Home(n)][n]

\* A step that leaves what slaves hold and what was measured alone.
LEMMA NeverDroppedIdle ==
  ASSUME LedgerInv, NeverDropped, UNCHANGED <<assigned, plan, carried>>, grants' \subseteq grants,
         \A e \in Entry : slave'[e].gen = slave[e].gen /\ slave'[e].bytes = slave[e].bytes
  PROVE  NeverDropped'
<1>1. \A n \in Node : Home(n)' = Home(n) /\ Home(n) \in Entry
  BY HomeIsEntry DEF Home, LedgerInv, LedgerTypes
<1> QED BY <1>1 DEF NeverDropped

LEMMA NeverDroppedStep ==
  ASSUME LedgerInv, Addressed, NeverDropped, NodesStay, [Next]_vars
  PROVE  NeverDropped'
<1>0. rollout = "none" /\ \A n \in Node : Home(n) \in Entry
  BY HomeIsEntry DEF LedgerInv, LedgerTypes, ChargedAtHome, NodesStay
<1>00. ASSUME UNCHANGED <<assigned, plan, carried, slave>>, grants' \subseteq grants
       PROVE  NeverDropped'
  BY <1>00, NeverDroppedIdle
<1>1. CASE UNCHANGED vars
  BY <1>00, <1>1 DEF vars
<1>2. CASE Edit
  <2>1. ~\E n \in Node : Rotate(n) \/ Unassign(n) \/ Assign(n)
    BY DEF NodesStay, Rotate, Unassign, Assign
  <2> QED BY <1>00, <1>2, <2>1 DEF Edit, SetEnabled, ResetTraffic, RotateLink
<1>3. CASE \E g \in grants : Lost(g)
  BY <1>00, <1>3 DEF Lost, master
<1>4. CASE \E g \in grants : \E result \in Result : Install(g, result)
  <2> PICK g \in grants : \E result \in Result : Install(g, result)
    BY <1>4
  <2> PICK result \in Result : Install(g, result)
    OBVIOUS
  <2> DEFINE e == g.entry
             next == Granted(slave[e], g)
  <2>1. UNCHANGED <<assigned, plan, carried>> /\ grants' \subseteq grants
    BY DEF Install, master
  <2>2. e \in Entry
    BY DEF Addressed
  <2>3. /\ {"bytes", "gen", "total"} \subseteq DOMAIN slave[e]
        /\ slave[e].bytes \in [Node -> Nat] /\ DOMAIN slave = Entry
    BY <2>2 DEF LedgerInv, SlavesMeasure
  <2>4. /\ DOMAIN next = DOMAIN slave[e]
        /\ next.bytes = [n \in Node |-> IF slave[e].gen[n] # 0 /\ g.gen[n] # 0
                                        THEN slave[e].bytes[n] ELSE 0]
        /\ next.gen = g.gen
    BY <2>3, GrantedBytes
  <2> HIDE DEF next
  <2>5. \E b \in BOOLEAN :
          slave' = [slave EXCEPT ![e] = next] \/ slave' = [slave EXCEPT ![e] = [next EXCEPT !.pending = b]]
    BY DEF Install, Applies, next
  <2>6. /\ \A f \in Entry : f # e => slave'[f] = slave[f]
        /\ slave'[e].gen = g.gen /\ slave'[e].bytes = next.bytes
    BY <2>2, <2>3, <2>4, <2>5
  <2>7. \A n \in Node : Home(n)' = Home(n)
    BY <2>1 DEF Home
  <2>8. \A n \in Node : Home(n) = e =>
          slave'[e].gen[n] # 0 /\ slave'[e].bytes[n] = carried[e][n]
    BY <2>4, <2>6 DEF NeverDropped
  <2> QED BY <1>0, <2>1, <2>6, <2>7, <2>8 DEF NeverDropped
<1>5. CASE RolloutStep
  BY <1>0, <1>5 DEF RolloutStep, StartRollout, GiveUp, Decide, EndRollout, RolloutAt, PrepareAt,
                    CommitAt, CommitStops, RollBackAt, RollBackStops, FinalizeAt, Undecided,
                    NodesStay
<1>6. CASE Tick
  <2>1. /\ UNCHANGED <<assigned, plan, carried>>
        /\ slave' = [e \in Entry |-> [slave[e] EXCEPT !.ttl = Passed(slave[e].ttl)]]
        /\ grants' = {[g EXCEPT !.ttl = Passed(g.ttl)] : g \in grants}
    BY <1>6 DEF Tick, master
  <2>2. \A e \in Entry : slave'[e].gen = slave[e].gen /\ slave'[e].bytes = slave[e].bytes
    BY <2>1 DEF LedgerInv, SlavesMeasure
  <2>3. \A n \in Node : Home(n)' = Home(n)
    BY <2>1 DEF Home
  <2>4. \A g \in grants' : /\ {"entry", "ttl", "gen"} \subseteq DOMAIN g
                           /\ \A n \in Node : Home(n) = g.entry => g.gen[n] # 0
    BY <2>1 DEF NeverDropped
  <2> QED BY <1>0, <2>1, <2>2, <2>3, <2>4 DEF NeverDropped
<1>7. CASE \E p \in Sync : Synchronise(p)
  <2> PICK p \in Sync : Synchronise(p)
    BY <1>7
  <2>1. CASE Merge(p)
    <3> PICK r \in proc[p].report : grants' = grants \cup {BuiltGrant(r.entry, used')}
      BY <2>1 DEF Merge
    <3> DEFINE g == BuiltGrant(r.entry, used')
    <3>1. UNCHANGED <<assigned, plan, carried, slave>>
      BY <2>1 DEF Merge
    <3>2. {"entry", "ttl", "gen"} \subseteq DOMAIN g /\ g.entry = r.entry
      BY DEF BuiltGrant
    <3>3. \A n \in Node : Home(n) = r.entry => g.gen[n] # 0
      <4>1. \A n \in Node : issued[n] # 0
        BY DEF LedgerInv, LedgerTypes
      <4> QED BY <4>1 DEF BuiltGrant, NeverDropped
    <3>4. \A n \in Node : Home(n)' = Home(n)
      BY <3>1 DEF Home
    <3> HIDE DEF g
    <3> QED BY <3>1, <3>2, <3>3, <3>4 DEF NeverDropped, g
  <2>2. CASE ~Merge(p)
    BY <1>00, <2>2 DEF Synchronise, Begin, MergeRefused, Ask, NoAnswer, master
  <2> QED BY <2>1, <2>2
<1>8. CASE \E e \in Entry : RetryApply(e) \/ \E result \in Result : LeaseCycle(e, result)
  <2> PICK e \in Entry : RetryApply(e) \/ \E result \in Result : LeaseCycle(e, result)
    BY <1>8
  <2>1. UNCHANGED <<assigned, plan, carried, grants>>
    BY DEF RetryApply, LeaseCycle, master
  <2>2. \A f \in Entry : slave'[f].gen = slave[f].gen /\ slave'[f].bytes = slave[f].bytes
    <3>1. CASE RetryApply(e)
      BY <3>1 DEF RetryApply, Applies, LedgerInv, SlavesMeasure
    <3>2. CASE \E result \in Result : LeaseCycle(e, result)
      BY <3>2 DEF LeaseCycle, Applies, LedgerInv, SlavesMeasure
    <3> QED BY <3>1, <3>2
  <2> QED BY <2>1, <2>2, NeverDroppedIdle
<1>9. CASE \E e \in Entry, n \in Node : Measure(e, n)
  <2> PICK e \in Entry, n \in Node : Measure(e, n)
    BY <1>9
  <2>1. UNCHANGED <<assigned, plan, grants>> /\ slave[e].gen[n] # 0
    BY DEF Measure, master
  <2>2. /\ \A f \in Entry : f # e => slave'[f] = slave[f]
        /\ slave'[e].gen = slave[e].gen
        /\ slave'[e].bytes = [slave[e].bytes EXCEPT ![n] = slave[e].bytes[n] + 1]
    BY DEF Measure, LedgerInv, SlavesMeasure
  <2>3. carried' = [carried EXCEPT ![e][n] = carried[e][n] + 1]
    BY DEF Measure
  <2>4. \A m \in Node : Home(m)' = Home(m)
    BY <2>1 DEF Home
  <2>5. \A f \in Entry, m \in Node :
          /\ slave'[f].gen[m] = slave[f].gen[m]
          /\ f # e \/ m # n => /\ slave'[f].bytes[m] = slave[f].bytes[m]
                              /\ carried'[f][m] = carried[f][m]
          /\ slave'[e].bytes[n] = slave[e].bytes[n] + 1
          /\ carried'[e][n] = carried[e][n] + 1
    BY <2>2, <2>3 DEF LedgerInv, LedgerTypes, SlavesMeasure
  <2>6. \A m \in Node :
          IF slave'[Home(m)].gen[m] = 0 THEN carried'[Home(m)][m] = 0
          ELSE slave'[Home(m)].bytes[m] = carried'[Home(m)][m]
    BY <1>0, <2>1, <2>5 DEF NeverDropped
  <2> QED BY <2>1, <2>4, <2>6 DEF NeverDropped
<1> QED BY <1>1, <1>2, <1>3, <1>4, <1>5, <1>6, <1>7, <1>8, <1>9
        DEF Next, Delivery, SlaveStep

\* While nodes stay at their entry, what was charged for a node is its
\* baseline and what its slave holds is all that was measured there: no byte
\* is lost between a lost report, a rotation of its secret and a failed apply.
THEOREM NoByteLost ==
  ASSUME NodesStay
  PROVE  Spec => []EveryByteOnce
<1>0. BaselinesFollow
  BY DEF NodesStay, BaselinesFollow
<1>1. Init => LedgerInv /\ Addressed /\ NeverDropped
  <2>1. Init => NeverDropped
    <3> SUFFICES ASSUME Init PROVE NeverDropped
      OBVIOUS
    <3>1. \A n \in Node : Home(n) \in Entry
      BY HomeIsEntry, PlanAssumption DEF Init, Plan
    <3> QED BY <3>1 DEF Init, NeverDropped, NewSlave, Nobody
  <2> QED BY <2>1, LedgerInit DEF Init, Addressed
<1>2. LedgerInv /\ Addressed /\ NeverDropped /\ [Next]_vars
        => (LedgerInv /\ Addressed /\ NeverDropped)'
  BY <1>0, AddressedStep, LedgerStep, NeverDroppedStep
<1>3. LedgerInv /\ NeverDropped => EveryByteOnce
  <2> SUFFICES ASSUME LedgerInv, NeverDropped PROVE EveryByteOnce
    OBVIOUS
  <2>1. \A n \in Node : Home(n) \in Entry
    BY HomeIsEntry DEF LedgerInv, LedgerTypes
  <2> QED BY <2>1 DEF LedgerInv, BaselinesCharged, NeverDropped, EveryByteOnce, Baseline
<1> QED BY <1>1, <1>2, <1>3, PTL DEF Spec

--------------------------------------------------------------------------------
(* A replaced secret does not come back *)

OrderTypes ==
  /\ issued \in [Node -> Nat] /\ seq \in Nat
  /\ DOMAIN live = Entry /\ DOMAIN slave = Entry
  /\ \A e \in Entry :
       /\ {"seq", "gen", "total"} \subseteq DOMAIN slave[e]
       /\ slave[e].seq \in Nat /\ slave[e].seq <= seq
       /\ slave[e].gen \in [Node -> Nat]
       /\ \A n \in Node : slave[e].gen[n] <= issued[n]
  /\ \A g \in grants :
       /\ {"entry", "seq", "ttl", "gen"} \subseteq DOMAIN g
       /\ g.entry \in Entry
       /\ g.seq \in Nat /\ g.seq <= seq
       /\ g.gen \in [Node -> Nat]
       /\ \A n \in Node : g.gen[n] <= issued[n]

\* A grant built later, and one a slave can still accept, has no older secret.
GrantsOrdered ==
  /\ \A g, h \in grants : g.seq < h.seq =>
       \A n \in Node : h.gen[n] = 0 \/ g.gen[n] <= h.gen[n]
  /\ \A g \in grants : g.seq > slave[g.entry].seq =>
       \A n \in Node : g.gen[n] = 0 \/ slave[g.entry].gen[n] <= g.gen[n]

OrderInv == OrderTypes /\ GrantsOrdered

\* A step that keeps what slaves hold and builds no grant.
LEMMA OrderIdle ==
  ASSUME OrderInv, issued' \in [Node -> Nat], \A n \in Node : issued[n] <= issued'[n],
         seq' = seq, grants' \subseteq grants, DOMAIN live' = Entry, DOMAIN slave' = Entry,
         \A e \in Entry : /\ DOMAIN slave'[e] = DOMAIN slave[e]
                          /\ slave'[e].seq = slave[e].seq /\ slave'[e].gen = slave[e].gen
  PROVE  OrderInv'
<1> USE DEF OrderInv
<1>1. OrderTypes'
  <2>1. \A a, b, c \in Nat : a <= b /\ b <= c => a <= c
    OBVIOUS
  <2>2. \A e \in Entry, n \in Node : slave'[e].gen[n] <= issued'[n]
    BY <2>1 DEF OrderTypes
  <2>3. \A g \in grants, n \in Node : g.gen[n] <= issued'[n]
    BY <2>1 DEF OrderTypes
  <2> QED BY <2>2, <2>3 DEF OrderTypes
<1>2. GrantsOrdered'
  BY DEF OrderTypes, GrantsOrdered
<1> QED BY <1>1, <1>2

LEMMA OrderInstall ==
  ASSUME OrderInv, NEW g \in grants, NEW result \in Result, Install(g, result)
  PROVE  /\ OrderInv'
         /\ \A e \in Entry, n \in Node : live'[e][n] # live[e][n] =>
              live'[e][n] = 0 \/ live'[e][n] >= slave[e].gen[n]
<1> USE DEF OrderInv
<1> DEFINE e == g.entry
           next == Granted(slave[e], g)
<1>1. /\ e \in Entry /\ g.gen \in [Node -> Nat] /\ g.seq \in Nat
      /\ g.seq > slave[e].seq
      /\ UNCHANGED <<issued, seq>> /\ grants' = grants \ {g}
  BY DEF Install, Acceptable, OrderTypes, master
<1>2. /\ DOMAIN next = DOMAIN slave[e] /\ next.seq = g.seq /\ next.gen = g.gen
  BY <1>1 DEF Granted, OrderTypes
<1>3. \A n \in Node : g.gen[n] = 0 \/ slave[e].gen[n] <= g.gen[n]
  BY <1>1 DEF GrantsOrdered
<1>4. /\ \E b \in BOOLEAN : \/ slave' = [slave EXCEPT ![e] = next]
                           \/ slave' = [slave EXCEPT ![e] = [next EXCEPT !.pending = b]]
      /\ \E b \in BOOLEAN : \/ live' = live
                           \/ live' = [live EXCEPT ![e] = View(e, [next EXCEPT !.pending = b])]
  BY DEF Install, Applies
<1> HIDE DEF next, e
<1>5. /\ DOMAIN slave' = Entry
      /\ \A f \in Entry : f # e => slave'[f] = slave[f]
      /\ DOMAIN slave'[e] = DOMAIN slave[e]
      /\ slave'[e].seq = g.seq /\ slave'[e].gen = g.gen
  BY <1>1, <1>2, <1>4 DEF OrderTypes
<1>6. \A n \in Node, b \in BOOLEAN :
        View(e, [next EXCEPT !.pending = b])[n] \in {0, g.gen[n]}
  BY <1>2 DEF View
<1>7. DOMAIN live' = Entry
  BY <1>4 DEF OrderTypes
<1>8. \A f \in Entry, n \in Node : live'[f][n] # live[f][n] =>
        f = e /\ live'[f][n] \in {0, g.gen[n]}
  BY <1>1, <1>4, <1>6 DEF OrderTypes
<1>9. OrderTypes'
  BY <1>1, <1>5, <1>7 DEF OrderTypes, e
<1>10. GrantsOrdered'
  <2>1. \A a, b \in grants' : a.seq < b.seq =>
          \A n \in Node : b.gen[n] = 0 \/ a.gen[n] <= b.gen[n]
    BY <1>1 DEF GrantsOrdered
  <2>2. \A h \in grants' : h.seq > slave'[h.entry].seq =>
          \A n \in Node : h.gen[n] = 0 \/ slave'[h.entry].gen[n] <= h.gen[n]
    <3> SUFFICES ASSUME NEW h \in grants', h.seq > slave'[h.entry].seq, NEW n \in Node
                 PROVE  h.gen[n] = 0 \/ slave'[h.entry].gen[n] <= h.gen[n]
      OBVIOUS
    <3>1. h \in grants /\ h.entry \in Entry /\ h.seq \in Nat
      BY <1>1 DEF OrderTypes
    <3>2. CASE h.entry = e
      <4>1. g.seq < h.seq
        BY <1>1, <1>5, <3>1, <3>2
      <4> QED BY <1>5, <3>1, <3>2, <4>1 DEF GrantsOrdered
    <3>3. CASE h.entry # e
      BY <1>5, <3>1, <3>3 DEF GrantsOrdered
    <3> QED BY <3>2, <3>3
  <2> QED BY <2>1, <2>2 DEF GrantsOrdered
<1>11. \A f \in Entry, n \in Node : live'[f][n] # live[f][n] =>
         live'[f][n] = 0 \/ live'[f][n] >= slave[f].gen[n]
  <2> SUFFICES ASSUME NEW f \in Entry, NEW n \in Node, live'[f][n] # live[f][n], live'[f][n] # 0
               PROVE  live'[f][n] >= slave[f].gen[n]
    OBVIOUS
  <2>1. f = e /\ live'[f][n] = g.gen[n] /\ g.gen[n] # 0
    BY <1>8
  <2>2. slave[f].gen[n] \in Nat /\ g.gen[n] \in Nat
    BY <1>1 DEF OrderTypes
  <2> QED BY <1>3, <2>1, <2>2
<1> QED BY <1>9, <1>10, <1>11

\* The step does not put an older secret into any sing-box.
SecretsKept ==
  \A e \in Entry, n \in Node :
    live'[e][n] # live[e][n] => live'[e][n] = 0 \/ live'[e][n] >= slave[e].gen[n]

LEMMA OrderSlave ==
  ASSUME OrderInv, NEW e \in Entry,
         \/ RetryApply(e) \/ RolloutAt(e)
         \/ \E result \in Result : LeaseCycle(e, result)
         \/ \E n \in Node : Measure(e, n)
  PROVE  OrderInv' /\ SecretsKept
<1> USE DEF OrderInv
<1>0. DOMAIN slave = Entry /\ {"seq", "gen", "total"} \subseteq DOMAIN slave[e]
  BY DEF OrderTypes
<1>1. UNCHANGED <<issued, seq, grants>>
  BY <1>0, RolloutAtSlave DEF RetryApply, LeaseCycle, Measure, master
<1>2. \A a : a.gen = slave[e].gen => \A n \in Node : View(e, a)[n] \in {0, slave[e].gen[n]}
  BY DEF View
<1>3. /\ DOMAIN slave' = Entry
      /\ \A f \in Entry : f # e => slave'[f] = slave[f]
      /\ DOMAIN slave'[e] = DOMAIN slave[e]
      /\ slave'[e].seq = slave[e].seq /\ slave'[e].gen = slave[e].gen
      /\ \/ live' = live \/ live' = [live EXCEPT ![e] = live[e]]
         \/ \E a : a.gen = slave[e].gen /\ live' = [live EXCEPT ![e] = View(e, a)]
  <2>1. CASE RetryApply(e)
    BY <1>0, <2>1 DEF RetryApply, Applies
  <2>2. CASE RolloutAt(e)
    BY <1>0, <2>2, RolloutAtSlave
  <2>3. CASE \E result \in Result : LeaseCycle(e, result)
    <3> DEFINE saved == [slave[e] EXCEPT !.pending = TRUE]
               done == [saved EXCEPT !.pending = FALSE,
                          !.expired = LeaseExpired(slave[e]), !.blocked = LeaseBlocked(slave[e])]
    <3>1. /\ saved.gen = slave[e].gen /\ saved.seq = slave[e].seq /\ DOMAIN saved = DOMAIN slave[e]
          /\ done.gen = slave[e].gen /\ done.seq = slave[e].seq /\ DOMAIN done = DOMAIN slave[e]
      BY <1>0
    <3>2. /\ slave' = [slave EXCEPT ![e] = saved] \/ slave' = [slave EXCEPT ![e] = done]
          /\ live' = live \/ live' = [live EXCEPT ![e] = View(e, saved)]
      BY <2>3 DEF LeaseCycle, Applies
    <3> HIDE DEF saved, done
    <3> QED BY <1>0, <3>1, <3>2
  <2>4. CASE \E n \in Node : Measure(e, n)
    <3> PICK n \in Node : Measure(e, n)
      BY <2>4
    <3>1. live' = live
      BY DEF Measure
    <3> QED BY <1>0, <3>1 DEF Measure
  <2> QED BY <2>1, <2>2, <2>3, <2>4
<1>4. DOMAIN live' = Entry
  BY <1>3 DEF OrderTypes
<1>5. \A f \in Entry, n \in Node : live'[f][n] # live[f][n] =>
        f = e /\ live'[f][n] \in {0, slave[e].gen[n]}
  BY <1>2, <1>3 DEF OrderTypes
<1>6. SecretsKept
  <2>1. \A n \in Node : slave[e].gen[n] \in Nat
    BY DEF OrderTypes
  <2> QED BY <1>5, <2>1 DEF SecretsKept
<1>7. OrderInv'
  <2>1. \A f \in Entry : /\ DOMAIN slave'[f] = DOMAIN slave[f]
                         /\ slave'[f].seq = slave[f].seq /\ slave'[f].gen = slave[f].gen
    BY <1>3
  <2>2. issued' \in [Node -> Nat] /\ \A n \in Node : issued[n] <= issued'[n]
    BY <1>1 DEF OrderTypes
  <2> QED BY <1>1, <1>3, <1>4, <2>1, <2>2, OrderIdle
<1> QED BY <1>6, <1>7

\* What Merge needs of a report: it is about an entry.
ReportsNameEntries ==
  /\ DOMAIN proc = Sync
  /\ \A p \in Sync :
       /\ {"todo", "report"} \subseteq DOMAIN proc[p]
       /\ proc[p].todo \subseteq Entry
       /\ \A r \in proc[p].report : r.entry \in Entry

LEMMA OrderStep ==
  ASSUME OrderInv, ReportsNameEntries, [Next]_vars
  PROVE  OrderInv' /\ SecretsKept
<1> USE DEF OrderInv
<1>0. ASSUME issued' \in [Node -> Nat], \A n \in Node : issued[n] <= issued'[n],
             UNCHANGED <<seq, slave, live>>, grants' \subseteq grants
      PROVE  OrderInv' /\ SecretsKept
  BY <1>0, OrderIdle DEF OrderTypes, SecretsKept
<1>00. issued \in [Node -> Nat] /\ \A n \in Node : issued[n] <= issued[n]
  BY DEF OrderTypes
<1>1. CASE UNCHANGED vars
  BY <1>0, <1>00, <1>1 DEF vars
<1>2. CASE Edit
  <2>1. UNCHANGED <<seq, slave, live, grants>>
    BY <1>2 DEF Edit, SetEnabled, ResetTraffic, RotateLink, Rotate, Unassign, Assign
  <2>2. issued' = issued \/ \E n \in Node : issued' = [issued EXCEPT ![n] = issued[n] + 1]
    BY <1>2 DEF Edit, SetEnabled, ResetTraffic, RotateLink, Rotate, Unassign, Assign
  <2>3. issued' \in [Node -> Nat] /\ \A n \in Node : issued[n] <= issued'[n]
    BY <1>00, <2>2
  <2> QED BY <1>0, <2>1, <2>3
<1>3. CASE \E g \in grants : Lost(g)
  BY <1>0, <1>00, <1>3 DEF Lost, master
<1>4. CASE \E g \in grants : \E result \in Result : Install(g, result)
  BY <1>4, OrderInstall DEF SecretsKept
<1>5. CASE StartRollout \/ GiveUp \/ Decide \/ EndRollout
  BY <1>0, <1>00, <1>5 DEF StartRollout, GiveUp, Decide, EndRollout
<1>6. CASE \E e \in Entry : RolloutAt(e) \/ SlaveStep(e)
  BY <1>6, OrderSlave DEF SlaveStep
<1>7. CASE Tick
  <2>1. /\ UNCHANGED <<issued, seq, live>>
        /\ slave' = [e \in Entry |-> [slave[e] EXCEPT !.ttl = Passed(slave[e].ttl)]]
        /\ grants' = {[g EXCEPT !.ttl = Passed(g.ttl)] : g \in grants}
    BY <1>7 DEF Tick, master
  <2>2. /\ DOMAIN slave' = Entry
        /\ \A e \in Entry : /\ DOMAIN slave'[e] = DOMAIN slave[e]
                             /\ slave'[e].seq = slave[e].seq /\ slave'[e].gen = slave[e].gen
    BY <2>1 DEF OrderTypes
  <2>3. \A h \in grants' : \E g \in grants :
          /\ DOMAIN h = DOMAIN g /\ h.entry = g.entry /\ h.seq = g.seq /\ h.gen = g.gen
    <3> SUFFICES ASSUME NEW g \in grants
                 PROVE  LET h == [g EXCEPT !.ttl = Passed(g.ttl)] IN
                        /\ DOMAIN h = DOMAIN g /\ h.entry = g.entry
                        /\ h.seq = g.seq /\ h.gen = g.gen
      BY <2>1
    <3> QED BY DEF OrderTypes
  <2>4. OrderTypes'
    BY <2>1, <2>2, <2>3 DEF OrderTypes
  <2>5. GrantsOrdered'
    <3>1. \A a, b \in grants' : a.seq < b.seq =>
            \A n \in Node : b.gen[n] = 0 \/ a.gen[n] <= b.gen[n]
      BY <2>3 DEF GrantsOrdered
    <3>2. \A a \in grants' : a.seq > slave'[a.entry].seq =>
            \A n \in Node : a.gen[n] = 0 \/ slave'[a.entry].gen[n] <= a.gen[n]
      BY <2>2, <2>3 DEF GrantsOrdered, OrderTypes
    <3> QED BY <3>1, <3>2 DEF GrantsOrdered
  <2> QED BY <2>1, <2>4, <2>5 DEF SecretsKept
<1>8. CASE \E p \in Sync : Merge(p)
  <2> PICK p \in Sync : Merge(p)
    BY <1>8
  <2> PICK r \in proc[p].report : grants' = grants \cup {BuiltGrant(r.entry, used')}
    BY DEF Merge
  <2> DEFINE new == BuiltGrant(r.entry, used')
  <2>1. UNCHANGED <<issued, slave, live>> /\ seq' = seq + 1 /\ r.entry \in Entry
    BY DEF Merge, ReportsNameEntries
  <2>2. /\ {"entry", "seq", "ttl", "gen"} \subseteq DOMAIN new
        /\ new.entry = r.entry /\ new.seq = seq + 1
        /\ new.gen = [n \in Node |-> IF n \in assigned /\ Home(n) = r.entry THEN issued[n] ELSE 0]
    BY DEF BuiltGrant
  <2>3. new.gen \in [Node -> Nat] /\ \A n \in Node : new.gen[n] \in {0, issued[n]}
    BY <1>00, <2>2
  <2> HIDE DEF new
  <2>4. grants' = grants \cup {new} /\ seq + 1 \in Nat
    BY DEF new, OrderTypes
  <2>5. OrderTypes'
    <3>1. \A e \in Entry : slave[e].seq <= seq + 1
      BY DEF OrderTypes
    <3>2. \A g \in grants : g.seq <= seq + 1
      BY DEF OrderTypes
    <3>3. \A n \in Node : new.gen[n] <= issued[n]
      BY <1>00, <2>3
    <3> QED BY <2>1, <2>2, <2>3, <2>4, <3>1, <3>2, <3>3 DEF OrderTypes
  <2>6. GrantsOrdered'
    <3>1. \A a, b \in grants' : a.seq < b.seq =>
            \A n \in Node : b.gen[n] = 0 \/ a.gen[n] <= b.gen[n]
      <4> SUFFICES ASSUME NEW a \in grants', NEW b \in grants', a.seq < b.seq, NEW n \in Node
                   PROVE  b.gen[n] = 0 \/ a.gen[n] <= b.gen[n]
        OBVIOUS
      <4>1. CASE a \in grants /\ b \in grants
        BY <4>1 DEF GrantsOrdered
      <4>2. CASE a \in grants /\ b = new
        BY <2>3, <4>2 DEF OrderTypes
      <4>3. CASE a = new
        BY <2>2, <2>4, <4>3 DEF OrderTypes
      <4> QED BY <2>4, <4>1, <4>2, <4>3
    <3>2. \A a \in grants' : a.seq > slave[a.entry].seq =>
            \A n \in Node : a.gen[n] = 0 \/ slave[a.entry].gen[n] <= a.gen[n]
      <4>1. \A n \in Node : new.gen[n] = 0 \/ slave[new.entry].gen[n] <= new.gen[n]
        BY <2>1, <2>2, <2>3 DEF OrderTypes
      <4> QED BY <2>4, <4>1 DEF GrantsOrdered
    <3> QED BY <2>1, <3>1, <3>2 DEF GrantsOrdered
  <2> QED BY <2>1, <2>5, <2>6 DEF SecretsKept
<1>9. CASE \E p \in Sync : Begin(p) \/ MergeRefused(p) \/ \E e \in Entry : Ask(p, e) \/ NoAnswer(p, e)
  BY <1>0, <1>00, <1>9 DEF Begin, MergeRefused, Ask, NoAnswer, master
<1> QED BY <1>1, <1>2, <1>3, <1>4, <1>5, <1>6, <1>7, <1>8, <1>9
        DEF Next, Delivery, RolloutStep, Synchronise

LEMMA ReportsStep ==
  ASSUME ReportsNameEntries, [Next]_vars
  PROVE  ReportsNameEntries'
<1>1. CASE UNCHANGED proc
  BY <1>1 DEF ReportsNameEntries
<1>2. ASSUME NEW p \in Sync, Synchronise(p)
      PROVE  ReportsNameEntries'
  <2>1. CASE Begin(p)
    BY <2>1 DEF Begin, ReportsNameEntries
  <2>2. CASE Merge(p) \/ MergeRefused(p)
    <3>1. proc' = [proc EXCEPT ![p].report = {}]
      BY <2>2 DEF Merge, MergeRefused
    <3> QED BY <3>1 DEF ReportsNameEntries
  <2>3. ASSUME NEW e \in Entry, Ask(p, e) \/ NoAnswer(p, e)
        PROVE  ReportsNameEntries'
    BY <2>3 DEF Ask, NoAnswer, ReportsNameEntries
  <2> QED BY <1>2, <2>1, <2>2, <2>3 DEF Synchronise
<1>3. CASE Edit \/ Delivery \/ RolloutStep \/ Tick \/ UNCHANGED vars
  BY <1>1, <1>3
     DEF Edit, SetEnabled, ResetTraffic, RotateLink, Rotate, Unassign, Assign,
         Delivery, Lost, Install, RolloutStep, StartRollout, GiveUp, Decide, EndRollout,
         RolloutAt, PrepareAt, CommitAt, CommitStops, RollBackAt, RollBackStops, FinalizeAt,
         Tick, vars
<1>4. CASE \E e \in Entry : SlaveStep(e)
  BY <1>1, <1>4 DEF SlaveStep, RetryApply, LeaseCycle, Measure
<1> QED BY <1>2, <1>3, <1>4 DEF Next

\* Whatever administrators do and whatever is lost, late or repeated: once a
\* slave holds a secret of a node, no step puts an older one into its sing-box
\* (installMeshAccess compares the sequence of each grant with the last).
THEOREM ReplacedSecretsStayOut == Spec => NoSecretReturns
<1>1. Init => OrderInv /\ ReportsNameEntries
  <2> SUFFICES ASSUME Init PROVE OrderInv /\ ReportsNameEntries
    OBVIOUS
  <2>1. OrderInv
    BY NewSlaveHolds DEF Init, OrderInv, OrderTypes, GrantsOrdered, Nobody
  <2>2. ReportsNameEntries
    BY DEF Init, ReportsNameEntries
  <2> QED BY <2>1, <2>2
<1>2. OrderInv /\ ReportsNameEntries /\ [Next]_vars => (OrderInv /\ ReportsNameEntries)'
  BY OrderStep, ReportsStep
<1>3. OrderInv /\ ReportsNameEntries /\ [Next]_vars =>
        [\A e \in Entry, n \in Node :
           live'[e][n] # live[e][n] => live'[e][n] = 0 \/ live'[e][n] >= slave[e].gen[n]]_vars
  BY OrderStep DEF SecretsKept
<1> QED BY <1>1, <1>2, <1>3, PTL DEF Spec, NoSecretReturns
--------------------------------------------------------------------------------
(* An entry serves its grant *)

LEMMA LeastNumber ==
  ASSUME NEW T, T \subseteq Nat, T # {}
  PROVE  \E m \in T : m = 0 \/ (m - 1 \in Nat /\ m - 1 \notin T)
<1>1. PICK m \in T : \A l \in T : <<l, m>> \notin OpToRel(<, Nat)
  BY WFMin, NatLessThanWellFounded
<1>2. m # 0 => m - 1 \in Nat /\ <<m - 1, m>> \in OpToRel(<, Nat)
  BY DEF OpToRel
<1> QED BY <1>1, <1>2

\* Taking an element out of a finite set.
LEMMA OneFewer ==
  ASSUME NEW s, IsFiniteSet(s), s # {}
  PROVE  LET x == CHOOSE x \in s : TRUE IN
         /\ x \in s /\ IsFiniteSet(s \ {x})
         /\ Cardinality(s) \in Nat \ {0} /\ Cardinality(s \ {x}) = Cardinality(s) - 1
<1> DEFINE x == CHOOSE y \in s : TRUE
<1>1. x \in s
  OBVIOUS
<1> HIDE DEF x
<1>2. /\ IsFiniteSet(s \ {x}) /\ Cardinality(s \ {x}) = Cardinality(s) - 1
      /\ Cardinality(s) \in Nat /\ Cardinality(s \ {x}) \in Nat
  BY <1>1, FS_RemoveElement, FS_CardinalityType
<1> QED BY <1>1, <1>2 DEF x

SumOver(S, added) == MapThenSumSet(LAMBDA n : added[n], S)

\* The sum of natural numbers over a finite set is one: the function that the
\* fold is defined by exists, and its values are numbers, both because no set
\* can be a smallest exception.
LEMMA SumIsNat ==
  ASSUME NEW S, IsFiniteSet(S), NEW added, \A n \in S : added[n] \in Nat
  PROVE  SumOver(S, added) \in Nat
<1> DEFINE Value(g, s) == IF s = {} THEN 0
                          ELSE LET x == CHOOSE x \in s : TRUE IN added[x] + g[s \ {x}]
           Smaller(n) == {s \in SUBSET S : Cardinality(s) < n}
           sum == CHOOSE g : g = [s \in SUBSET S |-> Value(g, s)]
<1>1. SumOver(S, added) = sum[S]
  BY DEF SumOver, MapThenSumSet, MapThenFoldSet
<1>2. \A s \in SUBSET S : IsFiniteSet(s) /\ Cardinality(s) \in Nat
  BY FS_Subset, FS_CardinalityType
<1>3. \A n \in Nat : \E g : g = [s \in Smaller(n) |-> Value(g, s)]
  <2> DEFINE Bad == {n \in Nat : ~ \E g : g = [s \in Smaller(n) |-> Value(g, s)]}
  <2> SUFFICES ASSUME Bad # {} PROVE FALSE
    OBVIOUS
  <2>1. PICK m \in Bad : m = 0 \/ (m - 1 \in Nat /\ m - 1 \notin Bad)
    <3>1. Bad \subseteq Nat
      OBVIOUS
    <3> HIDE DEF Bad
    <3> QED BY <3>1, LeastNumber
  <2>2. CASE m = 0
    <3>1. Smaller(0) = {}
      BY <1>2
    <3> DEFINE g == [s \in {} |-> 0]
    <3>2. g = [s \in Smaller(0) |-> Value(g, s)]
      BY <3>1
    <3> HIDE DEF Smaller, Value
    <3> QED BY <2>2, <3>2
  <2>3. CASE m - 1 \in Nat /\ m - 1 \notin Bad
    <3>1. PICK f : f = [s \in Smaller(m - 1) |-> Value(f, s)]
      BY <2>3
    <3> DEFINE g == [s \in Smaller(m) |-> Value(f, s)]
    <3>2. \A s \in Smaller(m) : Value(f, s) = Value(g, s)
      <4> SUFFICES ASSUME NEW s \in Smaller(m), s # {} PROVE Value(f, s) = Value(g, s)
        OBVIOUS
      <4> DEFINE t == s \ {CHOOSE x \in s : TRUE}
      <4>1. t \in Smaller(m - 1) /\ t \in Smaller(m)
        BY <1>2, <2>1, OneFewer
      <4>2. f[t] = Value(f, t) /\ g[t] = Value(f, t)
        <5> HIDE DEF Value, Smaller, t
        <5> QED BY <3>1, <4>1
      <4> HIDE DEF g
      <4> QED BY <4>2
    <3>3. g = [s \in Smaller(m) |-> Value(g, s)]
      <4> HIDE DEF Value, Smaller
      <4> QED BY <3>2
    <3> HIDE DEF g, Value, Smaller
    <3> QED BY <3>3
  <2> QED BY <2>1, <2>2, <2>3
<1>4. sum = [s \in SUBSET S |-> Value(sum, s)]
  <2>1. Cardinality(S) + 1 \in Nat
    BY <1>2
  <2>2. \A s \in SUBSET S : Cardinality(s) <= Cardinality(S)
    BY FS_Subset
  <2>3. Smaller(Cardinality(S) + 1) = SUBSET S
    BY <1>2, <2>2
  <2> HIDE DEF Value, Smaller
  <2>4. \E g : g = [s \in SUBSET S |-> Value(g, s)]
    BY <1>3, <2>1, <2>3
  <2> QED BY <2>4
<1>5. \A s \in SUBSET S : sum[s] = Value(sum, s)
  <2> HIDE DEF sum, Value
  <2> QED BY <1>4
<1> HIDE DEF sum
<1>6. \A s \in SUBSET S : sum[s] \in Nat
  <2> DEFINE Bad == {n \in Nat : \E s \in SUBSET S : Cardinality(s) = n /\ sum[s] \notin Nat}
  <2> SUFFICES Bad = {}
    BY <1>2
  <2> SUFFICES ASSUME Bad # {} PROVE FALSE
    OBVIOUS
  <2>1. PICK m \in Bad : m = 0 \/ (m - 1 \in Nat /\ m - 1 \notin Bad)
    <3>1. Bad \subseteq Nat
      OBVIOUS
    <3> HIDE DEF Bad
    <3> QED BY <3>1, LeastNumber
  <2>2. PICK s \in SUBSET S : Cardinality(s) = m /\ sum[s] \notin Nat
    OBVIOUS
  <2>3. s # {}
    <3>1. {} \in SUBSET S /\ Value(sum, {}) = 0
      OBVIOUS
    <3> HIDE DEF Value
    <3>2. sum[{}] = 0
      BY <1>5, <3>1
    <3> QED BY <2>2, <3>2
  <2> DEFINE x == CHOOSE x \in s : TRUE
  <2>4. /\ x \in s /\ m # 0 /\ s \ {x} \in SUBSET S
        /\ Cardinality(s \ {x}) = m - 1
    BY <1>2, <2>2, <2>3, OneFewer
  <2>5. sum[s \ {x}] \in Nat
    BY <2>1, <2>4
  <2>6. sum[s] = added[x] + sum[s \ {x}]
    BY <1>5, <2>3
  <2> QED BY <2>2, <2>4, <2>5, <2>6
<1> QED BY <1>1, <1>6

\* What the accounts and their baselines are.
Numbers ==
  /\ issued \in [Node -> 1 .. MaxGen]
  /\ base \in [Entry -> [Node -> [Gen -> Nat]]]
  /\ used \in Nat
  /\ plan \in Plan /\ (rollout \in {"apply", "rollback"} => plan < MaxPlan)

Fields == {"rev", "phase", "seq", "ttl", "expired", "blocked", "limit", "enabled", "gen",
           "bytes", "total", "pending"}
SlaveShape(a) ==
  /\ DOMAIN a = Fields
  /\ a.ttl \in Nat /\ a.limit \in Nat /\ a.total \in Nat
  /\ a.bytes \in [Node -> Nat]
SlaveShapes ==
  /\ DOMAIN slave = Entry /\ DOMAIN live = Entry
  /\ \A e \in Entry : SlaveShape(slave[e])

GrantShape(g) ==
  /\ {"entry", "ttl", "share"} \subseteq DOMAIN g
  /\ g.entry \in Entry /\ g.ttl \in Nat /\ g.share \in Nat
GrantShapes == \A g \in grants : GrantShape(g)

ReportShape(r) == r.entry \in Entry /\ r.bytes \in [Node -> Nat]
ReportShapes ==
  /\ DOMAIN proc = Sync
  /\ \A p \in Sync :
       /\ DOMAIN proc[p] = {"todo", "report"}
       /\ proc[p].todo \subseteq Entry
       /\ \A r \in proc[p].report : ReportShape(r)

\* Unless an apply is still to be repeated, or a half-done commit or rollback
\* to be resolved, what the state of the slave at e lets in is what runs:
\* whether the records of the lease are settled does not matter, and they
\* differ in the middle of a cycle.
Serves(e, a, decision, running) ==
  ~a.pending /\ ~HalfDone(a.phase, decision) /\ View(e, a) # Nobody => running = View(e, a)
Serving == \A e \in Entry : Serves(e, slave[e], rollout, live[e])

ServingInv == Numbers /\ SlaveShapes /\ GrantShapes /\ ReportShapes /\ Serving

LEMMA ServingInit == Init => ServingInv
<1> SUFFICES ASSUME Init PROVE ServingInv
  OBVIOUS
<1>1. Numbers
  BY GenAssumption, PlanAssumption DEF Init, Numbers, Gen, Plan
<1>2. \A e \in Entry : slave[e] = NewSlave
  BY DEF Init
<1>3. SlaveShape(NewSlave)
  BY DEF SlaveShape, NewSlave, Nobody, Fields
<1>4. \A e \in Entry : View(e, NewSlave) = Nobody
  BY DEF View, NewSlave, Nobody
<1>5. SlaveShapes /\ GrantShapes /\ ReportShapes
  BY <1>2, <1>3 DEF Init, SlaveShapes, GrantShapes, ReportShapes
<1>6. Serving
  BY <1>2, <1>4 DEF Serving, Serves
<1> QED BY <1>1, <1>5, <1>6 DEF ServingInv

\* The view is made of the lease, the counters, the grant and the plan.
LEMMA ViewLooksAt ==
  ASSUME NEW e, NEW a, NEW b,
         b.ttl = a.ttl, b.enabled = a.enabled, b.total = a.total, b.limit = a.limit,
         b.rev = a.rev, b.gen = a.gen
  PROVE  View(e, b) = View(e, a)
BY DEF View

\* Time and traffic can end a view and cannot change it otherwise.
LEMMA ViewEnds ==
  ASSUME NEW e, NEW a, NEW b,
         {a.ttl, b.ttl, a.total, b.total, a.limit} \subseteq Nat,
         b.ttl <= a.ttl, a.total <= b.total,
         b.enabled = a.enabled, b.limit = a.limit, b.rev = a.rev, b.gen = a.gen
  PROVE  View(e, b) = View(e, a) \/ View(e, b) = Nobody
<1>1. CASE b.ttl > 0 /\ ~Exhausted(Quota > 0, b.total, b.limit)
  <2>1. a.ttl > 0 /\ ~Exhausted(Quota > 0, a.total, a.limit)
    BY <1>1 DEF Exhausted
  <2> QED BY <1>1, <2>1 DEF View
<1>2. CASE ~(b.ttl > 0 /\ ~Exhausted(Quota > 0, b.total, b.limit))
  BY <1>2 DEF View, Nobody
<1> QED BY <1>1, <1>2

\* One slave takes a state that its sing-box serves.
LEMMA ServingAt ==
  ASSUME SlaveShapes, Serving, NEW e \in Entry, NEW b, SlaveShape(b),
         slave' = [slave EXCEPT ![e] = b],
         rollout' = rollout,
         \/ live' = live /\ Serves(e, b, rollout, live[e])
         \/ live' = [live EXCEPT ![e] = View(e, b)]
         \/ /\ HalfDone(b.phase, rollout)
            /\ \E running : live' = [live EXCEPT ![e] = running]
  PROVE  SlaveShapes' /\ Serving'
<1>1. \A f \in Entry : slave'[f] = IF f = e THEN b ELSE slave[f]
  BY DEF SlaveShapes
<1>2. SlaveShapes'
  BY <1>1 DEF SlaveShapes
<1>3. \A f \in Entry : f # e => live'[f] = live[f]
  BY DEF SlaveShapes
<1>4. Serves(e, b, rollout, live'[e])
  BY DEF Serves, SlaveShapes
<1>5. Serving'
  BY <1>1, <1>3, <1>4 DEF Serving
<1> QED BY <1>2, <1>5

\* An apply leaves a state that is served, or that is to be applied again.
LEMMA ServingApplies ==
  ASSUME SlaveShapes, Serving, NEW e \in Entry, NEW saved, NEW done, NEW result,
         SlaveShape(saved), SlaveShape(done), View(e, done) = View(e, saved),
         saved.pending \/ result = "done", rollout' = rollout,
         Applies(e, saved, done, result)
  PROVE  SlaveShapes' /\ Serving'
<1>1. CASE result = "done"
  BY <1>1, ServingAt DEF Applies
<1>2. CASE result = "unconfirmed"
  BY <1>2, ServingAt DEF Applies
<1>3. CASE result = "failed"
  <2>1. Serves(e, saved, rollout, live[e])
    BY <1>3 DEF Serves
  <2> QED BY <1>3, <2>1, ServingAt DEF Applies
<1> QED BY <1>1, <1>2, <1>3 DEF Applies

LEMMA ServingInstall ==
  ASSUME SlaveShapes, Serving, NEW g \in grants, GrantShape(g), NEW result,
         Install(g, result)
  PROVE  SlaveShapes' /\ Serving'
<1> DEFINE e == g.entry
           next == Granted(slave[e], g)
           saved == [next EXCEPT !.pending = TRUE]
           done == [next EXCEPT !.pending = FALSE]
<1>1. e \in Entry /\ SlaveShape(slave[e])
  BY DEF GrantShape, SlaveShapes
<1>2. SlaveShape(next) /\ next.pending = slave[e].pending
  <2>1. \A t \in Nat : g.share + t \in Nat
    BY DEF GrantShape
  <2> HIDE DEF e
  <2> QED BY <1>1, <2>1 DEF Granted, SlaveShape, GrantShape, Fields, e
<1>20. rollout' = rollout /\ next.phase = slave[e].phase
  <2> HIDE DEF e
  <2> QED BY <1>1 DEF Install, master, Granted, SlaveShape, Fields
<1> HIDE DEF next
<1>3. /\ SlaveShape(saved) /\ SlaveShape(done) /\ saved.pending
      /\ View(e, saved) = View(e, next) /\ View(e, done) = View(e, next)
  <2>1. SlaveShape(saved) /\ SlaveShape(done) /\ saved.pending
    BY <1>2 DEF SlaveShape, Fields
  <2> QED BY <1>2, <2>1, ViewLooksAt DEF SlaveShape, Fields
<1>4. CASE Applies(e, saved, done, result)
  <2> HIDE DEF e, saved, done
  <2> QED BY <1>1, <1>20, <1>3, <1>4, ServingApplies
<1>5. CASE /\ View(e, slave[e]) = View(e, next) /\ ~slave[e].pending
           /\ slave' = [slave EXCEPT ![e] = next] /\ UNCHANGED live
  <2>1. Serves(e, next, rollout, live[e])
    BY <1>1, <1>2, <1>20, <1>5 DEF Serves, Serving
  <2> HIDE DEF e
  <2> QED BY <1>1, <1>2, <1>20, <1>5, <2>1, ServingAt
<1> QED BY <1>4, <1>5 DEF Install, next

\* A step of a rollout leaves the state that runs, or a half-done commit or
\* rollback; FinalizeAt needs that the commit it ends was not half-done.
LEMMA ServingRolloutAt ==
  ASSUME SlaveShapes, Serving, NEW e \in Entry, RolloutAt(e)
  PROVE  SlaveShapes' /\ Serving'
<1> DEFINE a == slave[e]
<1>0. /\ SlaveShape(a) /\ Serves(e, a, rollout, live[e]) /\ rollout' = rollout
      /\ DOMAIN slave = Entry
  BY RolloutAtSlave DEF SlaveShapes, Serving, SlaveShape, Fields, master
<1>1. CASE PrepareAt(e)
  <2> DEFINE b == [a EXCEPT !.phase = "prepared"]
  <2>1. SlaveShape(b) /\ View(e, b) = View(e, a) /\ b.pending = a.pending
    BY <1>0, ViewLooksAt DEF SlaveShape, Fields
  <2>2. slave' = [slave EXCEPT ![e] = b] /\ live' = live /\ a.phase = ""
    BY <1>1 DEF PrepareAt
  <2>3. Serves(e, b, rollout, live[e])
    BY <1>0, <2>1, <2>2 DEF Serves, HalfDone
  <2> HIDE DEF a, b
  <2> QED BY <1>0, <2>1, <2>2, <2>3, ServingAt
<1>2. CASE CommitAt(e)
  <2> DEFINE b == [a EXCEPT !.rev = plan + 1, !.phase = "committed"]
  <2>1. SlaveShape(b)
    BY <1>0 DEF SlaveShape, Fields
  <2>2. Applies(e, b, b, "done")
    BY <1>2 DEF CommitAt
  <2> HIDE DEF a, b
  <2> QED BY <1>0, <2>1, <2>2, ServingApplies
<1>3. CASE CommitStops(e)
  <2> DEFINE b == [a EXCEPT !.phase = "committing"]
  <2>1. SlaveShape(b) /\ HalfDone(b.phase, rollout)
    BY <1>0 DEF SlaveShape, Fields, HalfDone
  <2>2. slave' = [slave EXCEPT ![e] = b] /\ \E running : live' = [live EXCEPT ![e] = running]
    BY <1>3 DEF CommitStops, LeftRunning
  <2> HIDE DEF a, b
  <2> QED BY <1>0, <2>1, <2>2, ServingAt
<1>4. CASE RollBackAt(e) /\ a.phase \in {"committing", "committed"}
  <2> DEFINE b == [a EXCEPT !.rev = plan, !.phase = ""]
  <2>1. SlaveShape(b)
    BY <1>0 DEF SlaveShape, Fields
  <2>2. Applies(e, b, b, "done")
    BY <1>4 DEF RollBackAt, Undoes
  <2> HIDE DEF a, b
  <2> QED BY <1>0, <2>1, <2>2, ServingApplies
<1>7. CASE RollBackAt(e) /\ a.phase \notin {"committing", "committed"}
  <2> DEFINE b == [a EXCEPT !.phase = ""]
  <2>1. SlaveShape(b) /\ View(e, b) = View(e, a) /\ b.pending = a.pending
    BY <1>0, ViewLooksAt DEF SlaveShape, Fields
  <2>2. slave' = [slave EXCEPT ![e] = b] /\ live' = live
    BY <1>7 DEF RollBackAt
  <2>3. Serves(e, b, rollout, live[e])
    BY <1>0, <1>7, <2>1 DEF Serves, HalfDone
  <2> HIDE DEF a, b
  <2> QED BY <1>0, <2>1, <2>2, <2>3, ServingAt
<1>5. CASE RollBackStops(e)
  <2>1. slave' = slave /\ \E running : live' = [live EXCEPT ![e] = running]
    BY <1>5 DEF RollBackStops, LeftRunning
  <2>2. HalfDone(a.phase, rollout)
    BY <1>5 DEF RollBackStops, HalfDone
  <2>3. DOMAIN live' = Entry /\ \A f \in Entry : f # e => live'[f] = live[f]
    BY <2>1 DEF SlaveShapes
  <2> QED BY <1>0, <2>1, <2>2, <2>3 DEF SlaveShapes, Serving, Serves
<1>6. CASE FinalizeAt(e)
  <2> DEFINE b == [a EXCEPT !.phase = ""]
  <2>1. SlaveShape(b) /\ View(e, b) = View(e, a) /\ b.pending = a.pending
    BY <1>0, ViewLooksAt DEF SlaveShape, Fields
  <2>2. /\ slave' = [slave EXCEPT ![e] = b] /\ live' = live
        /\ a.phase = "committed" /\ rollout = "finalize"
    BY <1>6 DEF FinalizeAt
  <2>3. Serves(e, b, rollout, live[e])
    BY <1>0, <2>1, <2>2 DEF Serves, HalfDone
  <2> HIDE DEF a, b
  <2> QED BY <1>0, <2>1, <2>2, <2>3, ServingAt
<1> QED BY <1>1, <1>2, <1>3, <1>4, <1>5, <1>6, <1>7 DEF RolloutAt

LEMMA ServingSlave ==
  ASSUME SlaveShapes, Serving, NEW e \in Entry,
         \/ RetryApply(e) \/ RolloutAt(e)
         \/ \E result \in Result : LeaseCycle(e, result)
         \/ \E n \in Node : Measure(e, n)
  PROVE  SlaveShapes' /\ Serving'
<1> DEFINE a == slave[e]
<1>0. SlaveShape(a) /\ Serves(e, a, rollout, live[e])
  BY DEF SlaveShapes, Serving
<1>1. CASE RetryApply(e)
  <2> DEFINE done == [a EXCEPT !.pending = FALSE]
  <2>1. SlaveShape(done) /\ View(e, done) = View(e, a)
    BY <1>0, ViewLooksAt DEF SlaveShape, Fields
  <2>2. Applies(e, a, done, "done") /\ rollout' = rollout
    BY <1>1 DEF RetryApply, master
  <2> HIDE DEF a, done
  <2> QED BY <1>0, <2>1, <2>2, ServingApplies
<1>2. CASE RolloutAt(e)
  BY <1>2, ServingRolloutAt
<1>3. CASE \E result \in Result : LeaseCycle(e, result)
  <2> PICK result \in Result : LeaseCycle(e, result)
    BY <1>3
  <2> DEFINE saved == [a EXCEPT !.pending = TRUE]
             done == [saved EXCEPT !.pending = FALSE,
                        !.expired = LeaseExpired(a), !.blocked = LeaseBlocked(a)]
  <2>1. SlaveShape(saved) /\ saved.pending /\ SlaveShape(done)
    BY <1>0 DEF SlaveShape, Fields
  <2>2. View(e, done) = View(e, saved)
    BY <1>0, ViewLooksAt DEF SlaveShape, Fields
  <2>3. Applies(e, saved, done, result) /\ rollout' = rollout
    BY DEF LeaseCycle, master
  <2> HIDE DEF a, saved, done
  <2> QED BY <2>1, <2>2, <2>3, ServingApplies
<1>4. CASE \E n \in Node : Measure(e, n)
  <2> PICK n \in Node : Measure(e, n)
    BY <1>4
  <2> DEFINE b == [a EXCEPT !.bytes = [a.bytes EXCEPT ![n] = a.bytes[n] + 1],
                            !.total = a.total + 1]
  <2>1. slave' = [slave EXCEPT ![e] = b] /\ live' = live /\ rollout' = rollout
    BY DEF Measure, SlaveShapes, master
  <2>2. /\ SlaveShape(b) /\ b.pending = a.pending /\ b.total = a.total + 1
        /\ b.ttl = a.ttl /\ b.enabled = a.enabled /\ b.limit = a.limit
        /\ b.rev = a.rev /\ b.gen = a.gen /\ b.phase = a.phase
    BY <1>0 DEF SlaveShape, Fields
  <2> HIDE DEF b, a
  <2>3. View(e, b) = View(e, a) \/ View(e, b) = Nobody
    BY <1>0, <2>2, ViewEnds DEF SlaveShape
  <2>4. Serves(e, b, rollout, live[e])
    BY <1>0, <2>2, <2>3 DEF Serves
  <2> QED BY <2>1, <2>2, <2>4, ServingAt
<1> QED BY <1>1, <1>2, <1>3, <1>4

LEMMA ServingTick ==
  ASSUME SlaveShapes, Serving, GrantShapes, Tick
  PROVE  SlaveShapes' /\ Serving' /\ GrantShapes'
<1>1. \A t \in Nat : Passed(t) \in Nat /\ Passed(t) <= t
  BY DEF Passed
<1>2. /\ DOMAIN slave' = Entry /\ live' = live /\ rollout' = rollout
      /\ \A e \in Entry : slave'[e] = [slave[e] EXCEPT !.ttl = Passed(slave[e].ttl)]
      /\ grants' = {[g EXCEPT !.ttl = Passed(g.ttl)] : g \in grants}
  BY DEF Tick, master
<1>3. ASSUME NEW e \in Entry
      PROVE  SlaveShape(slave'[e]) /\ Serves(e, slave'[e], rollout, live[e])
  <2> DEFINE a == slave[e]
             b == slave'[e]
  <2>0. SlaveShape(a) /\ Serves(e, a, rollout, live[e])
    BY DEF SlaveShapes, Serving
  <2>1. b = [a EXCEPT !.ttl = Passed(a.ttl)]
    BY <1>2
  <2> HIDE DEF a, b
  <2>2. /\ SlaveShape(b) /\ b.pending = a.pending /\ b.ttl = Passed(a.ttl)
        /\ b.total = a.total /\ b.enabled = a.enabled /\ b.limit = a.limit
        /\ b.rev = a.rev /\ b.gen = a.gen /\ b.phase = a.phase
    BY <1>1, <2>0, <2>1 DEF SlaveShape, Fields
  <2>3. View(e, b) = View(e, a) \/ View(e, b) = Nobody
    BY <1>1, <2>0, <2>2, ViewEnds DEF SlaveShape
  <2>4. Serves(e, b, rollout, live[e])
    BY <2>0, <2>2, <2>3 DEF Serves
  <2> QED BY <2>2, <2>4 DEF b
<1>4. SlaveShapes' /\ Serving'
  BY <1>2, <1>3 DEF SlaveShapes, Serving
<1>5. GrantShapes'
  BY <1>1, <1>2 DEF GrantShapes, GrantShape
<1> QED BY <1>4, <1>5

\* The accounts stay numbers whatever administrators do.
LEMMA NumbersEdit ==
  ASSUME Numbers, Edit
  PROVE  Numbers'
<1>1. CASE \E n \in Node : RotateLink(n)
  <2> PICK n \in Node : RotateLink(n)
    BY <1>1
  <2> DEFINE h == Home(n)
             i == issued[n]
             row == [base[h][n] EXCEPT ![i + 1] = base[h][n][i], ![i] = 0]
  <2>1. i \in Gen /\ i + 1 \in 1 .. MaxGen /\ i + 1 \in Gen /\ h \in Entry
    BY GenAssumption, HomeIsEntry DEF RotateLink, Numbers, Gen
  <2>2. base[h][n] \in [Gen -> Nat]
    BY <2>1 DEF Numbers
  <2>3. row \in [Gen -> Nat]
    <3>1. base[h][n][i] \in Nat /\ 0 \in Nat
      BY <2>1, <2>2
    <3> HIDE DEF h, i
    <3> QED BY <2>2, <3>1
  <2>4. base' = [base EXCEPT ![h] = [base[h] EXCEPT ![n] = row]]
    BY DEF RotateLink, MovedBaseline, Baseline
  <2>5. [base[h] EXCEPT ![n] = row] \in [Node -> [Gen -> Nat]]
    <3> HIDE DEF row
    <3> QED BY <2>1, <2>3 DEF Numbers
  <2>6. base' \in [Entry -> [Node -> [Gen -> Nat]]]
    <3> HIDE DEF row, h
    <3> QED BY <2>1, <2>4, <2>5 DEF Numbers
  <2>7. issued' \in [Node -> 1 .. MaxGen]
    BY <2>1 DEF RotateLink, Numbers
  <2> QED BY <2>6, <2>7 DEF Numbers, RotateLink
<1>2. CASE \E n \in Node : Rotate(n) \/ Assign(n)
  <2> PICK n \in Node : Rotate(n) \/ Assign(n)
    BY <1>2
  <2>1. issued[n] + 1 \in 1 .. MaxGen
    BY GenAssumption DEF Rotate, Assign, Numbers
  <2>2. /\ issued' = [issued EXCEPT ![n] = issued[n] + 1]
        /\ UNCHANGED <<base, used, plan, rollout>>
    BY DEF Rotate, Assign
  <2> QED BY <2>1, <2>2 DEF Numbers
<1>3. CASE \E n \in Node : Unassign(n)
  BY <1>3 DEF Unassign, Numbers
<1>4. CASE SetEnabled
  BY <1>4 DEF SetEnabled, Numbers
<1>5. CASE ResetTraffic
  BY <1>5 DEF ResetTraffic, Numbers
<1> QED BY <1>1, <1>2, <1>3, <1>4, <1>5 DEF Edit

LEMMA NumbersRollout ==
  ASSUME Numbers, StartRollout \/ GiveUp \/ Decide \/ EndRollout
  PROVE  Numbers'
<1>1. CASE StartRollout
  BY <1>1 DEF StartRollout, Numbers
<1>2. CASE GiveUp
  BY <1>2 DEF GiveUp, Numbers
<1>3. CASE Decide
  BY <1>3, PlanAssumption DEF Decide, Numbers, Plan
<1>4. CASE EndRollout
  BY <1>4 DEF EndRollout, Numbers
<1> QED BY <1>1, <1>2, <1>3, <1>4

\* The decision turns, or the rollout begins or ends, with what is half-done
\* at a slave only becoming more, and with nothing half-done at the end.
LEMMA ServingDecision ==
  ASSUME Serving, StartRollout \/ GiveUp \/ Decide \/ EndRollout
  PROVE  Serving'
<1>1. UNCHANGED <<slave, live>>
  BY DEF StartRollout, GiveUp, Decide, EndRollout
<1>2. \A e \in Entry : HalfDone(slave[e].phase, rollout) => HalfDone(slave[e].phase, rollout')
  BY DEF StartRollout, GiveUp, Decide, EndRollout, HalfDone
<1> QED BY <1>1, <1>2 DEF Serving, Serves

LEMMA ServingMerge ==
  ASSUME Numbers, SlaveShapes, GrantShapes, ReportShapes, NEW p \in Sync, Merge(p)
  PROVE  Numbers' /\ GrantShapes' /\ ReportShapes'
<1> PICK r \in proc[p].report :
      /\ base' = MergedBase(r)
      /\ used' = used + AddedInAll(r)
      /\ grants' = grants \cup {BuiltGrant(r.entry, used')}
      /\ proc' = [proc EXCEPT ![p].report = {}]
  BY DEF Merge
<1>0. UNCHANGED <<issued, plan, rollout>>
  BY DEF Merge
<1>1. r.entry \in Entry /\ \A n \in Node : r.bytes[n] \in Nat
  BY DEF ReportShapes, ReportShape
<1>2. \A n \in Node : issued[n] \in Gen /\ Baseline(n) \in Nat
  <2>1. \A n \in Node : issued[n] \in Gen
    BY DEF Numbers, Gen
  <2>2. \A n \in Node : Home(n) \in Entry
    BY HomeIsEntry DEF Numbers
  <2> QED BY <2>1, <2>2 DEF Baseline, Numbers
<1>3. \A n \in Node : Added(r)[n] \in Nat /\ Max2(r.bytes[n], Baseline(n)) \in Nat
  BY <1>1, <1>2 DEF Added, Max2
<1>4. AddedInAll(r) \in Nat
  <2> DEFINE added == Added(r)
  <2>1. \A n \in Node : added[n] \in Nat
    BY <1>3
  <2>2. AddedInAll(r) = SumOver(Node, added)
    BY DEF AddedInAll, SumOver, MapThenSumSet, MapThenFoldSet
  <2> HIDE DEF added
  <2> QED BY <2>1, <2>2, NodeAssumption, SumIsNat
<1>5. used' \in Nat
  BY <1>4 DEF Numbers
<1>6. base' \in [Entry -> [Node -> [Gen -> Nat]]]
  <2> DEFINE row == [n \in Node |->
                       IF n \in Reported(r)
                       THEN [base[r.entry][n] EXCEPT ![issued[n]] = Max2(r.bytes[n], Baseline(n))]
                       ELSE base[r.entry][n]]
  <2>1. \A n \in Node : row[n] \in [Gen -> Nat]
    <3> SUFFICES ASSUME NEW n \in Node PROVE row[n] \in [Gen -> Nat]
      OBVIOUS
    <3>1. base[r.entry][n] \in [Gen -> Nat]
      BY <1>1 DEF Numbers
    <3> DEFINE top == Max2(r.bytes[n], Baseline(n))
    <3>2. top \in Nat /\ issued[n] \in Gen
      BY <1>2, <1>3
    <3> HIDE DEF top
    <3>3. [base[r.entry][n] EXCEPT ![issued[n]] = top] \in [Gen -> Nat]
      BY <3>1, <3>2
    <3> QED BY <3>1, <3>3 DEF top
  <2>2. row \in [Node -> [Gen -> Nat]] /\ base' = [base EXCEPT ![r.entry] = row]
    BY <2>1 DEF MergedBase
  <2> HIDE DEF row
  <2> QED BY <1>1, <2>2 DEF Numbers
<1>7. GrantShape(BuiltGrant(r.entry, used'))
  <2> DEFINE left == Max2(used', Quota) - used'
             share == IF Quota = 0 THEN 0 ELSE Max2(1, left \div Members)
  <2>1. left \in Nat /\ Members \in Nat \ {0} /\ Lease \in Nat
    BY <1>5, MembersAssumption, NumberAssumption DEF Max2
  <2>2. share \in Nat
    <3> HIDE DEF left
    <3>1. left \div Members \in Nat
      BY <2>1
    <3> QED BY <3>1 DEF Max2
  <2> QED BY <1>1, <2>1, <2>2 DEF BuiltGrant, GrantShape
<1>8. GrantShapes'
  BY <1>7 DEF GrantShapes
<1>9. ReportShapes'
  BY DEF ReportShapes
<1> QED BY <1>0, <1>5, <1>6, <1>8, <1>9 DEF Numbers

LEMMA ReportShapesStep ==
  ASSUME ReportShapes, SlaveShapes, NEW p \in Sync,
         Begin(p) \/ MergeRefused(p) \/ \E e \in Entry : Ask(p, e) \/ NoAnswer(p, e)
  PROVE  ReportShapes'
<1>1. CASE Begin(p) \/ MergeRefused(p)
  BY <1>1 DEF Begin, MergeRefused, ReportShapes
<1>2. CASE \E e \in Entry : Ask(p, e)
  <2> PICK e \in Entry : Ask(p, e)
    BY <1>2
  <2> DEFINE r == [entry |-> e, rev |-> slave[e].rev, gen |-> slave[e].gen,
                   bytes |-> slave[e].bytes]
  <2>1. ReportShape(r)
    BY DEF ReportShape, SlaveShapes, SlaveShape
  <2>2. proc' = [proc EXCEPT ![p] = [todo |-> proc[p].todo \ {e}, report |-> {r}]]
    BY DEF Ask
  <2> HIDE DEF r
  <2> QED BY <2>1, <2>2 DEF ReportShapes
<1>3. CASE \E e \in Entry : NoAnswer(p, e)
  BY <1>3 DEF NoAnswer, ReportShapes
<1> QED BY <1>1, <1>2, <1>3

LEMMA ServingStep ==
  ASSUME ServingInv, [Next]_vars
  PROVE  ServingInv'
<1> USE DEF ServingInv
<1>0. /\ UNCHANGED <<slave, live>> => SlaveShapes'
      /\ UNCHANGED <<slave, live, rollout>> => Serving'
      /\ grants' \subseteq grants => GrantShapes'
      /\ UNCHANGED proc => ReportShapes'
      /\ UNCHANGED <<issued, base, used, plan, rollout>> => Numbers'
  BY DEF SlaveShapes, Serving, GrantShapes, ReportShapes, Numbers
<1>1. CASE UNCHANGED vars
  BY <1>0, <1>1 DEF vars
<1>2. CASE Edit
  <2>1. UNCHANGED <<slave, live, grants, proc>>
    BY <1>2 DEF Edit, SetEnabled, ResetTraffic, RotateLink, Rotate, Unassign, Assign
  <2>2. rollout' = rollout
    BY <1>2 DEF Edit, SetEnabled, ResetTraffic, RotateLink, Rotate, Unassign, Assign
  <2> QED BY <1>0, <1>2, <2>1, <2>2, NumbersEdit
<1>3. CASE Delivery
  <2> PICK g \in grants : Lost(g) \/ \E result \in Result : Install(g, result)
    BY <1>3 DEF Delivery
  <2>1. UNCHANGED <<issued, base, used, plan, rollout, proc>> /\ grants' \subseteq grants
    BY DEF Lost, Install, master
  <2>2. CASE Lost(g)
    BY <1>0, <2>1, <2>2 DEF Lost
  <2>3. CASE \E result \in Result : Install(g, result)
    BY <1>0, <2>1, <2>3, ServingInstall DEF GrantShapes
  <2> QED BY <2>2, <2>3
<1>4. CASE RolloutStep
  <2>1. CASE StartRollout \/ GiveUp \/ Decide \/ EndRollout
    <3>1. UNCHANGED <<slave, live, grants, proc>>
      BY <2>1 DEF StartRollout, GiveUp, Decide, EndRollout
    <3> QED BY <1>0, <2>1, <3>1, NumbersRollout, ServingDecision
  <2>2. CASE \E e \in Entry : RolloutAt(e)
    <3>1. UNCHANGED <<issued, base, used, plan, rollout, grants, proc>>
      BY <2>2, RolloutAtSlave DEF SlaveShapes, SlaveShape, Fields, master
    <3> QED BY <1>0, <2>2, <3>1, ServingSlave
  <2> QED BY <1>4, <2>1, <2>2 DEF RolloutStep
<1>5. CASE Tick
  BY <1>0, <1>5, ServingTick DEF Tick, master
<1>6. CASE \E p \in Sync : Synchronise(p)
  <2> PICK p \in Sync : Synchronise(p)
    BY <1>6
  <2>1. CASE Merge(p)
    <3>1. UNCHANGED <<slave, live, rollout>>
      BY <2>1 DEF Merge
    <3> QED BY <1>0, <2>1, <3>1, ServingMerge
  <2>2. CASE Begin(p) \/ MergeRefused(p) \/ \E e \in Entry : Ask(p, e) \/ NoAnswer(p, e)
    <3>1. UNCHANGED <<issued, base, used, plan, rollout, slave, live, grants>>
      BY <2>2 DEF Begin, MergeRefused, Ask, NoAnswer, master
    <3> QED BY <1>0, <2>2, <3>1, ReportShapesStep
  <2> QED BY <2>1, <2>2 DEF Synchronise
<1>7. CASE \E e \in Entry : SlaveStep(e)
  <2> PICK e \in Entry : SlaveStep(e)
    BY <1>7
  <2>1. UNCHANGED <<issued, base, used, plan, rollout, grants, proc>>
    BY DEF SlaveStep, RetryApply, LeaseCycle, Measure, master
  <2> QED BY <1>0, <2>1, ServingSlave DEF SlaveStep
<1> QED BY <1>1, <1>2, <1>3, <1>4, <1>5, <1>6, <1>7 DEF Next

\* Whatever administrators do, whatever is lost, late or expires, and wherever
\* an apply, its undo or a save fails: when nothing waits to be applied at an
\* entry, no commit or rollback there is half-done, and its state lets
\* identities in, its sing-box authenticates exactly those. Between a commit
\* or rollback that stopped half-way and the recovery that repeats it nothing
\* is promised: the agent raises no flag for the daemon (mesh_agent.go:184-208).
THEOREM ServesWhatItWasGranted == Spec => []ServesItsGrant
<1>1. ServingInv => ServesItsGrant
  BY DEF ServingInv, Serving, Serves, ServesItsGrant, Settled
<1> QED BY <1>1, ServingInit, ServingStep, PTL DEF Spec
================================================================================
