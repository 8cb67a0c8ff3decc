------------------------------ MODULE MeshRollout ------------------------------
(***************************************************************************)
(* Applying a multi-server topology: the coordinator on the master         *)
(* (cmd/sbmgr/mesh_coordinator.go) and the transaction journal that each   *)
(* member keeps (cmd/sbmgr/mesh_agent.go, mesh_state.go, mesh_runtime.go). *)
(*                                                                         *)
(* The coordinator is a command, "admin mesh apply" or "admin mesh         *)
(* recover", run by an operator or by the web backend; Coord is the set of *)
(* such processes that can run at the same time.  Every exchange with a    *)
(* slave is one ssh command with a 45 s timeout: the answer can be lost,   *)
(* and the remote process, once started, may still be waiting for the      *)
(* slave's state lock when the coordinator has given up on it.  Exchanges  *)
(* with the master's own agent are direct calls.                           *)
(*                                                                         *)
(* A handler runs under the member's state lock, so it is one step here;   *)
(* where it can stop half-way (after the durable "committing" record, or   *)
(* after sing-box was reloaded and before the last save) the step has the  *)
(* corresponding outcomes.  A plan is identified with its revision: every  *)
(* change of the topology that reaches a plan increments Mesh.Revision.    *)
(***************************************************************************)
EXTENDS Naturals

CONSTANTS
  Member,       \* Topology.Members, the master included
  Master,       \* Topology.Master
  Rank,         \* position of a member in Topology.Members
  Coord,        \* processes that run "mesh apply" or "mesh recover"
  Tx,           \* transaction identifiers
  NoTx,         \* the empty identifier
  Late,         \* operations whose abandoned request may still run later
  MaxRevision,  \* bound: revisions the topology reaches
  MaxFaults     \* bound: timeouts, crashes and failed saves or reloads

ASSUME MasterAssumption == Master \in Member
ASSUME RankAssumption == Rank \in [Member -> Nat]
ASSUME TxAssumption == NoTx \notin Tx
ASSUME BoundAssumption == MaxRevision \in Nat \ {0} /\ MaxFaults \in Nat

VARIABLES
  revision,   \* Mesh.Revision in the master's state
  journal,    \* MeshRollout in the master's state, NoRollout when nil
  agent,      \* MeshAgent in each member's state
  runtime,    \* the plan each member's sing-box runs
  pc,         \* where each coordinator process stands
  job,        \* its rollout variable
  todo,       \* members its current loop has not called yet
  failed,     \* the failures of meshFinishRollout are not empty
  call,       \* the exchange it is waiting for
  late,       \* requests given up by their coordinator and still alive
  begun,      \* history: identifiers already used
  decided,    \* history: transactions with a saved "finalize" decision
  outcome,    \* history: how a transaction ended at a member
  faults      \* faults so far

coordVars == <<pc, job, todo, failed>>
history == <<begun, decided, outcome>>
vars == <<revision, journal, agent, runtime, pc, job, todo, failed, call,
          late, begun, decided, outcome, faults>>

--------------------------------------------------------------------------------
(* Data *)

Op == {"prepare", "commit", "rollback", "finalize"}
Decision == {"rollback", "finalize"}
Revision == 0 .. MaxRevision      \* 0 stands for a nil plan
Broken == MaxRevision + 1         \* a reload and its undo both failed
TxId == Tx \cup {NoTx}

Rollout == [tx : TxId, rev : Revision, decision : Decision]
NoRollout == [tx |-> NoTx, rev |-> 0, decision |-> "rollback"]

Request == [op : Op, tx : Tx, member : Member, rev : Revision]
Call == [req : Request, answer : {"pending", "ok", "error"}]
NoCall == [req |-> [op |-> "rollback", tx |-> NoTx, member |-> Master, rev |-> 0],
           answer |-> "none"]

AgentState ==
  [active : Revision, pending : Revision, previous : Revision,
   tx : TxId, phase : {"", "prepared", "committing", "committed"},
   lastTx : TxId, lastOutcome : {"", "rolled-back", "finalized"}]

Joined == [active |-> 0, pending |-> 0, previous |-> 0, tx |-> NoTx,
           phase |-> "", lastTx |-> NoTx, lastOutcome |-> ""]

Place == {"idle", "begin", "prepare", "commit", "decide", "finish", "clear"}

Outcome == [tx : Tx, member : Member, rev : Revision,
            how : {"rolled-back", "finalized"}]

TypeOK ==
  /\ revision \in Revision
  /\ journal \in Rollout
  /\ agent \in [Member -> AgentState]
  /\ runtime \in [Member -> Revision \cup {Broken}]
  /\ pc \in [Coord -> Place]
  /\ job \in [Coord -> Rollout]
  /\ \A c \in Coord : pc[c] \notin {"idle", "begin"} => job[c].tx \in Tx
  /\ todo \in [Coord -> SUBSET Member]
  /\ failed \in [Coord -> BOOLEAN]
  /\ call \in [Coord -> Call \cup {NoCall}]
  /\ late \subseteq Request
  /\ begun \subseteq Tx
  /\ decided \subseteq Tx
  /\ outcome \subseteq Outcome
  /\ faults \in Nat

\* "mesh init" on the master, "mesh join" on every slave, no plan applied yet.
Init ==
  /\ revision = 1
  /\ journal = NoRollout
  /\ agent = [m \in Member |-> Joined]
  /\ runtime = [m \in Member |-> 0]
  /\ pc = [c \in Coord |-> "idle"]
  /\ job = [c \in Coord |-> NoRollout]
  /\ todo = [c \in Coord |-> {}]
  /\ failed = [c \in Coord |-> FALSE]
  /\ call = [c \in Coord |-> NoCall]
  /\ late = {}
  /\ begun = {} /\ decided = {} /\ outcome = {}
  /\ faults = 0

Fault == faults < MaxFaults /\ faults' = faults + 1

--------------------------------------------------------------------------------
(* The agent: meshExecute.  A request reaches it either from the exchange a   *)
(* coordinator is waiting for, whose answer it then becomes, or after that    *)
(* coordinator has gone, and nobody reads the answer.                         *)

InFlight(r) == r \in late \/ \E c \in Coord : call[c] = [req |-> r, answer |-> "pending"]

Arrives(r, answer) ==
  \/ /\ r \in late
     /\ late' = late \ {r}
     /\ UNCHANGED call
  \/ \E c \in Coord :
       /\ call[c] = [req |-> r, answer |-> "pending"]
       /\ call' = [call EXCEPT ![c].answer = answer]
       /\ UNCHANGED late

Ended(j, r) == j.tx = NoTx /\ j.lastTx = r.tx

\* As if a rollback is refused by a member that never prepared.
RepeatedNeedsPrepare(j, r) ==
  \/ Ended(j, r) /\ r.op = "finalize" /\ j.lastOutcome = "finalized"
  \/ Ended(j, r) /\ r.op = "rollback" /\ j.lastOutcome = "rolled-back"
  \/ j.tx = r.tx /\ r.op = "prepare" /\ j.pending = r.rev
  \/ j.tx = r.tx /\ r.op = "commit" /\ j.phase = "committed"

\* A repeated request that is answered without touching the state.
Repeated(j, r) ==
  \/ Ended(j, r) /\ r.op = "finalize" /\ j.lastOutcome = "finalized"
  \/ Ended(j, r) /\ r.op = "rollback" /\ j.lastOutcome = "rolled-back"
  \/ j.tx = NoTx /\ ~Ended(j, r) /\ r.op = "rollback"
  \/ j.tx = r.tx /\ r.op = "prepare" /\ j.pending = r.rev
  \/ j.tx = r.tx /\ r.op = "commit" /\ j.phase = "committed"

\* As if the candidate's revision is not compared with the active one.
AcceptedAnyRevision(j, r) ==
  \/ r.op = "prepare" /\ j.tx = NoTx /\ ~Ended(j, r)
  \/ r.op = "commit" /\ j.tx = r.tx /\ j.phase # "committed"
  \/ r.op = "rollback" /\ j.tx = r.tx
  \/ r.op = "finalize" /\ j.tx = r.tx /\ j.phase = "committed"

\* A request that passes every check of the agent itself.
Accepted(j, r) ==
  \/ r.op = "prepare" /\ j.tx = NoTx /\ ~Ended(j, r) /\ r.rev > j.active
  \/ r.op = "commit" /\ j.tx = r.tx /\ j.phase # "committed"
  \/ r.op = "rollback" /\ j.tx = r.tx
  \/ r.op = "finalize" /\ j.tx = r.tx /\ j.phase = "committed"

\* As if a rollback restores only the phase after the commit.
SwitchedCommitted(j) == j.phase = "committed"

Switched(j) == j.phase \in {"committing", "committed"}

\* As if prepare does not keep the plan to go back to.
PreparedNoPrevious(j, r) ==
  [j EXCEPT !.pending = r.rev, !.tx = r.tx, !.phase = "prepared"]

Prepared(j, r) ==
  [j EXCEPT !.pending = r.rev, !.previous = j.active, !.tx = r.tx, !.phase = "prepared"]
Committing(j) == [j EXCEPT !.phase = "committing"]
Committed(j) == [j EXCEPT !.active = j.pending, !.phase = "committed"]
Closed(j, how) ==
  [j EXCEPT !.pending = 0, !.previous = 0, !.tx = NoTx, !.phase = "",
            !.lastTx = j.tx, !.lastOutcome = how]
RolledBack(j) ==
  Closed([j EXCEPT !.active = IF Switched(j) THEN j.previous ELSE j.active], "rolled-back")

Record(m, how) ==
  outcome' = outcome \cup
    {[tx |-> agent[m].tx, member |-> m, rev |-> agent[m].pending, how |-> how]}

AgentAnswers(r) ==
  LET j == agent[r.member] IN
  /\ InFlight(r)
  /\ \/ Repeated(j, r) /\ Arrives(r, "ok")
     \/ ~Repeated(j, r) /\ ~Accepted(j, r) /\ Arrives(r, "error")
  /\ UNCHANGED <<revision, journal, agent, runtime, coordVars, history, faults>>

AgentPrepares(r) ==
  LET j == agent[r.member] IN
  /\ InFlight(r) /\ r.op = "prepare" /\ Accepted(j, r)
  /\ agent' = [agent EXCEPT ![r.member] = Prepared(j, r)]
  /\ Arrives(r, "ok")
  /\ UNCHANGED <<revision, journal, runtime, coordVars, history, faults>>

\* sing-box or nftables reject the candidate, or the backup or the save fails.
AgentRefusesCandidate(r) ==
  /\ InFlight(r) /\ r.op = "prepare" /\ Accepted(agent[r.member], r)
  /\ Arrives(r, "error")
  /\ UNCHANGED <<revision, journal, agent, runtime, coordVars, history, faults>>

AgentCommits(r) ==
  LET j == agent[r.member] IN
  /\ InFlight(r) /\ r.op = "commit" /\ Accepted(j, r)
  /\ agent' = [agent EXCEPT ![r.member] = Committed(j)]
  /\ runtime' = [runtime EXCEPT ![r.member] = j.pending]
  /\ Arrives(r, "ok")
  /\ UNCHANGED <<revision, journal, coordVars, history, faults>>

\* The commit stops after its durable "committing" record: before the reload,
\* after a reload that failed and was undone (or could not be), or after the
\* reload and before the last save.
AgentCommitStops(r) ==
  LET j == agent[r.member] IN
  /\ InFlight(r) /\ r.op = "commit" /\ Accepted(j, r)
  /\ Fault
  /\ agent' = [agent EXCEPT ![r.member] = Committing(j)]
  /\ \E run \in {runtime[r.member], j.previous, j.pending, Broken} :
       runtime' = [runtime EXCEPT ![r.member] = run]
  /\ Arrives(r, "error")
  /\ UNCHANGED <<revision, journal, coordVars, history>>

AgentRollsBack(r) ==
  LET j == agent[r.member] IN
  /\ InFlight(r) /\ r.op = "rollback" /\ Accepted(j, r)
  /\ agent' = [agent EXCEPT ![r.member] = RolledBack(j)]
  /\ runtime' = IF Switched(j)
                  THEN [runtime EXCEPT ![r.member] = j.previous]
                  ELSE runtime
  /\ Record(r.member, "rolled-back")
  /\ Arrives(r, "ok")
  /\ UNCHANGED <<revision, journal, coordVars, begun, decided, faults>>

\* The rollback stops before its save; only the running plan may have changed.
AgentRollbackStops(r) ==
  LET j == agent[r.member]
      current == IF j.active = 0 THEN j.pending ELSE j.active
  IN
  /\ InFlight(r) /\ r.op = "rollback" /\ Accepted(j, r)
  /\ Fault
  /\ \E run \in {runtime[r.member]} \cup
                (IF Switched(j) THEN {j.previous, current, Broken} ELSE {}) :
       runtime' = [runtime EXCEPT ![r.member] = run]
  /\ Arrives(r, "error")
  /\ UNCHANGED <<revision, journal, agent, coordVars, history>>

AgentFinalizes(r) ==
  LET j == agent[r.member] IN
  /\ InFlight(r) /\ r.op = "finalize" /\ Accepted(j, r)
  /\ agent' = [agent EXCEPT ![r.member] = Closed(j, "finalized")]
  /\ Record(r.member, "finalized")
  /\ Arrives(r, "ok")
  /\ UNCHANGED <<revision, journal, runtime, coordVars, begun, decided, faults>>

AgentFinalizeStops(r) ==
  /\ InFlight(r) /\ r.op = "finalize" /\ Accepted(agent[r.member], r)
  /\ Fault
  /\ Arrives(r, "error")
  /\ UNCHANGED <<revision, journal, agent, runtime, coordVars, history>>

\* Any later apply on the member (its daemon, an operator) renders Active.
LocalApply(m) ==
  /\ runtime[m] # agent[m].active
  /\ runtime' = [runtime EXCEPT ![m] = agent[m].active]
  /\ UNCHANGED <<revision, journal, agent, coordVars, call, late, history, faults>>

AgentNext(r) ==
  \/ AgentAnswers(r)
  \/ AgentPrepares(r) \/ AgentRefusesCandidate(r)
  \/ AgentCommits(r) \/ AgentCommitStops(r)
  \/ AgentRollsBack(r) \/ AgentRollbackStops(r)
  \/ AgentFinalizes(r) \/ AgentFinalizeStops(r)

--------------------------------------------------------------------------------
(* The coordinator: meshCoordinate and meshFinishRollout                      *)

Goto(c, place) == pc' = [pc EXCEPT ![c] = place]

\* The process returns and its variables are gone.
Leave(c) ==
  /\ Goto(c, "idle")
  /\ job' = [job EXCEPT ![c] = NoRollout]
  /\ todo' = [todo EXCEPT ![c] = {}]
  /\ failed' = [failed EXCEPT ![c] = FALSE]

\* A loop of the coordinator moves on to its next member, or to its end.
Continue(c, rest) ==
  /\ todo' = [todo EXCEPT ![c] = rest]
  /\ UNCHANGED <<pc, job, failed>>

Enter(c, place, members) ==
  /\ Goto(c, place)
  /\ todo' = [todo EXCEPT ![c] = members]
  /\ UNCHANGED <<job, failed>>

\* meshFinishRollout starts: the decision goes to every member of the rollout.
StartFinish(c, rollout) ==
  /\ Goto(c, "finish")
  /\ job' = [job EXCEPT ![c] = rollout]
  /\ todo' = [todo EXCEPT ![c] = Member]
  /\ failed' = [failed EXCEPT ![c] = FALSE]

\* Every change of the topology saves Revision + 1, unless a rollout is open.
Edit ==
  /\ journal.tx = NoTx /\ agent[Master].tx = NoTx
  /\ revision < MaxRevision
  /\ revision' = revision + 1
  /\ UNCHANGED <<journal, agent, runtime, coordVars, call, late, history, faults>>

\* "apply" reads the state without the lock ...
Load(c) ==
  /\ pc[c] = "idle"
  /\ journal.tx = NoTx
  /\ agent[Master].active # revision
  /\ Goto(c, "begin")
  /\ job' = [job EXCEPT ![c] = [NoRollout EXCEPT !.rev = revision]]
  /\ UNCHANGED <<revision, journal, agent, runtime, todo, failed, call, late, history, faults>>

\* As if the journal is created without its decision.
PersistUndecided(c, t) ==
  LET rollout == [tx |-> t, rev |-> revision, decision |-> ""] IN
  /\ pc[c] = "begin"
  /\ journal.tx = NoTx /\ revision = job[c].rev
  /\ t \notin begun
  /\ journal' = rollout
  /\ job' = [job EXCEPT ![c] = rollout]
  /\ begun' = begun \cup {t}
  /\ Goto(c, "prepare")
  /\ todo' = [todo EXCEPT ![c] = Member]
  /\ UNCHANGED <<revision, agent, runtime, failed, call, late, decided, outcome, faults>>

\* ... and checks it again under the lock before it saves its journal.
Persist(c, t) ==
  LET rollout == [tx |-> t, rev |-> revision, decision |-> "rollback"] IN
  /\ pc[c] = "begin"
  /\ journal.tx = NoTx /\ revision = job[c].rev
  /\ t \notin begun
  /\ journal' = rollout
  /\ job' = [job EXCEPT ![c] = rollout]
  /\ begun' = begun \cup {t}
  /\ Goto(c, "prepare")
  /\ todo' = [todo EXCEPT ![c] = Member]
  /\ UNCHANGED <<revision, agent, runtime, failed, call, late, decided, outcome, faults>>

PersistRefused(c) ==
  /\ pc[c] = "begin"
  /\ journal.tx # NoTx \/ revision # job[c].rev \/ begun = Tx
  /\ Leave(c)
  /\ UNCHANGED <<revision, journal, agent, runtime, call, late, history, faults>>

\* As if "recover" always rolls back.
RecoverBackwards(c) ==
  /\ pc[c] = "idle"
  /\ journal.tx # NoTx
  /\ StartFinish(c, [journal EXCEPT !.decision = "rollback"])
  /\ UNCHANGED <<revision, journal, agent, runtime, call, late, history, faults>>

\* "recover" takes the journal as it reads it, without the lock.
Recover(c) ==
  /\ pc[c] = "idle"
  /\ journal.tx # NoTx
  /\ StartFinish(c, journal)
  /\ UNCHANGED <<revision, journal, agent, runtime, call, late, history, faults>>

\* As if commits go through the members in their order.
TurnForward(c, m) ==
  /\ m \in todo[c]
  /\ \A n \in todo[c] : Rank[m] <= Rank[n]

\* The member a loop calls next: the order of Topology.Members, except that
\* commits go through it backwards and leave the master for the end.
Turn(c, m) ==
  /\ m \in todo[c]
  /\ IF pc[c] = "commit"
       THEN /\ m = Master => todo[c] = {Master}
            /\ m # Master => \A n \in todo[c] \ {Master} : Rank[n] <= Rank[m]
       ELSE \A n \in todo[c] : Rank[m] <= Rank[n]

Send(c, m) ==
  /\ pc[c] \in {"prepare", "commit", "finish"}
  /\ call[c] = NoCall
  /\ Turn(c, m)
  /\ call' = [call EXCEPT ![c] =
       [req |-> [op |-> IF pc[c] = "finish" THEN job[c].decision ELSE pc[c],
                 tx |-> job[c].tx, member |-> m,
                 rev |-> IF pc[c] = "prepare" THEN job[c].rev ELSE 0],
        answer |-> "pending"]]
  /\ UNCHANGED <<revision, journal, agent, runtime, coordVars, late, history, faults>>

Rest(c) == todo[c] \ {call[c].req.member}

Succeeded(c) ==
  /\ call[c].answer = "ok"
  /\ call' = [call EXCEPT ![c] = NoCall]
  /\ \/ Rest(c) # {} /\ Continue(c, Rest(c))
     \/ Rest(c) = {} /\ pc[c] = "prepare" /\ Enter(c, "commit", Member)
     \/ Rest(c) = {} /\ pc[c] = "commit" /\ Enter(c, "decide", {})
     \/ Rest(c) = {} /\ pc[c] = "finish" /\ ~failed[c] /\ Enter(c, "clear", {})
     \/ Rest(c) = {} /\ pc[c] = "finish" /\ failed[c] /\ Leave(c)
  /\ UNCHANGED <<revision, journal, agent, runtime, late, history, faults>>

\* As if a failed finish is not remembered.
GivesUpForgets(c) ==
  /\ call' = [call EXCEPT ![c] = NoCall]
  /\ \/ pc[c] \in {"prepare", "commit"} /\ StartFinish(c, job[c])
     \/ pc[c] = "finish" /\ Rest(c) = {} /\ Leave(c)
     \/ pc[c] = "finish" /\ Rest(c) # {} /\ Continue(c, Rest(c))

\* What the coordinator does without a good answer: an open rollout is rolled
\* back everywhere, a finish goes on to the next member and keeps the journal.
GivesUp(c) ==
  /\ call' = [call EXCEPT ![c] = NoCall]
  /\ \/ pc[c] \in {"prepare", "commit"} /\ StartFinish(c, job[c])
     \/ pc[c] = "finish" /\ Rest(c) = {} /\ Leave(c)
     \/ /\ pc[c] = "finish" /\ Rest(c) # {}
        /\ todo' = [todo EXCEPT ![c] = Rest(c)]
        /\ failed' = [failed EXCEPT ![c] = TRUE]
        /\ UNCHANGED <<pc, job>>

Refused(c) ==
  /\ call[c].answer = "error"
  /\ GivesUp(c)
  /\ UNCHANGED <<revision, journal, agent, runtime, late, history, faults>>

\* A request nobody waits for is gone, or still runs at its member later.
Abandon(c) ==
  LET r == call[c].req IN
  \/ UNCHANGED late
  \/ /\ call[c].answer = "pending" /\ r.member # Master /\ r.op \in Late
     /\ late' = late \cup {r}

\* The ssh command fails or times out, before or after the agent has run.
TimedOut(c) ==
  /\ call[c].answer \in {"pending", "ok"}
  /\ call[c].req.member # Master
  /\ Fault
  /\ Abandon(c)
  /\ GivesUp(c)
  /\ UNCHANGED <<revision, journal, agent, runtime, history>>

\* As if the rollout in memory keeps its old decision.
DecideOnDiskOnly(c) ==
  /\ pc[c] = "decide"
  /\ journal.tx = job[c].tx
  /\ journal' = [journal EXCEPT !.decision = "finalize"]
  /\ decided' = decided \cup {journal.tx}
  /\ StartFinish(c, job[c])
  /\ UNCHANGED <<revision, agent, runtime, call, late, begun, outcome, faults>>

\* All members have committed: save the decision, if the journal is still ours.
Decide(c) ==
  /\ pc[c] = "decide"
  /\ journal.tx = job[c].tx
  /\ journal' = [journal EXCEPT !.decision = "finalize"]
  /\ decided' = decided \cup {journal.tx}
  /\ StartFinish(c, [job[c] EXCEPT !.decision = "finalize"])
  /\ UNCHANGED <<revision, agent, runtime, call, late, begun, outcome, faults>>

DecideFails(c) ==
  /\ pc[c] = "decide"
  /\ \/ journal.tx # job[c].tx /\ UNCHANGED faults
     \/ journal.tx = job[c].tx /\ Fault
  /\ StartFinish(c, job[c])
  /\ UNCHANGED <<revision, journal, agent, runtime, call, late, history>>

\* Every member has ended the transaction: remove the journal if still ours.
Clear(c) ==
  /\ pc[c] = "clear"
  /\ journal' = IF journal.tx = job[c].tx THEN NoRollout ELSE journal
  /\ Leave(c)
  /\ UNCHANGED <<revision, agent, runtime, call, late, history, faults>>

\* The coordinator process dies; its pending request may outlive it.
Crash(c) ==
  /\ pc[c] # "idle"
  /\ Fault
  /\ Abandon(c)
  /\ Leave(c)
  /\ call' = [call EXCEPT ![c] = NoCall]
  /\ UNCHANGED <<revision, journal, agent, runtime, history>>

CoordNext(c) ==
  \/ Load(c) \/ \E t \in Tx : Persist(c, t)
  \/ PersistRefused(c) \/ Recover(c)
  \/ \E m \in Member : Send(c, m)
  \/ Succeeded(c) \/ Refused(c) \/ TimedOut(c)
  \/ Decide(c) \/ DecideFails(c) \/ Clear(c) \/ Crash(c)

PendingRequests == {call[c].req : c \in {d \in Coord : call[d].answer = "pending"}}

Next ==
  \/ Edit
  \/ \E c \in Coord : CoordNext(c)
  \/ \E r \in late \cup PendingRequests : AgentNext(r)
  \/ \E m \in Member : LocalApply(m)

Spec == Init /\ [][Next]_vars
================================================================================
