--------------------------- MODULE MeshRolloutProofs ---------------------------
(***************************************************************************)
(* Proofs about MeshRollout for every set of members, every number of      *)
(* transactions, revisions and faults.                                     *)
(***************************************************************************)
EXTENDS MeshRolloutProps, TLAPS

--------------------------------------------------------------------------------
(* Type correctness *)

\* Executing a request only answers its exchange, or forgets a late request.
LEMMA ArrivesType ==
  ASSUME TypeOK, NEW r \in Request, NEW answer \in {"ok", "error"}, Arrives(r, answer)
  PROVE  call' \in [Coord -> Call \cup {NoCall}] /\ late' \subseteq Request
<1>1. CASE r \in late /\ late' = late \ {r} /\ UNCHANGED call
  BY <1>1 DEF TypeOK
<1>2. CASE \E c \in Coord :
             /\ call[c] = [req |-> r, answer |-> "pending"]
             /\ call' = [call EXCEPT ![c].answer = answer]
             /\ UNCHANGED late
  BY <1>2 DEF TypeOK, Call
<1> QED BY <1>1, <1>2 DEF Arrives

\* The requests that can reach an agent are requests.
LEMMA InFlightType ==
  ASSUME TypeOK, NEW r \in late \cup PendingRequests
  PROVE  r \in Request
<1>1. \A c \in Coord : call[c].answer = "pending" => call[c].req \in Request
  BY DEF TypeOK, Call, NoCall
<1> QED BY <1>1 DEF TypeOK, PendingRequests

\* A process that returns leaves well-typed variables behind.
LEMMA LeaveType ==
  ASSUME TypeOK, NEW c \in Coord, Leave(c)
  PROVE  /\ pc' \in [Coord -> Place]
         /\ \A d \in Coord : pc'[d] \notin {"idle", "begin"} => job'[d].tx \in Tx
         /\ job' \in [Coord -> Rollout]
         /\ todo' \in [Coord -> SUBSET Member]
         /\ failed' \in [Coord -> BOOLEAN]
BY BoundAssumption DEF TypeOK, Place, Leave, Goto, NoRollout, Rollout, TxId, Revision, Decision

\* So does the start of meshFinishRollout.
LEMMA StartFinishType ==
  ASSUME TypeOK, NEW c \in Coord, NEW x \in Rollout, x.tx \in Tx, StartFinish(c, x)
  PROVE  /\ pc' \in [Coord -> Place]
         /\ \A d \in Coord : pc'[d] \notin {"idle", "begin"} => job'[d].tx \in Tx
         /\ job' \in [Coord -> Rollout]
         /\ todo' \in [Coord -> SUBSET Member]
         /\ failed' \in [Coord -> BOOLEAN]
BY DEF TypeOK, Place, StartFinish, Goto

\* The agent's journal operations stay within AgentState.
LEMMA JournalType ==
  ASSUME NEW j \in AgentState, NEW r \in Request
  PROVE  /\ Prepared(j, r) \in AgentState
         /\ Committing(j) \in AgentState
         /\ Committed(j) \in AgentState
         /\ Closed(j, "finalized") \in AgentState
         /\ RolledBack(j) \in AgentState
<1>1. 0 \in Revision /\ r.rev \in Revision /\ r.tx \in TxId /\ NoTx \in TxId
  BY BoundAssumption DEF Revision, Request, TxId
<1>2. Prepared(j, r) \in AgentState
  BY <1>1 DEF AgentState, Prepared
<1>3. Committing(j) \in AgentState /\ Committed(j) \in AgentState
  BY DEF AgentState, Committing, Committed
<1>4. ASSUME NEW k \in AgentState, NEW how \in {"rolled-back", "finalized"}
      PROVE  Closed(k, how) \in AgentState
  BY <1>1, <1>4 DEF AgentState, Closed
<1>5. [j EXCEPT !.active = IF Switched(j) THEN j.previous ELSE j.active] \in AgentState
  BY DEF AgentState
<1> QED BY <1>2, <1>3, <1>4, <1>5 DEF RolledBack

\* The initial state is well typed.
LEMMA InitType == Init => TypeOK
<1> SUFFICES ASSUME Init PROVE TypeOK
  OBVIOUS
<1>1. Joined \in AgentState /\ NoRollout \in Rollout
  BY BoundAssumption DEF Joined, AgentState, NoRollout, Rollout, Revision, TxId, Decision
<1>2. 1 \in Revision /\ 0 \in Revision
  BY BoundAssumption DEF Revision
<1> QED BY <1>1, <1>2 DEF Init, TypeOK, Place

\* Every step keeps the state well typed.
LEMMA NextType == TypeOK /\ [Next]_vars => TypeOK'
<1> SUFFICES ASSUME TypeOK, [Next]_vars PROVE TypeOK'
  OBVIOUS
<1>1. CASE UNCHANGED vars
  BY <1>1 DEF vars, TypeOK
<1>2. CASE Edit
  BY <1>2, BoundAssumption DEF Edit, TypeOK, coordVars, history, Revision
<1>3. ASSUME NEW m \in Member, LocalApply(m) PROVE TypeOK'
  <2>1. agent[m].active \in Revision
    BY DEF TypeOK, AgentState
  <2> QED BY <1>3, <2>1 DEF LocalApply, TypeOK, coordVars, history
<1>4. ASSUME NEW r \in late \cup PendingRequests, AgentNext(r) PROVE TypeOK'
  <2> DEFINE j == agent[r.member]
  <2>1. r \in Request
    BY InFlightType
  <2>2. r.member \in Member /\ j \in AgentState /\ r.tx \in Tx
    BY <2>1 DEF Request, TypeOK
  <2>3. ASSUME NEW answer \in {"ok", "error"}, Arrives(r, answer)
        PROVE  call' \in [Coord -> Call \cup {NoCall}] /\ late' \subseteq Request
    BY <2>1, <2>3, ArrivesType
  <2>4. CASE AgentAnswers(r)
    BY <2>3, <2>4 DEF AgentAnswers, TypeOK, coordVars, history
  <2>5. CASE AgentPrepares(r)
    <3>1. agent' = [agent EXCEPT ![r.member] = Prepared(j, r)]
      BY <2>5 DEF AgentPrepares
    <3>2. agent' \in [Member -> AgentState]
      BY <2>1, <2>2, <3>1, JournalType DEF TypeOK
    <3> QED BY <2>3, <2>5, <3>2 DEF AgentPrepares, TypeOK, coordVars, history
  <2>6. CASE AgentRefusesCandidate(r)
    BY <2>3, <2>6 DEF AgentRefusesCandidate, TypeOK, coordVars, history
  <2>7. CASE AgentCommits(r)
    <3>1. agent' = [agent EXCEPT ![r.member] = Committed(j)] /\ j.pending \in Revision
      BY <2>2, <2>7 DEF AgentCommits, AgentState
    <3>2. agent' \in [Member -> AgentState]
      BY <2>1, <2>2, <3>1, JournalType DEF TypeOK
    <3> QED BY <2>3, <2>7, <3>1, <3>2 DEF AgentCommits, TypeOK, coordVars, history
  <2>8. CASE AgentCommitStops(r)
    <3>1. /\ agent' = [agent EXCEPT ![r.member] = Committing(j)]
          /\ j.pending \in Revision /\ j.previous \in Revision
      BY <2>2, <2>8 DEF AgentCommitStops, AgentState
    <3>2. agent' \in [Member -> AgentState]
      BY <2>1, <2>2, <3>1, JournalType DEF TypeOK
    <3>3. runtime' \in [Member -> Revision \cup {Broken}]
      BY <2>2, <2>8, <3>1 DEF AgentCommitStops, TypeOK
    <3> QED BY <2>3, <2>8, <3>2, <3>3
            DEF AgentCommitStops, TypeOK, coordVars, history, Fault
  <2>9. CASE AgentRollsBack(r)
    <3>1. agent' = [agent EXCEPT ![r.member] = RolledBack(j)] /\ j.previous \in Revision
      BY <2>2, <2>9 DEF AgentRollsBack, AgentState
    <3>2. agent' \in [Member -> AgentState]
      BY <2>1, <2>2, <3>1, JournalType DEF TypeOK
    <3>3. runtime' \in [Member -> Revision \cup {Broken}]
      BY <2>2, <2>9, <3>1 DEF AgentRollsBack, TypeOK
    <3>4. outcome' \subseteq Outcome
      <4>1. j.tx = r.tx /\ j.pending \in Revision
        BY <2>2, <2>9 DEF AgentRollsBack, Accepted, AgentState
      <4>2. [tx |-> j.tx, member |-> r.member, rev |-> j.pending,
             how |-> "rolled-back"] \in Outcome
        BY <2>2, <4>1 DEF Outcome
      <4> QED BY <2>9, <4>2 DEF AgentRollsBack, Record, TypeOK
    <3> QED BY <2>3, <2>9, <3>2, <3>3, <3>4 DEF AgentRollsBack, TypeOK, coordVars
  <2>10. CASE AgentRollbackStops(r)
    <3>1. j.pending \in Revision /\ j.previous \in Revision /\ j.active \in Revision
      BY <2>2 DEF AgentState
    <3>2. runtime' \in [Member -> Revision \cup {Broken}]
      BY <2>2, <2>10, <3>1 DEF AgentRollbackStops, TypeOK
    <3> QED BY <2>3, <2>10, <3>2 DEF AgentRollbackStops, TypeOK, coordVars, history, Fault
  <2>11. CASE AgentFinalizes(r)
    <3>1. agent' = [agent EXCEPT ![r.member] = Closed(j, "finalized")]
      BY <2>11 DEF AgentFinalizes
    <3>2. agent' \in [Member -> AgentState]
      BY <2>1, <2>2, <3>1, JournalType DEF TypeOK
    <3>3. outcome' \subseteq Outcome
      <4>1. j.tx = r.tx /\ j.pending \in Revision
        BY <2>2, <2>11 DEF AgentFinalizes, Accepted, AgentState
      <4>2. [tx |-> j.tx, member |-> r.member, rev |-> j.pending,
             how |-> "finalized"] \in Outcome
        BY <2>2, <4>1 DEF Outcome
      <4> QED BY <2>11, <4>2 DEF AgentFinalizes, Record, TypeOK
    <3> QED BY <2>3, <2>11, <3>2, <3>3 DEF AgentFinalizes, TypeOK, coordVars
  <2>12. CASE AgentFinalizeStops(r)
    BY <2>3, <2>12 DEF AgentFinalizeStops, TypeOK, coordVars, history, Fault
  <2> QED BY <1>4, <2>4, <2>5, <2>6, <2>7, <2>8, <2>9, <2>10, <2>11, <2>12 DEF AgentNext
<1>5. ASSUME NEW c \in Coord, CoordNext(c) PROVE TypeOK'
  <2>1. job[c] \in Rollout /\ job[c].tx \in TxId /\ job[c].rev \in Revision
    BY DEF TypeOK, Rollout
  <2>2. NoRollout \in Rollout
    BY BoundAssumption DEF NoRollout, Rollout, Revision, TxId, Decision
  <2>3. CASE Load(c)
    <3>1. [NoRollout EXCEPT !.rev = revision] \in Rollout
      BY <2>2 DEF TypeOK, Rollout
    <3> QED BY <2>3, <3>1 DEF Load, TypeOK, Place, Goto, history
  <2>4. ASSUME NEW t \in Tx, Persist(c, t) PROVE TypeOK'
    <3>1. [tx |-> t, rev |-> revision, decision |-> "rollback"] \in Rollout
      BY DEF TypeOK, Rollout, TxId, Decision
    <3> QED BY <2>4, <3>1 DEF Persist, TypeOK, Place, Goto
  <2>5. CASE PersistRefused(c)
    BY <2>5, LeaveType DEF PersistRefused, TypeOK, history
  <2>6. CASE Recover(c)
    <3>1. journal \in Rollout /\ journal.tx \in Tx
      BY <2>6 DEF Recover, TypeOK, Rollout, TxId
    <3> QED BY <2>6, <3>1, StartFinishType DEF Recover, TypeOK, history
  <2>7. ASSUME NEW m \in Member, Send(c, m) PROVE TypeOK'
    <3>1. job[c].tx \in Tx /\ job[c].decision \in Op /\ 0 \in Revision
      BY <2>7, BoundAssumption DEF Send, TypeOK, Rollout, Decision, Op, Revision
    <3>2. [op |-> IF pc[c] = "finish" THEN job[c].decision ELSE pc[c],
           tx |-> job[c].tx, member |-> m,
           rev |-> IF pc[c] = "prepare" THEN job[c].rev ELSE 0] \in Request
      BY <2>1, <2>7, <3>1 DEF Send, Request, Op
    <3> QED BY <2>7, <3>2 DEF Send, TypeOK, Call, coordVars, history
  <2>8. CASE Succeeded(c)
    <3>1. call' \in [Coord -> Call \cup {NoCall}]
      BY <2>8 DEF Succeeded, TypeOK
    <3>2. CASE Leave(c)
      BY <2>8, <3>1, <3>2, LeaveType DEF Succeeded, TypeOK, history
    <3>3. CASE Continue(c, Rest(c))
      BY <2>8, <3>1, <3>3 DEF Succeeded, Continue, Rest, TypeOK, history
    <3>4. ASSUME NEW place \in {"commit", "decide", "clear"}, NEW members \in SUBSET Member,
                 pc[c] \in {"prepare", "commit", "finish"}, Enter(c, place, members)
          PROVE  TypeOK'
      BY <2>8, <3>1, <3>4 DEF Succeeded, Enter, Goto, TypeOK, Place, history
    <3> QED BY <2>8, <3>2, <3>3, <3>4 DEF Succeeded
  <2>9. ASSUME GivesUp(c)
        PROVE  /\ pc' \in [Coord -> Place]
               /\ \A d \in Coord : pc'[d] \notin {"idle", "begin"} => job'[d].tx \in Tx
               /\ job' \in [Coord -> Rollout]
               /\ todo' \in [Coord -> SUBSET Member]
               /\ failed' \in [Coord -> BOOLEAN]
               /\ call' \in [Coord -> Call \cup {NoCall}]
    <3>1. call' \in [Coord -> Call \cup {NoCall}]
      BY <2>9 DEF GivesUp, TypeOK
    <3>2. CASE pc[c] \in {"prepare", "commit"} /\ StartFinish(c, job[c])
      <4>1. job[c].tx \in Tx
        BY <3>2 DEF TypeOK
      <4> QED BY <2>1, <3>1, <3>2, <4>1, StartFinishType
    <3>3. CASE Leave(c)
      BY <3>1, <3>3, LeaveType
    <3>4. CASE /\ todo' = [todo EXCEPT ![c] = Rest(c)]
               /\ failed' = [failed EXCEPT ![c] = TRUE]
               /\ UNCHANGED <<pc, job>>
      BY <3>1, <3>4 DEF Rest, TypeOK
    <3> QED BY <2>9, <3>2, <3>3, <3>4 DEF GivesUp
  <2>10. CASE Refused(c)
    BY <2>9, <2>10 DEF Refused, TypeOK, history
  <2>11. ASSUME Abandon(c) PROVE late' \subseteq Request
    BY <2>11 DEF Abandon, TypeOK, Call, NoCall
  <2>12. CASE TimedOut(c)
    BY <2>9, <2>11, <2>12 DEF TimedOut, TypeOK, history, Fault
  <2>13. CASE Decide(c)
    <3>1. /\ [journal EXCEPT !.decision = "finalize"] \in Rollout
          /\ [job[c] EXCEPT !.decision = "finalize"] \in Rollout
      BY <2>1 DEF TypeOK, Rollout, Decision
    <3>2. /\ pc' \in [Coord -> Place]
          /\ \A d \in Coord : pc'[d] \notin {"idle", "begin"} => job'[d].tx \in Tx
          /\ job' \in [Coord -> Rollout]
          /\ todo' \in [Coord -> SUBSET Member]
          /\ failed' \in [Coord -> BOOLEAN]
      BY <2>1, <2>13, <3>1, StartFinishType DEF Decide, TypeOK, Rollout
    <3>3. decided' \subseteq Tx
      BY <2>13 DEF Decide, TypeOK
    <3>4. /\ journal' \in Rollout
          /\ UNCHANGED <<revision, agent, runtime, call, late, begun, outcome, faults>>
      BY <2>13, <3>1 DEF Decide
    <3> QED BY <3>2, <3>3, <3>4 DEF TypeOK
  <2>14. CASE DecideFails(c)
    BY <2>1, <2>14, StartFinishType DEF DecideFails, TypeOK, history, Fault
  <2>15. CASE Clear(c)
    BY <2>2, <2>15, LeaveType DEF Clear, TypeOK, history
  <2>16. CASE Crash(c)
    BY <2>11, <2>16, LeaveType DEF Crash, TypeOK, history, Fault
  <2> QED BY <1>5, <2>3, <2>4, <2>5, <2>6, <2>7, <2>8, <2>10, <2>12, <2>13, <2>14,
             <2>15, <2>16 DEF CoordNext
<1> QED BY <1>1, <1>2, <1>3, <1>4, <1>5 DEF Next

\* Every reachable state of the coordinators, the agents and the network is
\* well typed: no rollout is saved without its decision, no process is lost
\* between two phases.
THEOREM TypeCorrect == Spec => []TypeOK
<1> QED BY InitType, NextType, PTL DEF Spec

--------------------------------------------------------------------------------
(* What a member saves, for any number of coordinators.  The plan to go back  *)
(* to is never older than a plan the member finalized, and it is the active   *)
(* one until the new plan is.                                                 *)

ClosedJournal(j) ==
  j.pending = 0 /\ j.previous = 0 /\ j.phase = ""
OpenJournal(j) ==
  /\ j.pending > j.previous /\ j.phase # ""
  /\ j.active = IF j.phase = "committed" THEN j.pending ELSE j.previous
SavedJournal(j) ==
  /\ j.tx = NoTx => ClosedJournal(j)
  /\ j.tx # NoTx => OpenJournal(j)
  /\ j.lastTx # NoTx => j.lastOutcome # ""

\* The oldest plan a member can still go back to.
Floor(j) == IF j.tx = NoTx THEN j.active ELSE j.previous

FinalizedBelow(ends, m, floor) ==
  \A x \in ends : x.how = "finalized" /\ x.member = m => x.rev <= floor

MembersSaved ==
  \A m \in Member : SavedJournal(agent[m]) /\ FinalizedBelow(outcome, m, Floor(agent[m]))
JournalIsCurrent == journal.tx # NoTx => journal.rev = revision

SavedInv == MembersSaved /\ JournalIsCurrent

\* Plans are numbered.
LEMMA RevisionsAreNumbers == Revision \subseteq Nat
BY BoundAssumption DEF Revision

LEMMA PlansAreNumbers ==
  ASSUME NEW j \in AgentState
  PROVE  j.active \in Nat /\ j.pending \in Nat /\ j.previous \in Nat /\ Floor(j) \in Nat
BY RevisionsAreNumbers DEF AgentState, Floor

\* A member that has only joined can save its state.
LEMMA InitSaved == Init => SavedInv
<1> SUFFICES ASSUME Init PROVE SavedInv
  OBVIOUS
<1>1. MembersSaved
  BY DEF Init, MembersSaved, SavedJournal, ClosedJournal, FinalizedBelow, Joined
<1>2. JournalIsCurrent
  BY DEF Init, JournalIsCurrent, NoRollout
<1> QED BY <1>1, <1>2 DEF SavedInv

\* The journal operations, and the plan they can go back to.
LEMMA JournalSaved ==
  ASSUME NEW j \in AgentState, SavedJournal(j), NEW r \in Request
  PROVE  /\ Accepted(j, r) /\ r.op = "prepare" =>
              SavedJournal(Prepared(j, r)) /\ Floor(Prepared(j, r)) = Floor(j)
         /\ Accepted(j, r) /\ r.op = "commit" =>
              /\ SavedJournal(Committing(j)) /\ Floor(Committing(j)) = Floor(j)
              /\ SavedJournal(Committed(j)) /\ Floor(Committed(j)) = Floor(j)
         /\ Accepted(j, r) /\ r.op = "rollback" =>
              SavedJournal(RolledBack(j)) /\ Floor(RolledBack(j)) = Floor(j)
         /\ Accepted(j, r) /\ r.op = "finalize" =>
              /\ SavedJournal(Closed(j, "finalized"))
              /\ Floor(j) <= Floor(Closed(j, "finalized"))
              /\ Floor(Closed(j, "finalized")) = j.pending
<1>1. /\ r.rev \in Nat /\ r.tx \in Tx /\ r.tx # NoTx
      /\ j.active \in Nat /\ j.pending \in Nat /\ j.previous \in Nat
  BY TxAssumption, RevisionsAreNumbers, PlansAreNumbers DEF Request
<1>2. ASSUME Accepted(j, r), r.op = "prepare"
      PROVE  SavedJournal(Prepared(j, r)) /\ Floor(Prepared(j, r)) = Floor(j)
  BY <1>1, <1>2 DEF Accepted, SavedJournal, OpenJournal, Prepared, Floor, AgentState
<1>3. ASSUME Accepted(j, r), r.op = "commit"
      PROVE  /\ SavedJournal(Committing(j)) /\ Floor(Committing(j)) = Floor(j)
             /\ SavedJournal(Committed(j)) /\ Floor(Committed(j)) = Floor(j)
  BY <1>1, <1>3
     DEF Accepted, SavedJournal, OpenJournal, Committing, Committed, Floor, AgentState
<1>4. ASSUME Accepted(j, r), r.op = "rollback"
      PROVE  SavedJournal(RolledBack(j)) /\ Floor(RolledBack(j)) = Floor(j)
  <2> DEFINE k == [j EXCEPT !.active = IF Switched(j) THEN j.previous ELSE j.active]
  <2>1. k \in AgentState /\ k.active = j.previous
    BY <1>1, <1>4 DEF Accepted, SavedJournal, OpenJournal, Switched, AgentState
  <2>2. SavedJournal(Closed(k, "rolled-back")) /\ Floor(Closed(k, "rolled-back")) = k.active
    BY <2>1 DEF SavedJournal, ClosedJournal, Closed, Floor, AgentState
  <2>3. Floor(j) = j.previous
    BY <1>1, <1>4 DEF Accepted, Floor
  <2> QED BY <2>1, <2>2, <2>3 DEF RolledBack
<1>5. ASSUME Accepted(j, r), r.op = "finalize"
      PROVE  /\ SavedJournal(Closed(j, "finalized"))
             /\ Floor(j) <= Floor(Closed(j, "finalized"))
             /\ Floor(Closed(j, "finalized")) = j.pending
  <2>1. j.tx # NoTx /\ j.active = j.pending /\ j.pending > j.previous /\ Floor(j) = j.previous
    BY <1>1, <1>5 DEF Accepted, SavedJournal, OpenJournal, Floor
  <2>2. SavedJournal(Closed(j, "finalized")) /\ Floor(Closed(j, "finalized")) = j.active
    BY DEF SavedJournal, ClosedJournal, Closed, Floor, AgentState
  <2> QED BY <1>1, <2>1, <2>2
<1> QED BY <1>2, <1>3, <1>4, <1>5

\* A member whose journal changes without ending the transaction by a finalize.
LEMMA KeepsFloor ==
  ASSUME TypeOK, SavedInv, NEW m \in Member, NEW k \in AgentState,
         SavedJournal(k), Floor(k) = Floor(agent[m]),
         agent' = [agent EXCEPT ![m] = k],
         \A x \in outcome' \ outcome : x.how # "finalized"
  PROVE  MembersSaved'
<1>1. ASSUME NEW n \in Member
      PROVE  SavedJournal(agent'[n]) /\ FinalizedBelow(outcome', n, Floor(agent'[n]))
  <2>1. SavedJournal(agent'[n]) /\ Floor(agent'[n]) = Floor(agent[n])
    BY DEF TypeOK, SavedInv, MembersSaved
  <2> QED BY <2>1 DEF SavedInv, MembersSaved, FinalizedBelow
<1> QED BY <1>1 DEF MembersSaved

\* No step of an agent breaks the invariant.
LEMMA AgentSaved ==
  ASSUME TypeOK, SavedInv, NEW r \in late \cup PendingRequests, AgentNext(r)
  PROVE  SavedInv'
<1> DEFINE j == agent[r.member]
<1>1. r \in Request /\ r.member \in Member
  BY InFlightType DEF Request
<1>2. j \in AgentState /\ SavedJournal(j)
  BY <1>1 DEF TypeOK, SavedInv, MembersSaved
<1>3. JournalIsCurrent'
  BY DEF AgentNext, AgentAnswers, AgentPrepares, AgentRefusesCandidate, AgentCommits,
         AgentCommitStops, AgentRollsBack, AgentRollbackStops, AgentFinalizes,
         AgentFinalizeStops, SavedInv, JournalIsCurrent
<1>4. CASE UNCHANGED <<agent, outcome>>
  BY <1>3, <1>4 DEF SavedInv, MembersSaved
<1>5. CASE AgentPrepares(r)
  <2>1. Prepared(j, r) \in AgentState /\ SavedJournal(Prepared(j, r))
        /\ Floor(Prepared(j, r)) = Floor(j)
    BY <1>1, <1>2, <1>5, JournalType, JournalSaved DEF AgentPrepares
  <2> QED BY <1>1, <1>3, <1>5, <2>1, KeepsFloor DEF AgentPrepares, history, SavedInv
<1>6. CASE AgentCommits(r)
  <2>1. Committed(j) \in AgentState /\ SavedJournal(Committed(j))
        /\ Floor(Committed(j)) = Floor(j)
    BY <1>1, <1>2, <1>6, JournalType, JournalSaved DEF AgentCommits
  <2> QED BY <1>1, <1>3, <1>6, <2>1, KeepsFloor DEF AgentCommits, history, SavedInv
<1>7. CASE AgentCommitStops(r)
  <2>1. Committing(j) \in AgentState /\ SavedJournal(Committing(j))
        /\ Floor(Committing(j)) = Floor(j)
    BY <1>1, <1>2, <1>7, JournalType, JournalSaved DEF AgentCommitStops
  <2> QED BY <1>1, <1>3, <1>7, <2>1, KeepsFloor DEF AgentCommitStops, history, SavedInv
<1>8. CASE AgentRollsBack(r)
  <2>1. RolledBack(j) \in AgentState /\ SavedJournal(RolledBack(j))
        /\ Floor(RolledBack(j)) = Floor(j)
    BY <1>1, <1>2, <1>8, JournalType, JournalSaved DEF AgentRollsBack
  <2>2. \A x \in outcome' \ outcome : x.how # "finalized"
    BY <1>8 DEF AgentRollsBack, Record
  <2> QED BY <1>1, <1>3, <1>8, <2>1, <2>2, KeepsFloor DEF AgentRollsBack, SavedInv
<1>9. CASE AgentFinalizes(r)
  <2> DEFINE k == Closed(j, "finalized")
  <2>1. /\ k \in AgentState /\ SavedJournal(k)
        /\ Floor(j) <= Floor(k) /\ Floor(k) = j.pending
    BY <1>1, <1>2, <1>9, JournalType, JournalSaved DEF AgentFinalizes
  <2>2. agent' = [agent EXCEPT ![r.member] = k]
    BY <1>9 DEF AgentFinalizes
  <2>3. \A x \in outcome' \ outcome : x.member = r.member /\ x.rev = j.pending
    BY <1>9 DEF AgentFinalizes, Record
  <2>4. Floor(j) \in Nat /\ Floor(k) \in Nat /\ \A x \in outcome : x.rev \in Nat
    BY <1>2, <2>1, PlansAreNumbers, RevisionsAreNumbers DEF TypeOK, Outcome
  <2>5. ASSUME NEW n \in Member
        PROVE  SavedJournal(agent'[n]) /\ FinalizedBelow(outcome', n, Floor(agent'[n]))
    <3>1. CASE n = r.member
      <4>1. agent'[n] = k
        BY <1>1, <2>2, <3>1 DEF TypeOK
      <4>2. FinalizedBelow(outcome, n, Floor(j))
        BY <3>1 DEF SavedInv, MembersSaved
      <4> HIDE DEF j, k
      <4> QED BY <2>1, <2>3, <2>4, <4>1, <4>2 DEF FinalizedBelow
    <3>2. CASE n # r.member
      <4>1. agent'[n] = agent[n]
        BY <2>2, <3>2 DEF TypeOK
      <4> QED BY <2>3, <3>2, <4>1 DEF SavedInv, MembersSaved, FinalizedBelow
    <3> QED BY <3>1, <3>2
  <2> QED BY <1>3, <2>5 DEF SavedInv, MembersSaved
<1> QED BY <1>4, <1>5, <1>6, <1>7, <1>8, <1>9
        DEF AgentNext, AgentAnswers, AgentRefusesCandidate, AgentRollbackStops,
            AgentFinalizeStops, history

\* The coordinator only writes its own journal.
LEMMA CoordSaved ==
  ASSUME TypeOK, SavedInv, NEW c \in Coord, CoordNext(c)
  PROVE  SavedInv'
<1>1. UNCHANGED <<agent, outcome, revision>>
  BY DEF CoordNext, Load, Persist, PersistRefused, Recover, Send, Succeeded, Refused,
         TimedOut, Decide, DecideFails, Clear, Crash, history
<1>2. MembersSaved'
  BY <1>1 DEF SavedInv, MembersSaved
<1>3. CASE UNCHANGED journal
  BY <1>1, <1>2, <1>3 DEF SavedInv, JournalIsCurrent
<1>4. ASSUME NEW t \in Tx, Persist(c, t) PROVE SavedInv'
  BY <1>1, <1>2, <1>4 DEF Persist, SavedInv, JournalIsCurrent
<1>5. CASE Decide(c)
  <2>1. journal'.rev = journal.rev /\ journal'.tx = journal.tx
    BY <1>5 DEF Decide, TypeOK, Rollout
  <2> QED BY <1>1, <1>2, <2>1 DEF SavedInv, JournalIsCurrent
<1>6. CASE Clear(c)
  BY <1>1, <1>2, <1>6 DEF Clear, NoRollout, SavedInv, JournalIsCurrent
<1> QED BY <1>3, <1>4, <1>5, <1>6
        DEF CoordNext, Load, PersistRefused, Recover, Send, Succeeded, Refused, TimedOut,
            DecideFails, Crash

\* The invariant is preserved by every step.
LEMMA NextSaved == TypeOK /\ SavedInv /\ [Next]_vars => SavedInv'
<1> SUFFICES ASSUME TypeOK, SavedInv, [Next]_vars PROVE SavedInv'
  OBVIOUS
<1>1. CASE UNCHANGED <<agent, outcome, journal, revision>>
  BY <1>1 DEF SavedInv, MembersSaved, JournalIsCurrent
<1>2. CASE Edit
  BY <1>2 DEF Edit, history, SavedInv, MembersSaved, JournalIsCurrent
<1>3. CASE UNCHANGED vars \/ \E m \in Member : LocalApply(m)
  BY <1>1, <1>3 DEF LocalApply, vars, history
<1> QED BY <1>2, <1>3, AgentSaved, CoordSaved DEF Next

\* The plan in force is never older than the one to go back to.
LEMMA FloorHolds ==
  ASSUME NEW j \in AgentState, SavedJournal(j)
  PROVE  Floor(j) <= j.active
<1>1. j.active \in Nat /\ j.pending \in Nat /\ j.previous \in Nat
  BY PlansAreNumbers
<1>2. CASE j.tx = NoTx
  BY <1>1, <1>2 DEF Floor
<1>3. CASE j.tx # NoTx
  <2>1. OpenJournal(j) /\ Floor(j) = j.previous
    BY <1>3 DEF SavedJournal, Floor
  <2>2. CASE j.phase = "committed"
    <3>1. j.active = j.pending /\ j.pending > j.previous
      BY <2>1, <2>2 DEF OpenJournal
    <3> QED BY <1>1, <2>1, <3>1
  <2>3. CASE j.phase # "committed"
    <3>1. j.active = j.previous
      BY <2>1, <2>3 DEF OpenJournal
    <3> QED BY <1>1, <2>1, <3>1
  <2> QED BY <2>2, <2>3
<1> QED BY <1>2, <1>3

\* What the invariant says of the properties the runs check.
LEMMA SavedImplies == TypeOK /\ SavedInv => StateLoads /\ FinalizedIsKept
<1> SUFFICES ASSUME TypeOK, SavedInv PROVE StateLoads /\ FinalizedIsKept
  OBVIOUS
<1>1. StateLoads
  BY DEF SavedInv, MembersSaved, SavedJournal, OpenJournal, ClosedJournal,
         JournalIsCurrent, StateLoads
<1>2. ASSUME NEW x \in outcome, x.how = "finalized"
      PROVE  agent[x.member].active >= x.rev
  <2>1. x.member \in Member /\ x.rev \in Nat /\ agent[x.member] \in AgentState
    BY RevisionsAreNumbers DEF TypeOK, Outcome
  <2>2. x.rev <= Floor(agent[x.member])
    BY <1>2, <2>1 DEF SavedInv, MembersSaved, FinalizedBelow
  <2>3. Floor(agent[x.member]) <= agent[x.member].active
    BY <2>1, FloorHolds DEF SavedInv, MembersSaved
  <2>4. Floor(agent[x.member]) \in Nat /\ agent[x.member].active \in Nat
    BY <2>1, PlansAreNumbers
  <2> QED BY <2>1, <2>2, <2>3, <2>4
<1> QED BY <1>1, <1>2 DEF FinalizedIsKept

\* Every state the master and the members save, at any point of any rollout and
\* with any number of coordinators, passes validateMeshState when it is loaded.
THEOREM SavedStatesLoad == Spec => []StateLoads
<1> QED BY InitSaved, TypeCorrect, NextSaved, SavedImplies, PTL DEF Spec

\* A plan finalized at a member is never given up for an older one, whatever
\* rollbacks, repetitions and late requests follow, from any coordinators.
THEOREM FinalizedPlansKept == Spec => []FinalizedIsKept
<1> QED BY InitSaved, TypeCorrect, NextSaved, SavedImplies, PTL DEF Spec

--------------------------------------------------------------------------------
(* Agreement, when commands of the coordinator do not overlap.  The argument  *)
(* is that "rollback" and "finalize" requests of one transaction never exist  *)
(* together: the process that can still decide has sent no rollback, because  *)
(* a rollback is only sent by meshFinishRollout, after which its process      *)
(* returns, and nobody else reads its journal while it runs.                  *)

\* Only one command of the coordinator runs at a time.
OneCoordinator == \A c, d \in Coord : c = d

\* A request is of a known transaction and carries the saved decision.
FollowsDecision(r) ==
  /\ r.tx \in begun
  /\ r.op = "finalize" => r.tx \in decided
  /\ r.op = "rollback" => r.tx \notin decided

\* A rollout as some process holds it, or as the journal does.
KnowsDecision(x) ==
  /\ x.tx \in begun
  /\ x.decision = "finalize" <=> x.tx \in decided

Undecided(c) == pc[c] \in {"prepare", "commit", "decide"}

LateFollow == \A r \in late : FollowsDecision(r)
CallsFollow ==
  \A c \in Coord : call[c] # NoCall =>
    /\ pc[c] \in {"prepare", "commit", "finish"}
    /\ FollowsDecision(call[c].req)
    /\ call[c].req.op = IF pc[c] = "finish" THEN job[c].decision ELSE pc[c]
    /\ call[c].req.tx = job[c].tx
OutcomesFollow ==
  \A x \in outcome : x.tx \in begun /\ (x.how = "finalized" <=> x.tx \in decided)
RolloutsFollow ==
  \A c \in Coord : pc[c] \notin {"idle", "begin"} => KnowsDecision(job[c])
UndecidedUntouched ==
  \A c \in Coord : Undecided(c) =>
    /\ job[c].decision = "rollback"
    /\ \A x \in outcome : x.tx # job[c].tx
    /\ \A r \in late : r.op = "rollback" => r.tx # job[c].tx
JournalFollows == journal.tx # NoTx => KnowsDecision(journal)
DecidedBegun == decided \subseteq begun

DecisionInv ==
  /\ LateFollow /\ CallsFollow /\ OutcomesFollow
  /\ RolloutsFollow /\ UndecidedUntouched /\ JournalFollows /\ DecidedBegun

\* Initially nothing was sent, decided or ended.
LEMMA InitDecision == Init => DecisionInv
BY DEF Init, DecisionInv, LateFollow, CallsFollow, OutcomesFollow, RolloutsFollow,
       UndecidedUntouched, Undecided, JournalFollows, DecidedBegun, NoRollout

\* A request is either somebody's call or a late one, and follows the decision.
LEMMA InFlightFollows ==
  ASSUME TypeOK, DecisionInv, NEW r, InFlight(r)
  PROVE  FollowsDecision(r)
<1>1. CASE r \in late
  BY <1>1 DEF DecisionInv, LateFollow
<1>2. ASSUME NEW c \in Coord, call[c] = [req |-> r, answer |-> "pending"]
      PROVE  FollowsDecision(r)
  <2>1. call[c] # NoCall /\ call[c].req = r
    BY <1>2 DEF NoCall
  <2> QED BY <2>1 DEF DecisionInv, CallsFollow
<1> QED BY <1>1, <1>2 DEF InFlight

\* Executing a request sends nothing, and moves no coordinator.
LEMMA ArrivesFollows ==
  ASSUME TypeOK, DecisionInv, NEW r, NEW answer, Arrives(r, answer),
         UNCHANGED <<pc, job, begun, decided>>
  PROVE  LateFollow' /\ CallsFollow' /\ late' \subseteq late
<1>1. CASE r \in late /\ late' = late \ {r} /\ UNCHANGED call
  BY <1>1 DEF DecisionInv, LateFollow, CallsFollow, FollowsDecision
<1>2. ASSUME NEW c \in Coord,
             call[c] = [req |-> r, answer |-> "pending"],
             call' = [call EXCEPT ![c].answer = answer],
             UNCHANGED late
      PROVE  LateFollow' /\ CallsFollow' /\ late' \subseteq late
  <2>1. LateFollow' /\ late' \subseteq late
    BY <1>2 DEF DecisionInv, LateFollow, FollowsDecision
  <2>2. call[c] # NoCall
    BY <1>2 DEF NoCall
  <2>3. ASSUME NEW d \in Coord, call'[d] # NoCall
        PROVE  call[d] # NoCall /\ call'[d].req = call[d].req
    BY <1>2, <2>2, <2>3 DEF TypeOK
  <2>4. CallsFollow'
    BY <2>3 DEF DecisionInv, CallsFollow, FollowsDecision
  <2> QED BY <2>1, <2>4
<1> QED BY <1>1, <1>2 DEF Arrives

\* While a process can still decide its transaction, nobody is asked to end it.
LEMMA UndecidedNotEnded ==
  ASSUME TypeOK, OneCoordinator, DecisionInv, NEW r, InFlight(r),
         r.op \in {"rollback", "finalize"}, NEW c \in Coord, Undecided(c)
  PROVE  r.tx # job[c].tx
<1>0. FollowsDecision(r)
  BY InFlightFollows
<1>1. job[c].decision = "rollback" /\ KnowsDecision(job[c])
  BY DEF DecisionInv, UndecidedUntouched, RolloutsFollow, Undecided
<1>2. CASE r.op = "finalize"
  BY <1>0, <1>1, <1>2 DEF FollowsDecision, KnowsDecision
<1>3. CASE r.op = "rollback" /\ r \in late
  BY <1>3 DEF DecisionInv, UndecidedUntouched
<1>4. ASSUME NEW d \in Coord, call[d] = [req |-> r, answer |-> "pending"],
             r.op = "rollback"
      PROVE  FALSE
  <2>1. c = d /\ call[c] # NoCall /\ call[c].req = r
    BY <1>4 DEF OneCoordinator, NoCall
  <2>2. r.op = IF pc[c] = "finish" THEN job[c].decision ELSE pc[c]
    BY <2>1 DEF DecisionInv, CallsFollow
  <2> QED BY <1>4, <2>2 DEF Undecided
<1> QED BY <1>2, <1>3, <1>4 DEF InFlight

\* A member ends a transaction only the way its decision says, and never
\* while a process can still take that decision.
LEMMA RecordFollows ==
  ASSUME TypeOK, OneCoordinator, DecisionInv, NEW r \in Request, InFlight(r),
         NEW how \in {"rolled-back", "finalized"},
         r.op = IF how = "finalized" THEN "finalize" ELSE "rollback",
         agent[r.member].tx = r.tx, Record(r.member, how),
         UNCHANGED <<pc, job, begun, decided>>, late' \subseteq late
  PROVE  OutcomesFollow' /\ UndecidedUntouched'
<1> DEFINE x == [tx |-> r.tx, member |-> r.member, rev |-> agent[r.member].pending,
                 how |-> how]
<1>1. outcome' = outcome \cup {x}
  BY DEF Record
<1>2. FollowsDecision(r)
  BY InFlightFollows
<1>3. OutcomesFollow'
  BY <1>1, <1>2 DEF DecisionInv, OutcomesFollow, FollowsDecision
<1>4. ASSUME NEW c \in Coord, Undecided(c)
      PROVE  r.tx # job[c].tx
  BY <1>4, UndecidedNotEnded
<1>5. UndecidedUntouched'
  <2> SUFFICES ASSUME NEW c \in Coord, Undecided(c)
               PROVE  /\ job[c].decision = "rollback"
                      /\ \A y \in outcome' : y.tx # job[c].tx
                      /\ \A q \in late' : q.op = "rollback" => q.tx # job[c].tx
    BY DEF UndecidedUntouched, Undecided
  <2> QED BY <1>1, <1>4 DEF DecisionInv, UndecidedUntouched
<1> QED BY <1>3, <1>5

\* No step of an agent breaks the invariant.
LEMMA AgentDecision ==
  ASSUME TypeOK, OneCoordinator, DecisionInv,
         NEW r \in late \cup PendingRequests, AgentNext(r)
  PROVE  DecisionInv'
<1>1. r \in Request
  BY InFlightType
<1>2. InFlight(r) /\ UNCHANGED <<pc, job, begun, decided, journal>>
  BY DEF AgentNext, AgentAnswers, AgentPrepares, AgentRefusesCandidate, AgentCommits,
         AgentCommitStops, AgentRollsBack, AgentRollbackStops, AgentFinalizes,
         AgentFinalizeStops, coordVars, history
<1>3. \E answer \in {"ok", "error"} : Arrives(r, answer)
  BY DEF AgentNext, AgentAnswers, AgentPrepares, AgentRefusesCandidate, AgentCommits,
         AgentCommitStops, AgentRollsBack, AgentRollbackStops, AgentFinalizes,
         AgentFinalizeStops
<1>4. LateFollow' /\ CallsFollow' /\ late' \subseteq late
  BY <1>2, <1>3, ArrivesFollows
<1>5. RolloutsFollow' /\ JournalFollows' /\ DecidedBegun'
  BY <1>2 DEF DecisionInv, RolloutsFollow, JournalFollows, DecidedBegun, KnowsDecision
<1>6. CASE UNCHANGED outcome
  BY <1>2, <1>4, <1>5, <1>6
     DEF DecisionInv, OutcomesFollow, UndecidedUntouched, Undecided
<1>7. CASE AgentRollsBack(r)
  <2>1. r.op = "rollback" /\ agent[r.member].tx = r.tx /\ Record(r.member, "rolled-back")
    BY <1>7 DEF AgentRollsBack, Accepted
  <2> QED BY <1>1, <1>2, <1>4, <1>5, <2>1, RecordFollows DEF DecisionInv
<1>8. CASE AgentFinalizes(r)
  <2>1. r.op = "finalize" /\ agent[r.member].tx = r.tx /\ Record(r.member, "finalized")
    BY <1>8 DEF AgentFinalizes, Accepted
  <2> QED BY <1>1, <1>2, <1>4, <1>5, <2>1, RecordFollows DEF DecisionInv
<1> QED BY <1>6, <1>7, <1>8 DEF AgentNext, AgentAnswers, AgentPrepares,
         AgentRefusesCandidate, AgentCommits, AgentCommitStops, AgentRollbackStops,
         AgentFinalizeStops, history

\* An abandoned request was a call, and leaves the undecided alone: before the
\* decision a process calls for nothing but prepare and commit.
LEMMA AbandonFollows ==
  ASSUME TypeOK, OneCoordinator, DecisionInv, NEW c \in Coord, Abandon(c),
         UNCHANGED <<begun, decided>>
  PROVE  LateFollow'
<1>1. CASE UNCHANGED late
  BY <1>1 DEF DecisionInv, LateFollow, FollowsDecision
<1>2. CASE call[c].answer = "pending" /\ late' = late \cup {call[c].req}
  <2>1. call[c] # NoCall
    BY <1>2 DEF NoCall
  <2>2. FollowsDecision(call[c].req)
    BY <2>1 DEF DecisionInv, CallsFollow
  <2> QED BY <1>2, <2>2 DEF DecisionInv, LateFollow, FollowsDecision
<1> QED BY <1>1, <1>2 DEF Abandon

\* What is left of the exchange after a refusal or a timeout.
LEMMA GivesUpFollows ==
  ASSUME TypeOK, OneCoordinator, DecisionInv, NEW c \in Coord, GivesUp(c),
         LateFollow', UNCHANGED <<journal, begun, decided, outcome>>
  PROVE  DecisionInv'
<1>1. CallsFollow'
  BY DEF GivesUp, OneCoordinator, CallsFollow, TypeOK
<1>2. OutcomesFollow' /\ JournalFollows' /\ DecidedBegun'
  BY DEF DecisionInv, OutcomesFollow, JournalFollows, DecidedBegun, KnowsDecision
<1>3. CASE pc[c] \in {"prepare", "commit"} /\ StartFinish(c, job[c])
  <2>1. pc'[c] = "finish" /\ job'[c] = job[c]
    BY <1>3 DEF StartFinish, Goto, TypeOK
  <2>2. RolloutsFollow'
    BY <1>3, <2>1 DEF OneCoordinator, DecisionInv, RolloutsFollow, KnowsDecision
  <2>3. UndecidedUntouched'
    BY <2>1 DEF OneCoordinator, UndecidedUntouched, Undecided
  <2> QED BY <1>1, <1>2, <2>2, <2>3 DEF DecisionInv
<1>4. CASE Leave(c)
  <2>1. pc'[c] = "idle"
    BY <1>4 DEF Leave, Goto, TypeOK
  <2> QED BY <1>1, <1>2, <2>1
          DEF OneCoordinator, DecisionInv, RolloutsFollow, UndecidedUntouched, Undecided
<1>5. CASE pc[c] = "finish" /\ UNCHANGED <<pc, job>>
  BY <1>1, <1>2, <1>5
     DEF OneCoordinator, DecisionInv, RolloutsFollow, KnowsDecision, UndecidedUntouched,
         Undecided
<1> QED BY <1>3, <1>4, <1>5 DEF GivesUp

\* No step of the coordinator breaks the invariant.
LEMMA CoordDecision ==
  ASSUME TypeOK, OneCoordinator, DecisionInv, NEW c \in Coord, CoordNext(c)
  PROVE  DecisionInv'
<1>a. ASSUME UNCHANGED <<journal, begun, decided, outcome>>
      PROVE  OutcomesFollow' /\ JournalFollows' /\ DecidedBegun'
  BY <1>a DEF DecisionInv, OutcomesFollow, JournalFollows, DecidedBegun, KnowsDecision
<1>b. ASSUME UNCHANGED <<late, begun, decided>> PROVE LateFollow'
  BY <1>b DEF DecisionInv, LateFollow, FollowsDecision
<1>c. pc[c] \notin {"prepare", "commit", "finish"} => call[c] = NoCall
  BY DEF DecisionInv, CallsFollow
<1>d. pc[c] \notin {"idle", "begin"} => KnowsDecision(job[c])
  BY DEF DecisionInv, RolloutsFollow
<1>e. ASSUME call'[c] = NoCall PROVE CallsFollow'
  BY <1>e DEF OneCoordinator, CallsFollow
<1>f. ASSUME pc'[c] \in {"idle", "begin"} PROVE RolloutsFollow' /\ UndecidedUntouched'
  BY <1>f DEF OneCoordinator, RolloutsFollow, UndecidedUntouched, Undecided
<1>g. ASSUME pc'[c] \in {"finish", "clear"}, KnowsDecision(job[c])'
      PROVE  RolloutsFollow' /\ UndecidedUntouched'
  BY <1>g DEF OneCoordinator, RolloutsFollow, UndecidedUntouched, Undecided
<1>1. CASE Load(c)
  <2>1. pc'[c] = "begin" /\ UNCHANGED <<journal, call, late, begun, decided, outcome>>
    BY <1>1 DEF Load, Goto, TypeOK, history
  <2> QED BY <1>1, <2>1, <1>a, <1>b, <1>c, <1>e, <1>f DEF Load, DecisionInv
<1>2. ASSUME NEW t \in Tx, Persist(c, t) PROVE DecisionInv'
  <2>1. /\ job'[c].tx = t /\ job'[c].decision = "rollback"
        /\ journal'.tx = t /\ journal'.decision = "rollback"
        /\ pc'[c] = "prepare" /\ begun' = begun \cup {t} /\ t \notin begun
        /\ pc[c] = "begin" /\ UNCHANGED <<call, late, decided, outcome>>
    BY <1>2 DEF Persist, Goto, TypeOK
  <2>2. t \notin decided
    BY <2>1 DEF DecisionInv, DecidedBegun
  <2>3. LateFollow' /\ OutcomesFollow' /\ DecidedBegun'
    BY <2>1 DEF DecisionInv, LateFollow, OutcomesFollow, DecidedBegun, FollowsDecision
  <2>4. JournalFollows' /\ RolloutsFollow'
    BY <2>1, <2>2 DEF OneCoordinator, JournalFollows, RolloutsFollow, KnowsDecision
  <2>5. UndecidedUntouched'
    <3>1. \A x \in outcome : x.tx # t
      BY <2>1 DEF DecisionInv, OutcomesFollow
    <3>2. \A r \in late : r.tx # t
      BY <2>1 DEF DecisionInv, LateFollow, FollowsDecision
    <3> QED BY <2>1, <3>1, <3>2 DEF OneCoordinator, UndecidedUntouched
  <2> QED BY <2>1, <2>3, <2>4, <2>5, <1>c, <1>e DEF DecisionInv
<1>3. CASE PersistRefused(c)
  <2>1. pc[c] = "begin" /\ pc'[c] = "idle"
        /\ UNCHANGED <<journal, call, late, begun, decided, outcome>>
    BY <1>3 DEF PersistRefused, Leave, Goto, TypeOK, history
  <2> QED BY <2>1, <1>a, <1>b, <1>c, <1>e, <1>f DEF DecisionInv
<1>4. CASE Recover(c)
  <2>1. /\ pc[c] = "idle" /\ pc'[c] = "finish" /\ job'[c] = journal /\ journal.tx # NoTx
        /\ UNCHANGED <<journal, call, late, begun, decided, outcome>>
    BY <1>4 DEF Recover, StartFinish, Goto, TypeOK, history
  <2>2. KnowsDecision(job[c])'
    BY <2>1 DEF DecisionInv, JournalFollows, KnowsDecision
  <2> QED BY <2>1, <2>2, <1>a, <1>b, <1>c, <1>e, <1>g DEF DecisionInv
<1>5. ASSUME NEW m \in Member, Send(c, m) PROVE DecisionInv'
  <2> DEFINE r == [op |-> IF pc[c] = "finish" THEN job[c].decision ELSE pc[c],
                   tx |-> job[c].tx, member |-> m,
                   rev |-> IF pc[c] = "prepare" THEN job[c].rev ELSE 0]
  <2>1. /\ pc[c] \in {"prepare", "commit", "finish"}
        /\ call'[c].req = r
        /\ UNCHANGED <<journal, pc, job, late, begun, decided, outcome>>
    BY <1>5 DEF Send, TypeOK, coordVars, history
  <2>2. KnowsDecision(job[c]) /\ job[c] \in Rollout
    BY <2>1, <1>d DEF TypeOK
  <2>3. FollowsDecision(r)
    BY <2>1, <2>2 DEF FollowsDecision, KnowsDecision, Rollout, Decision
  <2>4. CallsFollow'
    BY <2>1, <2>3 DEF OneCoordinator, CallsFollow, FollowsDecision
  <2>5. RolloutsFollow' /\ UndecidedUntouched'
    BY <2>1 DEF DecisionInv, RolloutsFollow, KnowsDecision, UndecidedUntouched, Undecided
  <2> QED BY <2>1, <2>4, <2>5, <1>a, <1>b DEF DecisionInv
<1>6. CASE Succeeded(c)
  <2>1. /\ call'[c] = NoCall
        /\ UNCHANGED <<journal, late, begun, decided, outcome>>
    BY <1>6 DEF Succeeded, TypeOK, history
  <2>2. CASE Leave(c)
    <3>1. pc'[c] = "idle"
      BY <2>2 DEF Leave, Goto, TypeOK
    <3> QED BY <2>1, <3>1, <1>a, <1>b, <1>e, <1>f DEF DecisionInv
  <2>3. ASSUME Undecided(c)' => Undecided(c), pc[c] \notin {"idle", "begin"},
               UNCHANGED job
        PROVE  DecisionInv'
    <3>1. RolloutsFollow'
      BY <2>1, <2>3, <1>d DEF OneCoordinator, RolloutsFollow, KnowsDecision
    <3>2. UndecidedUntouched'
      BY <2>1, <2>3 DEF OneCoordinator, DecisionInv, UndecidedUntouched
    <3> QED BY <2>1, <3>1, <3>2, <1>a, <1>b, <1>e DEF DecisionInv
  <2>4. pc[c] \in {"prepare", "commit", "finish"}
    <3>1. call[c] # NoCall
      BY <1>6 DEF Succeeded, NoCall
    <3> QED BY <3>1, <1>c
  <2>5. CASE Continue(c, Rest(c))
    BY <2>3, <2>4, <2>5 DEF Continue, Undecided
  <2>6. CASE pc[c] \in {"prepare", "commit"} /\
               \E place \in {"commit", "decide"} : \E s : Enter(c, place, s)
    BY <2>3, <2>4, <2>6 DEF Enter, Undecided
  <2>7. CASE \E s : Enter(c, "clear", s)
    <3>1. pc'[c] = "clear" /\ UNCHANGED job
      BY <2>7 DEF Enter, Goto, TypeOK
    <3> QED BY <2>3, <2>4, <3>1 DEF Undecided
  <2> QED BY <1>6, <2>2, <2>5, <2>6, <2>7 DEF Succeeded
<1>7. CASE Refused(c)
  BY <1>7, <1>b, GivesUpFollows DEF Refused, history
<1>8. CASE TimedOut(c)
  BY <1>8, AbandonFollows, GivesUpFollows DEF TimedOut, history
<1>9. CASE Decide(c)
  <2>1. /\ pc[c] = "decide" /\ pc'[c] = "finish"
        /\ journal.tx = job[c].tx
        /\ job'[c].tx = job[c].tx /\ job'[c].decision = "finalize"
        /\ journal'.tx = job[c].tx /\ journal'.decision = "finalize"
        /\ decided' = decided \cup {job[c].tx}
        /\ UNCHANGED <<call, late, begun, outcome>>
    BY <1>9 DEF Decide, StartFinish, Goto, TypeOK, Rollout
  <2>2. /\ job[c].tx \in begun
        /\ \A x \in outcome : x.tx # job[c].tx
        /\ \A r \in late : r.op = "rollback" => r.tx # job[c].tx
    BY <2>1, <1>d DEF DecisionInv, UndecidedUntouched, Undecided, KnowsDecision
  <2>3. LateFollow'
    BY <2>1, <2>2 DEF DecisionInv, LateFollow, FollowsDecision
  <2>4. OutcomesFollow' /\ DecidedBegun'
    BY <2>1, <2>2 DEF DecisionInv, OutcomesFollow, DecidedBegun
  <2>5. JournalFollows' /\ KnowsDecision(job[c])'
    BY <2>1, <2>2 DEF JournalFollows, KnowsDecision
  <2> QED BY <2>1, <2>3, <2>4, <2>5, <1>c, <1>e, <1>g DEF DecisionInv
<1>10. CASE DecideFails(c)
  <2>1. /\ pc[c] = "decide" /\ pc'[c] = "finish" /\ job'[c] = job[c]
        /\ UNCHANGED <<journal, call, late, begun, decided, outcome>>
    BY <1>10 DEF DecideFails, StartFinish, Goto, TypeOK, history
  <2>2. KnowsDecision(job[c])'
    BY <2>1, <1>d DEF KnowsDecision
  <2> QED BY <2>1, <2>2, <1>a, <1>b, <1>c, <1>e, <1>g DEF DecisionInv
<1>11. CASE Clear(c)
  <2>1. /\ pc[c] = "clear" /\ pc'[c] = "idle"
        /\ journal' \in {journal, NoRollout}
        /\ UNCHANGED <<call, late, begun, decided, outcome>>
    BY <1>11 DEF Clear, Leave, Goto, TypeOK, history
  <2>2. JournalFollows' /\ OutcomesFollow' /\ DecidedBegun'
    BY <2>1 DEF DecisionInv, JournalFollows, OutcomesFollow, DecidedBegun,
                KnowsDecision, NoRollout
  <2> QED BY <2>1, <2>2, <1>b, <1>c, <1>e, <1>f DEF DecisionInv
<1>12. CASE Crash(c)
  <2>1. /\ pc'[c] = "idle" /\ call'[c] = NoCall
        /\ UNCHANGED <<journal, begun, decided, outcome>>
    BY <1>12 DEF Crash, Leave, Goto, TypeOK, history
  <2>2. LateFollow'
    BY <1>12, <2>1, AbandonFollows DEF Crash
  <2> QED BY <2>1, <2>2, <1>a, <1>e, <1>f DEF DecisionInv
<1> QED BY <1>1, <1>2, <1>3, <1>4, <1>5, <1>6, <1>7, <1>8, <1>9, <1>10, <1>11, <1>12
        DEF CoordNext

\* The invariant is preserved by every step.
LEMMA NextDecision ==
  OneCoordinator /\ TypeOK /\ DecisionInv /\ [Next]_vars => DecisionInv'
<1> SUFFICES ASSUME OneCoordinator, TypeOK, DecisionInv, [Next]_vars PROVE DecisionInv'
  OBVIOUS
<1>1. CASE UNCHANGED <<journal, pc, job, call, late, begun, decided, outcome>>
  BY <1>1 DEF DecisionInv, LateFollow, CallsFollow, OutcomesFollow, RolloutsFollow,
              UndecidedUntouched, Undecided, JournalFollows, DecidedBegun,
              FollowsDecision, KnowsDecision
<1>2. CASE Edit \/ UNCHANGED vars \/ \E m \in Member : LocalApply(m)
  BY <1>1, <1>2 DEF Edit, LocalApply, vars, coordVars, history
<1> QED BY <1>2, AgentDecision, CoordDecision DEF Next

\* What the invariant says of the properties the runs check.
LEMMA DecisionImplies == TypeOK /\ DecisionInv => Agreement /\ DecisionHonoured
BY DEF TypeOK, Outcome, DecisionInv, OutcomesFollow, Agreement, DecisionHonoured

\* With one command of the coordinator at a time, no two members ever end the
\* same transaction differently, whatever was lost, late, repeated or crashed.
THEOREM MembersAgree == ASSUME OneCoordinator PROVE Spec => []Agreement
<1>1. OneCoordinator
  OBVIOUS
<1>2. TypeOK /\ DecisionInv /\ [Next]_vars => DecisionInv'
  BY <1>1, NextDecision
<1>3. TypeOK /\ DecisionInv => Agreement
  BY DecisionImplies
<1> QED BY InitDecision, TypeCorrect, <1>2, <1>3, PTL DEF Spec

\* With one command of the coordinator at a time, no member rolls back a
\* transaction whose "finalize" decision was saved.
THEOREM DecisionKept == ASSUME OneCoordinator PROVE Spec => []DecisionHonoured
<1>1. OneCoordinator
  OBVIOUS
<1>2. TypeOK /\ DecisionInv /\ [Next]_vars => DecisionInv'
  BY <1>1, NextDecision
<1>3. TypeOK /\ DecisionInv => DecisionHonoured
  BY DecisionImplies
<1> QED BY InitDecision, TypeCorrect, <1>2, <1>3, PTL DEF Spec

--------------------------------------------------------------------------------
(* What a member runs, when commands of the coordinator do not overlap.  A    *)
(* rollback that stops can leave a committed member with another plan in      *)
(* sing-box than its state declares; it is harmless only because the decision *)
(* to finalize that transaction was not saved and never will be, so that no   *)
(* finalize can close the transaction there.                                  *)

NeverDecided(t) ==
  /\ t \in begun /\ t \notin decided
  /\ \A c \in Coord : Undecided(c) => job[c].tx # t

RunsPlan(m) ==
  LET j == agent[m] IN
  /\ j.phase \in {"", "prepared"} => runtime[m] = j.active
  /\ j.phase = "committed" => runtime[m] = j.active \/ NeverDecided(j.tx)
RuntimeInv == \A m \in Member : RunsPlan(m)

LEMMA InitRuntime == Init => RuntimeInv
<1> SUFFICES ASSUME Init, NEW m \in Member PROVE RunsPlan(m)
  BY DEF RuntimeInv
<1>1. agent[m] = Joined /\ runtime[m] = 0
  BY DEF Init
<1>2. Joined.phase = "" /\ Joined.active = 0
  BY DEF Joined
<1> QED BY <1>1, <1>2 DEF RunsPlan

\* A transaction that can no longer be decided stays so.
LEMMA NeverDecidedStays ==
  ASSUME TypeOK, OneCoordinator, DecisionInv, [Next]_vars, NEW t, NeverDecided(t)
  PROVE  NeverDecided(t)'
<1>1. CASE UNCHANGED <<pc, job, begun, decided>>
  BY <1>1 DEF NeverDecided, Undecided
<1>2. ASSUME NEW c \in Coord, CoordNext(c) PROVE NeverDecided(t)'
  <2>0. \A d \in Coord : d = c
    BY DEF OneCoordinator
  <2>1. ASSUME begun \subseteq begun', UNCHANGED decided,
               Undecided(c)' => Undecided(c) /\ job'[c].tx = job[c].tx
        PROVE  NeverDecided(t)'
    BY <2>0, <2>1 DEF NeverDecided
  <2>2. ASSUME pc'[c] \in {"idle", "begin", "finish", "clear"}, UNCHANGED <<begun, decided>>
        PROVE  NeverDecided(t)'
    BY <2>1, <2>2 DEF Undecided
  <2>3. ASSUME NEW x, StartFinish(c, x) PROVE pc'[c] = "finish"
    BY <2>3 DEF StartFinish, Goto, TypeOK
  <2>4. ASSUME Leave(c) PROVE pc'[c] = "idle"
    BY <2>4 DEF Leave, Goto, TypeOK
  <2>5. ASSUME GivesUp(c), UNCHANGED <<begun, decided>> PROVE NeverDecided(t)'
    <3>1. CASE pc[c] = "finish" /\ UNCHANGED <<pc, job>>
      BY <2>1, <2>5, <3>1 DEF Undecided
    <3> QED BY <2>2, <2>3, <2>4, <2>5, <3>1 DEF GivesUp
  <2>6. CASE Load(c)
    BY <2>2, <2>6 DEF Load, Goto, TypeOK, history
  <2>7. ASSUME NEW u \in Tx, Persist(c, u) PROVE NeverDecided(t)'
    <3>1. u \notin begun /\ begun' = begun \cup {u} /\ UNCHANGED decided /\ job'[c].tx = u
      BY <2>7 DEF Persist, TypeOK
    <3> QED BY <2>0, <3>1 DEF NeverDecided
  <2>8. CASE PersistRefused(c) \/ Recover(c) \/ DecideFails(c) \/ Clear(c) \/ Crash(c)
    BY <2>2, <2>3, <2>4, <2>8 DEF PersistRefused, Recover, DecideFails, Clear, Crash, history
  <2>9. CASE \E m \in Member : Send(c, m)
    BY <1>1, <2>9 DEF Send, coordVars, history
  <2>10. CASE Succeeded(c)
    <3>1. UNCHANGED <<begun, decided>> /\ call[c] # NoCall
      BY <2>10 DEF Succeeded, NoCall, history
    <3>2. pc[c] \in {"prepare", "commit", "finish"}
      BY <3>1 DEF DecisionInv, CallsFollow
    <3>3. CASE Leave(c)
      BY <2>2, <2>4, <3>1, <3>3
    <3>4. CASE Continue(c, Rest(c))
      BY <2>1, <3>1, <3>4 DEF Continue, Undecided
    <3>5. CASE pc[c] \in {"prepare", "commit"} /\ UNCHANGED job
      BY <2>1, <3>1, <3>5 DEF Undecided
    <3>6. CASE Enter(c, "clear", {})
      BY <2>2, <3>1, <3>6 DEF Enter, Goto, TypeOK
    <3> QED BY <2>10, <3>3, <3>4, <3>5, <3>6 DEF Succeeded, Enter
  <2>11. CASE Refused(c) \/ TimedOut(c)
    BY <2>5, <2>11 DEF Refused, TimedOut, history
  <2>12. CASE Decide(c)
    <3>1. Undecided(c) /\ decided' = decided \cup {job[c].tx} /\ UNCHANGED begun
          /\ pc'[c] = "finish"
      BY <2>3, <2>12 DEF Decide, Undecided
    <3> QED BY <2>0, <3>1 DEF NeverDecided, Undecided
  <2> QED BY <1>2, <2>6, <2>7, <2>8, <2>9, <2>10, <2>11, <2>12 DEF CoordNext
<1>3. CASE Edit \/ UNCHANGED vars \/ \E m \in Member : LocalApply(m)
  BY <1>1, <1>3 DEF Edit, LocalApply, vars, coordVars, history
<1>4. CASE \E r \in late \cup PendingRequests : AgentNext(r)
  BY <1>1, <1>4 DEF AgentNext, AgentAnswers, AgentPrepares, AgentRefusesCandidate,
     AgentCommits, AgentCommitStops, AgentRollsBack, AgentRollbackStops, AgentFinalizes,
     AgentFinalizeStops, coordVars, history
<1> QED BY <1>2, <1>3, <1>4 DEF Next

\* A member whose journal and sing-box change together.
LEMMA RuntimeAt ==
  ASSUME TypeOK, OneCoordinator, DecisionInv, RuntimeInv, [Next]_vars,
         NEW m \in Member, NEW k \in AgentState, NEW run,
         agent' = [agent EXCEPT ![m] = k], runtime' = [runtime EXCEPT ![m] = run],
         k.phase \in {"", "prepared"} => run = k.active,
         k.phase = "committed" => run = k.active \/ NeverDecided(k.tx)
  PROVE  RuntimeInv'
<1>1. ASSUME NEW n \in Member PROVE RunsPlan(n)'
  <2>1. CASE n = m
    <3>1. agent'[n] = k /\ runtime'[n] = run
      BY <2>1 DEF TypeOK
    <3>2. NeverDecided(k.tx) => NeverDecided(k.tx)'
      BY NeverDecidedStays
    <3> QED BY <3>1, <3>2 DEF RunsPlan
  <2>2. CASE n # m
    <3>1. agent'[n] = agent[n] /\ runtime'[n] = runtime[n]
      BY <2>2 DEF TypeOK
    <3> QED BY <3>1, NeverDecidedStays DEF RuntimeInv, RunsPlan
  <2> QED BY <2>1, <2>2
<1> QED BY <1>1 DEF RuntimeInv

\* No step of an agent breaks the invariant.
LEMMA AgentRuntime ==
  ASSUME TypeOK, OneCoordinator, DecisionInv, SavedInv, RuntimeInv,
         NEW r \in late \cup PendingRequests, AgentNext(r)
  PROVE  RuntimeInv'
<1> DEFINE j == agent[r.member]
<1>0. [Next]_vars
  BY DEF Next
<1>1. r \in Request /\ r.member \in Member /\ InFlight(r)
  BY InFlightType DEF Request, AgentNext, AgentAnswers, AgentPrepares,
     AgentRefusesCandidate, AgentCommits, AgentCommitStops, AgentRollsBack,
     AgentRollbackStops, AgentFinalizes, AgentFinalizeStops
<1>2. j \in AgentState /\ SavedJournal(j) /\ RunsPlan(r.member)
  BY <1>1 DEF TypeOK, SavedInv, MembersSaved, RuntimeInv
<1>3. FollowsDecision(r) /\ r.tx \in Tx /\ r.tx # NoTx
  BY <1>1, InFlightFollows, TxAssumption DEF Request
<1>4. agent = [agent EXCEPT ![r.member] = j] /\ runtime = [runtime EXCEPT ![r.member] = runtime[r.member]]
  BY <1>1 DEF TypeOK
<1>5. CASE UNCHANGED <<agent, runtime>>
  BY <1>0, <1>5, NeverDecidedStays DEF RuntimeInv, RunsPlan
<1>6. CASE AgentPrepares(r)
  <2> DEFINE k == Prepared(j, r)
  <2>1. k \in AgentState /\ k.active = j.active /\ k.phase = "prepared"
    BY <1>1, <1>2, JournalType DEF Prepared, AgentState
  <2>2. j.phase = ""
    BY <1>2, <1>6 DEF AgentPrepares, Accepted, SavedJournal, ClosedJournal
  <2>3. runtime[r.member] = k.active
    BY <1>2, <2>1, <2>2 DEF RunsPlan
  <2>4. agent' = [agent EXCEPT ![r.member] = k]
        /\ runtime' = [runtime EXCEPT ![r.member] = runtime[r.member]]
    BY <1>4, <1>6 DEF AgentPrepares
  <2> HIDE DEF k, j
  <2> QED BY <1>0, <1>1, <2>1, <2>3, <2>4, RuntimeAt
<1>7. CASE AgentCommits(r)
  <2> DEFINE k == Committed(j)
  <2>1. k \in AgentState /\ k.active = j.pending /\ k.phase = "committed"
    BY <1>1, <1>2, JournalType DEF Committed, AgentState
  <2>2. agent' = [agent EXCEPT ![r.member] = k]
        /\ runtime' = [runtime EXCEPT ![r.member] = j.pending]
    BY <1>7 DEF AgentCommits
  <2> HIDE DEF k, j
  <2> QED BY <1>0, <1>1, <2>1, <2>2, RuntimeAt
<1>8. CASE AgentCommitStops(r)
  <2> DEFINE k == Committing(j)
  <2>1. k \in AgentState /\ k.phase = "committing"
    BY <1>1, <1>2, JournalType DEF Committing, AgentState
  <2>2. agent' = [agent EXCEPT ![r.member] = k]
        /\ \E run : runtime' = [runtime EXCEPT ![r.member] = run]
    BY <1>8 DEF AgentCommitStops
  <2> HIDE DEF k, j
  <2> QED BY <1>0, <1>1, <2>1, <2>2, RuntimeAt
<1>9. CASE AgentRollsBack(r)
  <2> DEFINE k == RolledBack(j)
             run == IF Switched(j) THEN j.previous ELSE runtime[r.member]
  <2>1. k \in AgentState /\ k.phase = ""
        /\ k.active = IF Switched(j) THEN j.previous ELSE j.active
    <3> DEFINE i == [j EXCEPT !.active = IF Switched(j) THEN j.previous ELSE j.active]
    <3>1. i \in AgentState /\ i.active = IF Switched(j) THEN j.previous ELSE j.active
      BY <1>2 DEF AgentState
    <3>2. Closed(i, "rolled-back").phase = "" /\ Closed(i, "rolled-back").active = i.active
      BY <3>1 DEF Closed, AgentState
    <3> QED BY <1>1, <1>2, <3>1, <3>2, JournalType DEF RolledBack
  <2>2. ~Switched(j) => runtime[r.member] = j.active
    BY <1>2 DEF AgentState, Switched, RunsPlan
  <2>3. agent' = [agent EXCEPT ![r.member] = k] /\ runtime' = [runtime EXCEPT ![r.member] = run]
    BY <1>4, <1>9 DEF AgentRollsBack
  <2>4. run = k.active
    BY <2>1, <2>2
  <2> HIDE DEF k, j, run
  <2> QED BY <1>0, <1>1, <2>1, <2>3, <2>4, RuntimeAt
<1>10. CASE AgentRollbackStops(r)
  <2>1. PICK run : /\ runtime' = [runtime EXCEPT ![r.member] = run]
                   /\ ~Switched(j) => run = runtime[r.member]
    BY <1>10 DEF AgentRollbackStops
  <2>2. j.tx = r.tx /\ r.op = "rollback" /\ agent' = [agent EXCEPT ![r.member] = j]
    BY <1>4, <1>10 DEF AgentRollbackStops, Accepted
  <2>3. NeverDecided(j.tx)
    BY <1>1, <1>3, <2>2, UndecidedNotEnded DEF NeverDecided, FollowsDecision
  <2>4. j.phase \in {"", "prepared"} => run = j.active
    BY <1>2, <2>1 DEF Switched, RunsPlan
  <2> HIDE DEF j
  <2> QED BY <1>0, <1>1, <1>2, <2>1, <2>2, <2>3, <2>4, RuntimeAt
<1>11. CASE AgentFinalizes(r)
  <2> DEFINE k == Closed(j, "finalized")
  <2>1. k \in AgentState /\ k.phase = "" /\ k.active = j.active
    BY <1>1, <1>2, JournalType DEF Closed, AgentState
  <2>2. j.tx = r.tx /\ j.phase = "committed" /\ r.tx \in decided
    BY <1>3, <1>11 DEF AgentFinalizes, Accepted, FollowsDecision
  <2>3. runtime[r.member] = k.active
    BY <1>2, <2>1, <2>2 DEF RunsPlan, NeverDecided
  <2>4. agent' = [agent EXCEPT ![r.member] = k]
        /\ runtime' = [runtime EXCEPT ![r.member] = runtime[r.member]]
    BY <1>4, <1>11 DEF AgentFinalizes
  <2> HIDE DEF k, j
  <2> QED BY <1>0, <1>1, <2>1, <2>3, <2>4, RuntimeAt
<1>12. CASE AgentAnswers(r) \/ AgentRefusesCandidate(r) \/ AgentFinalizeStops(r)
  BY <1>5, <1>12 DEF AgentAnswers, AgentRefusesCandidate, AgentFinalizeStops
<1> QED BY <1>6, <1>7, <1>8, <1>9, <1>10, <1>11, <1>12 DEF AgentNext

LEMMA NextRuntime ==
  OneCoordinator /\ TypeOK /\ DecisionInv /\ SavedInv /\ RuntimeInv /\ [Next]_vars
    => RuntimeInv'
<1> SUFFICES ASSUME OneCoordinator, TypeOK, DecisionInv, SavedInv, RuntimeInv, [Next]_vars
             PROVE  RuntimeInv'
  OBVIOUS
<1>1. CASE UNCHANGED <<agent, runtime>>
  BY <1>1, NeverDecidedStays DEF RuntimeInv, RunsPlan
<1>2. ASSUME NEW m \in Member, LocalApply(m) PROVE RuntimeInv'
  <2>1. /\ agent[m] \in AgentState /\ agent' = [agent EXCEPT ![m] = agent[m]]
        /\ runtime' = [runtime EXCEPT ![m] = agent[m].active]
    BY <1>2 DEF LocalApply, TypeOK
  <2> QED BY <2>1, RuntimeAt
<1>3. ASSUME NEW c \in Coord, CoordNext(c) PROVE UNCHANGED <<agent, runtime>>
  BY <1>3 DEF CoordNext, Load, Persist, PersistRefused, Recover, Send, Succeeded, Refused,
     TimedOut, Decide, DecideFails, Clear, Crash
<1>4. CASE Edit \/ UNCHANGED vars
  BY <1>1, <1>4 DEF Edit, vars
<1> QED BY <1>1, <1>2, <1>3, <1>4, AgentRuntime DEF Next

\* With one command of the coordinator at a time, a member outside any
\* transaction runs the plan its state declares, whatever commits, rollbacks
\* and reloads stopped half-way before (meshExecute).
THEOREM RuntimeIsDeclared == ASSUME OneCoordinator PROVE Spec => []RuntimeFollowsState
<1>1. OneCoordinator
  OBVIOUS
<1>2. TypeOK /\ DecisionInv /\ [Next]_vars => DecisionInv'
  BY <1>1, NextDecision
<1>3. TypeOK /\ DecisionInv /\ SavedInv /\ RuntimeInv /\ [Next]_vars => RuntimeInv'
  BY <1>1, NextRuntime
<1>4. TypeOK /\ SavedInv /\ RuntimeInv => RuntimeFollowsState
  BY DEF SavedInv, MembersSaved, SavedJournal, ClosedJournal, RuntimeInv, RunsPlan,
         RuntimeFollowsState
<1> QED BY InitDecision, InitSaved, InitRuntime, TypeCorrect, NextSaved, <1>2, <1>3, <1>4, PTL
        DEF Spec

--------------------------------------------------------------------------------
(* The order of the switch, when commands of the coordinator do not overlap:  *)
(* a member that answered its commit stays committed while the process can    *)
(* still decide, so what the loop has collected is still true at its end,     *)
(* where the master's turn comes.                                             *)

HasCommitted(m, t) == agent[m].tx = t /\ agent[m].phase = "committed"

LateElsewhere == \A r \in late : r.member # Master
MasterCalledLast ==
  \A c \in Coord :
    call[c] # NoCall /\ call[c].req.op = "commit" /\ call[c].req.member = Master =>
      todo[c] = {Master}
CommitAnswers ==
  \A c \in Coord :
    call[c].answer = "ok" /\ call[c].req.op = "commit" =>
      HasCommitted(call[c].req.member, call[c].req.tx)
CommitsCollected ==
  \A c \in Coord : pc[c] = "commit" =>
    \A m \in Member \ todo[c] : HasCommitted(m, job[c].tx)

SwitchInv == LateElsewhere /\ MasterCalledLast /\ CommitAnswers /\ CommitsCollected

LEMMA InitSwitch == Init => SwitchInv
<1> SUFFICES ASSUME Init PROVE SwitchInv
  OBVIOUS
<1>1. LateElsewhere /\ MasterCalledLast
  BY DEF Init, LateElsewhere, MasterCalledLast
<1>2. CommitAnswers /\ CommitsCollected
  BY DEF Init, CommitAnswers, CommitsCollected, NoCall
<1> QED BY <1>1, <1>2 DEF SwitchInv

\* A commit is only asked for by a process in its commit loop.
LEMMA CommitIsCalled ==
  ASSUME TypeOK, DecisionInv, NEW c \in Coord, call[c] # NoCall, call[c].req.op = "commit"
  PROVE  /\ pc[c] = "commit" /\ Undecided(c)
         /\ call[c].req.tx = job[c].tx /\ call[c].req.member \in Member
<1>1. call[c] \in Call /\ job[c] \in Rollout
  BY DEF TypeOK
<1>2. /\ pc[c] \in {"prepare", "commit", "finish"} /\ call[c].req.tx = job[c].tx
      /\ call[c].req.op = IF pc[c] = "finish" THEN job[c].decision ELSE pc[c]
  BY DEF DecisionInv, CallsFollow
<1>3. pc[c] = "commit"
  BY <1>1, <1>2 DEF Rollout, Decision
<1> QED BY <1>1, <1>2, <1>3 DEF Undecided, Call, Request

\* While its process can still decide, a committed member stays committed.
LEMMA CommittedStays ==
  ASSUME TypeOK, OneCoordinator, DecisionInv,
         NEW r \in late \cup PendingRequests, AgentNext(r),
         NEW c \in Coord, Undecided(c), NEW m \in Member, HasCommitted(m, job[c].tx)
  PROVE  HasCommitted(m, job[c].tx)'
<1> DEFINE j == agent[r.member]
<1>0. job[c].tx \in Tx /\ job[c].tx # NoTx
  BY TxAssumption DEF TypeOK, Undecided
<1>1. UNCHANGED job /\ r.member \in Member /\ InFlight(r)
  BY InFlightType DEF Request, AgentNext, AgentAnswers, AgentPrepares,
     AgentRefusesCandidate, AgentCommits, AgentCommitStops, AgentRollsBack,
     AgentRollbackStops, AgentFinalizes, AgentFinalizeStops, coordVars
<1>2. CASE agent'[m] = agent[m]
  BY <1>1, <1>2 DEF HasCommitted
<1>3. CASE UNCHANGED agent
  BY <1>2, <1>3
<1>4. CASE AgentPrepares(r) \/ AgentCommits(r) \/ AgentCommitStops(r)
  <2>1. j.tx = NoTx \/ j.phase # "committed"
    BY <1>4 DEF AgentPrepares, AgentCommits, AgentCommitStops, Accepted
  <2>2. m # r.member
    BY <1>0, <2>1 DEF HasCommitted
  <2>3. \E k : agent' = [agent EXCEPT ![r.member] = k]
    BY <1>4 DEF AgentPrepares, AgentCommits, AgentCommitStops
  <2> QED BY <1>2, <2>2, <2>3 DEF TypeOK
<1>5. CASE AgentRollsBack(r) \/ AgentFinalizes(r)
  <2>1. j.tx = r.tx /\ r.op \in {"rollback", "finalize"}
    BY <1>5 DEF AgentRollsBack, AgentFinalizes, Accepted
  <2>2. m # r.member
    BY <1>1, <2>1, UndecidedNotEnded DEF HasCommitted
  <2>3. \E k : agent' = [agent EXCEPT ![r.member] = k]
    BY <1>5 DEF AgentRollsBack, AgentFinalizes
  <2> QED BY <1>2, <2>2, <2>3 DEF TypeOK
<1> QED BY <1>3, <1>4, <1>5 DEF AgentNext, AgentAnswers, AgentRefusesCandidate,
     AgentRollbackStops, AgentFinalizeStops

\* A bad answer is not a good one.
LEMMA ErrorIsNotOk ==
  ASSUME TypeOK, NEW r, Arrives(r, "error"), NEW c \in Coord, call[c].answer = "pending"
  PROVE  call'[c].answer # "ok"
<1>1. CASE UNCHANGED call
  BY <1>1
<1>2. ASSUME NEW d \in Coord, call' = [call EXCEPT ![d].answer = "error"]
      PROVE  call'[c].answer # "ok"
  <2>1. CASE c = d
    <3>1. call'[c] = [call[c] EXCEPT !.answer = "error"]
      BY <1>2, <2>1 DEF TypeOK
    <3>2. "answer" \in DOMAIN call[c]
      BY DEF TypeOK, Call, NoCall
    <3> QED BY <3>1, <3>2
  <2>2. CASE c # d
    BY <1>2, <2>2 DEF TypeOK
  <2> QED BY <2>1, <2>2
<1> QED BY <1>1, <1>2 DEF Arrives

\* A good answer to a commit comes from a member that has committed.
LEMMA CommitAnswered ==
  ASSUME TypeOK, NEW r \in Request, AgentNext(r), r.op = "commit",
         NEW c \in Coord, call[c].answer = "pending", call'[c].answer = "ok"
  PROVE  HasCommitted(r.member, r.tx)'
<1> DEFINE j == agent[r.member]
<1>0. r.member \in Member /\ j \in AgentState /\ ~Arrives(r, "error")
  BY ErrorIsNotOk DEF Request, TypeOK
<1>1. CASE AgentAnswers(r)
  <2>1. Repeated(j, r) /\ UNCHANGED agent
    BY <1>0, <1>1 DEF AgentAnswers
  <2>2. j.tx = r.tx /\ j.phase = "committed"
    BY <2>1 DEF Repeated
  <2> QED BY <2>1, <2>2 DEF HasCommitted
<1>2. CASE AgentCommits(r)
  <2>1. agent' = [agent EXCEPT ![r.member] = Committed(j)] /\ j.tx = r.tx
    BY <1>2 DEF AgentCommits, Accepted
  <2>2. Committed(j).tx = j.tx /\ Committed(j).phase = "committed"
    BY <1>0 DEF Committed, AgentState
  <2>3. agent'[r.member] = Committed(j)
    BY <1>0, <2>1 DEF TypeOK
  <2> QED BY <2>1, <2>2, <2>3 DEF HasCommitted
<1> QED BY <1>0, <1>1, <1>2 DEF AgentNext, AgentPrepares, AgentRefusesCandidate,
     AgentCommitStops, AgentRollsBack, AgentRollbackStops, AgentFinalizes, AgentFinalizeStops

LEMMA AgentSwitch ==
  ASSUME TypeOK, OneCoordinator, DecisionInv, SwitchInv,
         NEW r \in late \cup PendingRequests, AgentNext(r)
  PROVE  SwitchInv'
<1>0. r \in Request /\ UNCHANGED <<pc, job, todo>>
  BY InFlightType DEF AgentNext, AgentAnswers, AgentPrepares, AgentRefusesCandidate,
     AgentCommits, AgentCommitStops, AgentRollsBack, AgentRollbackStops, AgentFinalizes,
     AgentFinalizeStops, coordVars
<1>1. PICK answer \in {"ok", "error"} : Arrives(r, answer)
  BY DEF AgentNext, AgentAnswers, AgentPrepares, AgentRefusesCandidate, AgentCommits,
         AgentCommitStops, AgentRollsBack, AgentRollbackStops, AgentFinalizes,
         AgentFinalizeStops
<1>2. LateElsewhere'
  BY <1>1 DEF Arrives, SwitchInv, LateElsewhere
<1>3. ASSUME NEW c \in Coord, call'[c] # NoCall
      PROVE  /\ call[c] # NoCall /\ call'[c].req = call[c].req
             /\ \/ call'[c].answer = call[c].answer
                \/ call[c].req = r /\ call[c].answer = "pending"
  <2>1. CASE UNCHANGED call
    BY <1>3, <2>1
  <2>2. ASSUME NEW d \in Coord, call[d] = [req |-> r, answer |-> "pending"],
               call' = [call EXCEPT ![d].answer = answer]
        PROVE  /\ call[c] # NoCall /\ call'[c].req = call[c].req
               /\ \/ call'[c].answer = call[c].answer
                  \/ call[c].req = r /\ call[c].answer = "pending"
    <3>1. call'[d] = [req |-> r, answer |-> answer] /\ call[d] # NoCall
      BY <2>2 DEF TypeOK, NoCall
    <3>2. c # d => call'[c] = call[c]
      BY <2>2 DEF TypeOK
    <3> QED BY <1>3, <2>2, <3>1, <3>2
  <2> QED BY <1>1, <2>1, <2>2 DEF Arrives
<1>4. MasterCalledLast'
  BY <1>0, <1>3 DEF SwitchInv, MasterCalledLast
<1>5. CommitAnswers'
  <2> SUFFICES ASSUME NEW c \in Coord, call'[c].answer = "ok", call'[c].req.op = "commit"
               PROVE  HasCommitted(call[c].req.member, call[c].req.tx)'
    BY DEF CommitAnswers, HasCommitted
  <2>1. call'[c] # NoCall
    BY DEF NoCall
  <2>2. /\ pc[c] = "commit" /\ Undecided(c)
        /\ call[c].req.tx = job[c].tx /\ call[c].req.member \in Member
    BY <1>3, <2>1, CommitIsCalled
  <2>3. CASE call[c].answer = "ok"
    <3>1. PICK m \in Member : m = call[c].req.member
      BY <2>2
    <3>2. HasCommitted(m, job[c].tx)
      BY <1>3, <2>1, <2>2, <2>3, <3>1 DEF SwitchInv, CommitAnswers
    <3>3. HasCommitted(m, job[c].tx)'
      BY <2>2, <3>2, CommittedStays
    <3> QED BY <1>0, <1>3, <2>1, <2>2, <3>1, <3>3 DEF HasCommitted
  <2>4. CASE call[c].answer # "ok"
    BY <1>0, <1>3, <2>1, <2>4, CommitAnswered
  <2> QED BY <2>3, <2>4
<1>6. CommitsCollected'
  <2> SUFFICES ASSUME NEW c \in Coord, pc[c] = "commit", NEW m \in Member \ todo[c]
               PROVE  HasCommitted(m, job[c].tx)'
    BY <1>0 DEF CommitsCollected
  <2>1. HasCommitted(m, job[c].tx) /\ Undecided(c)
    BY DEF SwitchInv, CommitsCollected, Undecided
  <2> QED BY <2>1, CommittedStays
<1> QED BY <1>2, <1>4, <1>5, <1>6 DEF SwitchInv

\* No step of the coordinator breaks the invariant.
LEMMA CoordSwitch ==
  ASSUME TypeOK, OneCoordinator, DecisionInv, SwitchInv, NEW c \in Coord, CoordNext(c)
  PROVE  SwitchInv'
<1>0. UNCHANGED agent /\ \A d \in Coord : d = c
  BY DEF OneCoordinator, CoordNext, Load, Persist, PersistRefused, Recover, Send, Succeeded,
     Refused, TimedOut, Decide, DecideFails, Clear, Crash
<1>1. ASSUME NEW x, StartFinish(c, x) PROVE pc'[c] = "finish"
  BY <1>1 DEF StartFinish, Goto, TypeOK
<1>2. ASSUME Leave(c) PROVE pc'[c] = "idle"
  BY <1>2 DEF Leave, Goto, TypeOK
<1>3. ASSUME NEW place, NEW members, Enter(c, place, members)
      PROVE  pc'[c] = place /\ todo'[c] = members
  BY <1>3 DEF Enter, Goto, TypeOK
<1>4. ASSUME call' = [call EXCEPT ![c] = NoCall] PROVE call'[c] = NoCall
  BY <1>4 DEF TypeOK
<1>5. ASSUME LateElsewhere', call'[c] = NoCall, pc'[c] # "commit" PROVE SwitchInv'
  BY <1>0, <1>5 DEF SwitchInv, MasterCalledLast, CommitAnswers, CommitsCollected, NoCall
<1>6. ASSUME UNCHANGED late PROVE LateElsewhere'
  BY <1>6 DEF SwitchInv, LateElsewhere
<1>7. ASSUME Abandon(c) PROVE LateElsewhere'
  BY <1>7 DEF Abandon, SwitchInv, LateElsewhere
<1>8. call[c] # NoCall => pc[c] \in {"prepare", "commit", "finish"}
  BY DEF DecisionInv, CallsFollow
<1>9. CASE Load(c) \/ (\E t \in Tx : Persist(c, t)) \/ PersistRefused(c) \/ Recover(c)
           \/ Decide(c) \/ DecideFails(c) \/ Clear(c)
  <2>1. UNCHANGED <<call, late>> /\ pc[c] \in {"idle", "begin", "decide", "clear"}
    BY <1>9 DEF Load, Persist, PersistRefused, Recover, Decide, DecideFails, Clear
  <2>2. pc'[c] # "commit"
    BY <1>1, <1>2, <1>9 DEF Load, Persist, PersistRefused, Recover, Decide, DecideFails,
       Clear, Goto, TypeOK
  <2> QED BY <1>5, <1>6, <1>8, <2>1, <2>2
<1>10. ASSUME NEW m \in Member, Send(c, m) PROVE SwitchInv'
  <2>1. UNCHANGED <<pc, job, todo, late>> /\ Turn(c, m)
    BY <1>10 DEF Send, coordVars
  <2>2. /\ call'[c].answer = "pending" /\ call'[c].req.member = m
        /\ call'[c].req.op = "commit" => pc[c] \in {"commit", "finish"}
        /\ call'[c].req.op = "commit" /\ pc[c] = "finish" => job[c].decision = "commit"
    BY <1>10 DEF Send, TypeOK
  <2>3. job[c].decision # "commit"
    BY DEF TypeOK, Rollout, Decision
  <2>4. MasterCalledLast'
    BY <1>0, <2>1, <2>2, <2>3 DEF Turn, MasterCalledLast
  <2>5. CommitAnswers'
    BY <1>0, <2>2 DEF CommitAnswers
  <2>6. CommitsCollected'
    BY <1>0, <2>1 DEF SwitchInv, CommitsCollected, HasCommitted
  <2> QED BY <1>6, <2>1, <2>4, <2>5, <2>6 DEF SwitchInv
<1>11. CASE Succeeded(c)
  <2>1. /\ call[c].answer = "ok" /\ call[c] # NoCall
        /\ call'[c] = NoCall /\ UNCHANGED late
    BY <1>4, <1>11 DEF Succeeded, NoCall
  <2>2. MasterCalledLast' /\ CommitAnswers'
    BY <1>0, <2>1 DEF MasterCalledLast, CommitAnswers, NoCall
  <2>3. CASE Continue(c, Rest(c))
    <3>1. UNCHANGED <<pc, job>> /\ todo'[c] = todo[c] \ {call[c].req.member}
      BY <2>3 DEF Continue, Rest, TypeOK
    <3>2. ASSUME pc[c] = "commit" PROVE HasCommitted(call[c].req.member, job[c].tx)
      <4>1. call[c].req.op = "commit" /\ call[c].req.tx = job[c].tx
        BY <2>1, <3>2 DEF DecisionInv, CallsFollow
      <4> QED BY <2>1, <4>1 DEF SwitchInv, CommitAnswers
    <3>3. CommitsCollected'
      BY <1>0, <3>1, <3>2 DEF SwitchInv, CommitsCollected, HasCommitted
    <3> QED BY <1>6, <2>1, <2>2, <3>3 DEF SwitchInv
  <2>4. CASE Enter(c, "commit", Member)
    <3>1. CommitsCollected'
      BY <1>0, <1>3, <2>4 DEF CommitsCollected
    <3> QED BY <1>6, <2>1, <2>2, <3>1 DEF SwitchInv
  <2>5. CASE Enter(c, "decide", {}) \/ Enter(c, "clear", {}) \/ Leave(c)
    BY <1>2, <1>3, <1>5, <1>6, <2>1, <2>5
  <2> QED BY <1>11, <2>3, <2>4, <2>5 DEF Succeeded
<1>12. ASSUME GivesUp(c), LateElsewhere' PROVE SwitchInv'
  <2>1. pc'[c] # "commit"
    BY <1>1, <1>2, <1>12 DEF GivesUp, Continue
  <2> QED BY <1>4, <1>5, <1>12, <2>1 DEF GivesUp
<1>13. CASE Refused(c) \/ TimedOut(c)
  BY <1>6, <1>7, <1>12, <1>13 DEF Refused, TimedOut
<1>14. CASE Crash(c)
  BY <1>2, <1>4, <1>5, <1>7, <1>14 DEF Crash
<1> QED BY <1>9, <1>10, <1>11, <1>13, <1>14 DEF CoordNext

LEMMA NextSwitch ==
  OneCoordinator /\ TypeOK /\ DecisionInv /\ SwitchInv /\ [Next]_vars => SwitchInv'
<1> SUFFICES ASSUME OneCoordinator, TypeOK, DecisionInv, SwitchInv, [Next]_vars
             PROVE  SwitchInv'
  OBVIOUS
<1>1. CASE Edit \/ UNCHANGED vars \/ \E m \in Member : LocalApply(m)
  <2>1. UNCHANGED <<agent, pc, job, todo, call, late>>
    BY <1>1 DEF Edit, LocalApply, vars, coordVars
  <2> QED BY <2>1 DEF SwitchInv, LateElsewhere, MasterCalledLast, CommitAnswers,
                      CommitsCollected, HasCommitted
<1> QED BY <1>1, AgentSwitch, CoordSwitch DEF Next

\* A step that switches the master finds every slave committed.
LEMMA MasterFindsSlavesCommitted ==
  ASSUME TypeOK, DecisionInv, SwitchInv, [Next]_vars,
         agent'[Master].phase \in {"committing", "committed"}, ~Switched(agent[Master]),
         NEW m \in Member \ {Master}
  PROVE  agent[m].tx = agent'[Master].tx /\ agent[m].phase = "committed"
<1>0. Master \in Member /\ agent[Master] \in AgentState
  BY MasterAssumption DEF TypeOK
<1>1. agent'[Master] # agent[Master]
  BY DEF Switched
<1>2. PICK r \in late \cup PendingRequests : AgentNext(r)
  <2>1. ASSUME NEW c \in Coord, CoordNext(c) PROVE UNCHANGED agent
    BY <2>1 DEF CoordNext, Load, Persist, PersistRefused, Recover, Send, Succeeded, Refused,
       TimedOut, Decide, DecideFails, Clear, Crash
  <2> QED BY <1>1, <2>1 DEF Next, Edit, LocalApply, vars
<1> DEFINE j == agent[r.member]
<1>3. r \in Request /\ InFlight(r)
  BY <1>2, InFlightType DEF AgentNext, AgentAnswers, AgentPrepares, AgentRefusesCandidate,
     AgentCommits, AgentCommitStops, AgentRollsBack, AgentRollbackStops, AgentFinalizes,
     AgentFinalizeStops
<1>4. r.member = Master
  <2>1. UNCHANGED agent \/ \E k : agent' = [agent EXCEPT ![r.member] = k]
    BY <1>2 DEF AgentNext, AgentAnswers, AgentPrepares, AgentRefusesCandidate,
       AgentCommits, AgentCommitStops, AgentRollsBack, AgentRollbackStops, AgentFinalizes,
       AgentFinalizeStops
  <2> HIDE DEF j
  <2> QED BY <1>0, <1>1, <2>1 DEF TypeOK
<1>5. /\ Prepared(j, r).phase = "prepared" /\ RolledBack(j).phase = ""
      /\ Closed(j, "finalized").phase = ""
  <2>1. \A how : Closed(j, how).phase = ""
    BY <1>0, <1>4 DEF Closed, AgentState
  <2>2. [j EXCEPT !.active = IF Switched(j) THEN j.previous ELSE j.active] \in AgentState
    BY <1>0, <1>4 DEF AgentState
  <2>3. RolledBack(j).phase = ""
    BY <2>2 DEF RolledBack, Closed, AgentState
  <2>4. Prepared(j, r).phase = "prepared"
    BY <1>0, <1>4 DEF Prepared, AgentState
  <2> QED BY <2>1, <2>3, <2>4
<1>6. AgentCommits(r) \/ AgentCommitStops(r)
  <2>1. \A k : agent' = [agent EXCEPT ![r.member] = k] => agent'[Master] = k
    BY <1>0, <1>4 DEF TypeOK
  <2> HIDE DEF j
  <2>2. ~AgentPrepares(r) /\ ~AgentRollsBack(r) /\ ~AgentFinalizes(r)
    BY <1>5, <2>1 DEF AgentPrepares, AgentRollsBack, AgentFinalizes, j
  <2> QED BY <1>1, <1>2, <2>2 DEF AgentNext, AgentAnswers, AgentRefusesCandidate,
             AgentRollbackStops, AgentFinalizeStops
<1>7. r.op = "commit" /\ j.tx = r.tx
  BY <1>6 DEF AgentCommits, AgentCommitStops, Accepted
<1>8. agent'[Master].tx = r.tx
  <2>1. Committed(j).tx = j.tx /\ Committing(j).tx = j.tx
    BY <1>0, <1>4 DEF Committed, Committing, AgentState
  <2>2. agent'[Master] \in {Committed(j), Committing(j)}
    BY <1>0, <1>4, <1>6 DEF AgentCommits, AgentCommitStops, TypeOK
  <2> QED BY <1>7, <2>1, <2>2
<1>9. PICK c \in Coord : call[c] = [req |-> r, answer |-> "pending"]
  BY <1>3, <1>4 DEF InFlight, SwitchInv, LateElsewhere
<1>10. call[c] # NoCall /\ call[c].req = r
  BY <1>9 DEF NoCall
<1>11. todo[c] = {Master}
  BY <1>4, <1>7, <1>10 DEF SwitchInv, MasterCalledLast
<1>12. pc[c] = "commit" /\ r.tx = job[c].tx
  BY <1>7, <1>10, CommitIsCalled
<1> QED BY <1>8, <1>11, <1>12 DEF SwitchInv, CommitsCollected, HasCommitted

\* With one command of the coordinator at a time, the master switches to a new
\* plan only when every slave has committed that transaction, so that the
\* entries users connect to never precede what they lead to (meshCoordinate).
THEOREM MasterGoesLast == ASSUME OneCoordinator PROVE Spec => MasterSwitchesLast
<1> DEFINE Step ==
      agent'[Master].phase = "committing" \/ agent'[Master].phase = "committed" =>
        Switched(agent[Master]) \/
        \A m \in Member \ {Master} :
          agent[m].tx = agent'[Master].tx /\ agent[m].phase = "committed"
<1>1. OneCoordinator
  OBVIOUS
<1>2. TypeOK /\ DecisionInv /\ [Next]_vars => DecisionInv'
  BY <1>1, NextDecision
<1>3. TypeOK /\ DecisionInv /\ SwitchInv /\ [Next]_vars => SwitchInv'
  BY <1>1, NextSwitch
<1>4. TypeOK /\ DecisionInv /\ SwitchInv /\ [Next]_vars => [Step]_vars
  BY MasterFindsSlavesCommitted
<1> QED BY InitDecision, InitSwitch, TypeCorrect, <1>2, <1>3, <1>4, PTL
        DEF Spec, MasterSwitchesLast

--------------------------------------------------------------------------------
(* Who still holds a transaction.  A member outside the transaction of the    *)
(* journal can only be one that ran a prepare its coordinator had given up:   *)
(* the rest of the protocol never leaves a member behind.                     *)

NoLatePrepare == \A r \in late : r.op # "prepare"
JobIsJournal ==
  \A c \in Coord : pc[c] \notin {"idle", "begin"} => job[c].tx = journal.tx
EndAnswers ==
  \A c \in Coord :
    pc[c] = "finish" /\ call[c].answer = "ok" => agent[call[c].req.member].tx = NoTx
EndsCollected ==
  \A c \in Coord : pc[c] = "finish" /\ ~failed[c] =>
    \A m \in Member \ todo[c] : agent[m].tx = NoTx
AllEnded ==
  \A c \in Coord : pc[c] = "clear" => \A m \in Member : agent[m].tx = NoTx

CoverInv ==
  /\ JournalCoversOpenTransactions
  /\ NoLatePrepare /\ JobIsJournal /\ EndAnswers /\ EndsCollected /\ AllEnded

LEMMA InitCover == Init => CoverInv
<1> SUFFICES ASSUME Init PROVE CoverInv
  OBVIOUS
<1>1. \A m \in Member : agent[m].tx = NoTx
  BY DEF Init, Joined
<1>2. late = {} /\ \A c \in Coord : pc[c] = "idle"
  BY DEF Init
<1> QED BY <1>1, <1>2 DEF CoverInv, JournalCoversOpenTransactions, NoLatePrepare,
           JobIsJournal, EndAnswers, EndsCollected, AllEnded

\* What executing a request does to the transaction its member holds.
LEMMA HeldAfter ==
  ASSUME TypeOK, NEW r \in Request, AgentNext(r)
  PROVE  /\ \A m \in Member : m # r.member => agent'[m] = agent[m]
         /\ \/ agent'[r.member].tx \in {agent[r.member].tx, NoTx}
            \/ r.op = "prepare" /\ agent'[r.member].tx = r.tx
<1> DEFINE j == agent[r.member]
<1>0. r.member \in Member /\ j \in AgentState
  BY DEF Request, TypeOK
<1>1. ASSUME NEW k, agent' = [agent EXCEPT ![r.member] = k]
      PROVE  agent'[r.member] = k /\ \A m \in Member : m # r.member => agent'[m] = agent[m]
  BY <1>0, <1>1 DEF TypeOK
<1>2. /\ Prepared(j, r).tx = r.tx
      /\ Committed(j).tx = j.tx /\ Committing(j).tx = j.tx
      /\ Closed(j, "finalized").tx = NoTx /\ RolledBack(j).tx = NoTx
  <2>1. Prepared(j, r).tx = r.tx /\ Committed(j).tx = j.tx /\ Committing(j).tx = j.tx
    BY <1>0 DEF Prepared, Committed, Committing, AgentState
  <2>2. \A i \in AgentState : \A how : Closed(i, how).tx = NoTx
    BY DEF Closed, AgentState
  <2>3. [j EXCEPT !.active = IF Switched(j) THEN j.previous ELSE j.active] \in AgentState
    BY <1>0 DEF AgentState
  <2> QED BY <1>0, <2>1, <2>2, <2>3 DEF RolledBack
<1> HIDE DEF j
<1>3. CASE AgentPrepares(r)
  BY <1>1, <1>2, <1>3 DEF AgentPrepares, j
<1>4. CASE AgentCommits(r) \/ AgentCommitStops(r)
  BY <1>1, <1>2, <1>4 DEF AgentCommits, AgentCommitStops, j
<1>5. CASE AgentRollsBack(r)
  BY <1>1, <1>2, <1>5 DEF AgentRollsBack, j
<1>6. CASE AgentFinalizes(r)
  BY <1>1, <1>2, <1>6 DEF AgentFinalizes, j
<1>7. CASE UNCHANGED agent
  BY <1>7
<1> QED BY <1>3, <1>4, <1>5, <1>6, <1>7 DEF AgentNext, AgentAnswers,
           AgentRefusesCandidate, AgentRollbackStops, AgentFinalizeStops

\* A prepare that is still in flight belongs to a process in its prepare loop.
LEMMA PrepareIsCalled ==
  ASSUME TypeOK, OneCoordinator, DecisionInv, CoverInv,
         NEW r \in late \cup PendingRequests, r.op = "prepare", NEW c \in Coord
  PROVE  pc[c] = "prepare" /\ r.tx = journal.tx
<1>1. PICK d \in Coord : call[d].answer = "pending" /\ call[d].req = r
  BY DEF CoverInv, NoLatePrepare, PendingRequests
<1>2. d = c /\ call[c] # NoCall
  BY <1>1 DEF OneCoordinator, NoCall
<1>3. /\ pc[c] \in {"prepare", "commit", "finish"} /\ r.tx = job[c].tx
      /\ r.op = IF pc[c] = "finish" THEN job[c].decision ELSE pc[c]
  BY <1>1, <1>2 DEF DecisionInv, CallsFollow
<1>4. job[c].decision # "prepare"
  BY DEF TypeOK, Rollout, Decision
<1> QED BY <1>3, <1>4 DEF CoverInv, JobIsJournal

\* A good answer to a decision comes from a member that holds nothing any more.
LEMMA EndAnswered ==
  ASSUME TypeOK, NEW r \in Request, AgentNext(r), r.op \in Decision,
         NEW c \in Coord, call[c].answer = "pending", call'[c].answer = "ok"
  PROVE  agent'[r.member].tx = NoTx
<1> DEFINE j == agent[r.member]
<1>0. r.member \in Member /\ j \in AgentState /\ ~Arrives(r, "error")
  BY ErrorIsNotOk DEF Request, TypeOK
<1>1. CASE AgentAnswers(r)
  BY <1>0, <1>1 DEF AgentAnswers, Repeated, Ended, Decision
<1>2. \A i \in AgentState : \A how : Closed(i, how).tx = NoTx
  BY DEF Closed, AgentState
<1>3. ASSUME NEW k, agent' = [agent EXCEPT ![r.member] = k]
      PROVE  agent'[r.member] = k
  BY <1>0, <1>3 DEF TypeOK
<1>4. [j EXCEPT !.active = IF Switched(j) THEN j.previous ELSE j.active] \in AgentState
  BY <1>0 DEF AgentState
<1>5. CASE AgentRollsBack(r)
  BY <1>2, <1>3, <1>4, <1>5 DEF AgentRollsBack, RolledBack
<1>6. CASE AgentFinalizes(r)
  BY <1>0, <1>2, <1>3, <1>6 DEF AgentFinalizes
<1> QED BY <1>0, <1>1, <1>5, <1>6 DEF AgentNext, AgentPrepares, AgentRefusesCandidate,
           AgentCommits, AgentCommitStops, AgentRollbackStops, AgentFinalizeStops, Decision

\* No step of an agent breaks the invariant.
LEMMA AgentCover ==
  ASSUME TypeOK, OneCoordinator, DecisionInv, CoverInv,
         NEW r \in late \cup PendingRequests, AgentNext(r)
  PROVE  CoverInv'
<1>0. r \in Request /\ r.member \in Member /\ UNCHANGED <<pc, job, todo, failed, journal>>
  BY InFlightType DEF Request, AgentNext, AgentAnswers, AgentPrepares, AgentRefusesCandidate,
     AgentCommits, AgentCommitStops, AgentRollsBack, AgentRollbackStops, AgentFinalizes,
     AgentFinalizeStops, coordVars
<1>1. PICK answer \in {"ok", "error"} : Arrives(r, answer)
  BY DEF AgentNext, AgentAnswers, AgentPrepares, AgentRefusesCandidate, AgentCommits,
         AgentCommitStops, AgentRollsBack, AgentRollbackStops, AgentFinalizes,
         AgentFinalizeStops
<1>2. NoLatePrepare'
  BY <1>1 DEF Arrives, CoverInv, NoLatePrepare
<1>3. \A m \in Member :
        \/ agent'[m].tx \in {agent[m].tx, NoTx}
        \/ r.op = "prepare" /\ agent'[m].tx = r.tx
  BY <1>0, HeldAfter
<1>4. ASSUME NEW c \in Coord, pc[c] # "prepare", NEW m \in Member, agent[m].tx = NoTx
      PROVE  agent'[m].tx = NoTx
  BY <1>3, <1>4, PrepareIsCalled
<1>5. JournalCoversOpenTransactions'
  <2>1. ASSUME r.op = "prepare" PROVE r.tx = journal.tx
    <3>1. PICK d \in Coord : call[d].answer = "pending" /\ call[d].req = r
      BY <2>1 DEF CoverInv, NoLatePrepare, PendingRequests
    <3> QED BY <2>1, <3>1, PrepareIsCalled
  <2> QED BY <1>0, <1>3, <2>1 DEF CoverInv, JournalCoversOpenTransactions
<1>6. JobIsJournal'
  BY <1>0 DEF CoverInv, JobIsJournal
<1>7. EndAnswers'
  <2> SUFFICES ASSUME NEW c \in Coord, pc[c] = "finish", call'[c].answer = "ok"
               PROVE  agent'[call'[c].req.member].tx = NoTx
    BY <1>0 DEF EndAnswers
  <2>1. /\ call[c] # NoCall /\ call'[c].req = call[c].req
        /\ \/ call[c].answer = "ok"
           \/ call[c].req = r /\ call[c].answer = "pending"
    <3>1. CASE UNCHANGED call
      BY <3>1 DEF NoCall
    <3>2. ASSUME NEW d \in Coord, call[d] = [req |-> r, answer |-> "pending"],
                 call' = [call EXCEPT ![d].answer = answer]
          PROVE  /\ call[c] # NoCall /\ call'[c].req = call[c].req
                 /\ \/ call[c].answer = "ok"
                    \/ call[c].req = r /\ call[c].answer = "pending"
      <4>1. call'[d] = [req |-> r, answer |-> answer] /\ call[d] # NoCall
        BY <3>2 DEF TypeOK, NoCall
      <4>2. c # d => call'[c] = call[c]
        BY <3>2 DEF TypeOK
      <4> QED BY <3>2, <4>1, <4>2 DEF NoCall
    <3> QED BY <1>1, <3>1, <3>2 DEF Arrives
  <2>2. call[c].req.member \in Member /\ call[c].req.op \in Decision
    <3>1. call[c].req.op = job[c].decision
      BY <2>1 DEF DecisionInv, CallsFollow
    <3> QED BY <2>1, <3>1 DEF TypeOK, Call, Request, Rollout
  <2>3. CASE call[c].answer = "ok"
    <3>1. agent[call[c].req.member].tx = NoTx
      BY <2>3 DEF CoverInv, EndAnswers
    <3> QED BY <1>4, <2>1, <2>2, <3>1
  <2>4. CASE call[c].req = r /\ call[c].answer = "pending"
    BY <1>0, <2>1, <2>2, <2>4, EndAnswered
  <2> QED BY <2>1, <2>3, <2>4
<1>8. EndsCollected'
  BY <1>0, <1>4 DEF CoverInv, EndsCollected
<1>9. AllEnded'
  BY <1>0, <1>4 DEF CoverInv, AllEnded
<1> QED BY <1>2, <1>5, <1>6, <1>7, <1>8, <1>9 DEF CoverInv

\* No step of the coordinator breaks the invariant.
LEMMA CoordCover ==
  ASSUME TypeOK, OneCoordinator, "prepare" \notin Late, DecisionInv, CoverInv,
         NEW c \in Coord, CoordNext(c)
  PROVE  CoverInv'
<1>0. UNCHANGED agent /\ \A d \in Coord : d = c
  BY DEF OneCoordinator, CoordNext, Load, Persist, PersistRefused, Recover, Send, Succeeded,
     Refused, TimedOut, Decide, DecideFails, Clear, Crash
<1>1. ASSUME NEW x, StartFinish(c, x)
      PROVE  pc'[c] = "finish" /\ job'[c] = x /\ todo'[c] = Member
  BY <1>1 DEF StartFinish, Goto, TypeOK
<1>2. ASSUME Leave(c) PROVE pc'[c] = "idle"
  BY <1>2 DEF Leave, Goto, TypeOK
<1>3. ASSUME NEW place, NEW members, Enter(c, place, members)
      PROVE  pc'[c] = place /\ todo'[c] = members /\ job'[c] = job[c]
  BY <1>3 DEF Enter, Goto, TypeOK
<1>4. ASSUME call' = [call EXCEPT ![c] = NoCall] PROVE call'[c] = NoCall
  BY <1>4 DEF TypeOK
<1>5. NoLatePrepare'
  <2>1. CASE UNCHANGED late
    BY <2>1 DEF CoverInv, NoLatePrepare
  <2>2. CASE Abandon(c)
    BY <2>2 DEF Abandon, CoverInv, NoLatePrepare
  <2> QED BY <2>1, <2>2 DEF CoordNext, Load, Persist, PersistRefused, Recover, Send,
             Succeeded, Refused, TimedOut, Decide, DecideFails, Clear, Crash
<1>6. \A m \in Member : agent[m].tx # NoTx => agent[m].tx = journal.tx
  BY DEF CoverInv, JournalCoversOpenTransactions
<1>7. pc[c] \notin {"idle", "begin"} => job[c].tx = journal.tx
  BY DEF CoverInv, JobIsJournal
<1>8. call[c] # NoCall => pc[c] \in {"prepare", "commit", "finish"}
  BY DEF DecisionInv, CallsFollow
\* The process is outside the loop that ends a transaction, or at its start.
<1>9. ASSUME journal'.tx = journal.tx \/ \A m \in Member : agent[m].tx = NoTx,
             pc'[c] \notin {"idle", "begin"} => job'[c].tx = journal'.tx,
             call'[c] = NoCall, pc'[c] = "finish" => todo'[c] = Member,
             pc'[c] # "clear"
      PROVE  CoverInv'
  BY <1>0, <1>5, <1>6, <1>9 DEF CoverInv, JournalCoversOpenTransactions, JobIsJournal,
     EndAnswers, EndsCollected, AllEnded, NoCall
<1>10. CASE Load(c) \/ PersistRefused(c) \/ Recover(c) \/ DecideFails(c)
  <2>1. UNCHANGED <<call, journal>> /\ pc[c] \in {"idle", "begin", "decide"}
    BY <1>10 DEF Load, PersistRefused, Recover, DecideFails
  <2>2. \/ pc'[c] \in {"idle", "begin"}
        \/ pc'[c] = "finish" /\ todo'[c] = Member /\ job'[c].tx = journal.tx
    <3>1. CASE Load(c)
      <4>1. pc'[c] = "begin"
        BY <3>1 DEF Load, Goto, TypeOK
      <4> QED BY <4>1
    <3>2. CASE PersistRefused(c)
      <4>1. pc'[c] = "idle"
        BY <1>2, <3>2 DEF PersistRefused
      <4> QED BY <4>1
    <3>3. CASE Recover(c)
      BY <1>1, <3>3 DEF Recover
    <3>4. CASE DecideFails(c)
      BY <1>1, <1>7, <3>4 DEF DecideFails
    <3> QED BY <1>10, <3>1, <3>2, <3>3, <3>4
  <2> QED BY <1>8, <1>9, <2>1, <2>2
<1>11. ASSUME NEW t \in Tx, Persist(c, t) PROVE CoverInv'
  <2>1. /\ UNCHANGED call /\ pc[c] = "begin" /\ journal.tx = NoTx
        /\ pc'[c] = "prepare" /\ job'[c].tx = journal'.tx
    BY <1>11 DEF Persist, Goto, TypeOK
  <2> QED BY <1>6, <1>8, <1>9, <2>1
<1>12. CASE Decide(c)
  <2>1. UNCHANGED call /\ pc[c] = "decide" /\ journal'.tx = journal.tx
    BY <1>12 DEF Decide, TypeOK, Rollout
  <2>2. pc'[c] = "finish" /\ todo'[c] = Member /\ job'[c].tx = job[c].tx
    <3>1. [job[c] EXCEPT !.decision = "finalize"].tx = job[c].tx
      BY DEF TypeOK, Rollout
    <3> QED BY <1>1, <1>12, <3>1 DEF Decide
  <2> QED BY <1>7, <1>8, <1>9, <2>1, <2>2
<1>13. CASE Clear(c)
  <2>1. UNCHANGED call /\ pc[c] = "clear" /\ pc'[c] = "idle"
    BY <1>2, <1>13 DEF Clear
  <2>2. \A m \in Member : agent[m].tx = NoTx
    BY <2>1 DEF CoverInv, AllEnded
  <2> QED BY <1>8, <1>9, <2>1, <2>2
<1>14. CASE Crash(c)
  BY <1>2, <1>4, <1>9, <1>14 DEF Crash
<1>15. ASSUME NEW m \in Member, Send(c, m) PROVE CoverInv'
  <2>1. UNCHANGED <<pc, job, todo, failed, journal>> /\ call'[c].answer = "pending"
    BY <1>15 DEF Send, TypeOK, coordVars
  <2> QED BY <1>0, <1>5, <2>1 DEF CoverInv, JournalCoversOpenTransactions, JobIsJournal,
             EndAnswers, EndsCollected, AllEnded
<1>16. CASE Succeeded(c)
  <2>1. /\ call[c].answer = "ok" /\ call[c] # NoCall
        /\ call'[c] = NoCall /\ UNCHANGED journal
    BY <1>4, <1>16 DEF Succeeded, NoCall
  <2>2. JournalCoversOpenTransactions' /\ EndAnswers'
    BY <1>0, <1>6, <2>1 DEF JournalCoversOpenTransactions, EndAnswers, NoCall
  <2>3. pc[c] = "finish" => agent[call[c].req.member].tx = NoTx
    BY <2>1 DEF CoverInv, EndAnswers
  <2>4. CASE Continue(c, Rest(c))
    <3>1. UNCHANGED <<pc, job, failed>> /\ todo'[c] = todo[c] \ {call[c].req.member}
      BY <2>4 DEF Continue, Rest, TypeOK
    <3>2. EndsCollected'
      BY <1>0, <2>3, <3>1 DEF CoverInv, EndsCollected
    <3>3. AllEnded'
      BY <1>0, <3>1 DEF CoverInv, AllEnded
    <3>4. JobIsJournal'
      BY <2>1, <3>1 DEF CoverInv, JobIsJournal
    <3> QED BY <1>5, <2>2, <3>2, <3>3, <3>4 DEF CoverInv
  <2>5. CASE pc[c] \in {"prepare", "commit"} /\
             (Enter(c, "commit", Member) \/ Enter(c, "decide", {}))
    BY <1>3, <1>7, <1>9, <2>1, <2>5
  <2>6. CASE Rest(c) = {} /\ pc[c] = "finish" /\ ~failed[c] /\ Enter(c, "clear", {})
    <3>1. \A m \in Member : agent[m].tx = NoTx
      BY <2>3, <2>6 DEF CoverInv, EndsCollected, Rest
    <3>2. EndsCollected' /\ AllEnded'
      BY <1>0, <3>1 DEF EndsCollected, AllEnded
    <3>3. JobIsJournal'
      BY <1>0, <1>3, <1>7, <2>1, <2>6 DEF JobIsJournal
    <3> QED BY <1>5, <2>2, <3>2, <3>3 DEF CoverInv
  <2>7. CASE Leave(c)
    BY <1>2, <1>9, <2>1, <2>7
  <2> QED BY <1>16, <2>4, <2>5, <2>6, <2>7 DEF Succeeded
<1>17. CASE Refused(c) \/ TimedOut(c)
  <2>1. GivesUp(c) /\ UNCHANGED journal /\ call[c] # NoCall
    BY <1>17 DEF Refused, TimedOut, NoCall
  <2>2. call'[c] = NoCall
    BY <1>4, <2>1 DEF GivesUp
  <2>3. CASE pc[c] \in {"prepare", "commit"} /\ StartFinish(c, job[c])
    BY <1>1, <1>7, <1>9, <2>1, <2>2, <2>3
  <2>4. CASE Leave(c)
    BY <1>2, <1>9, <2>1, <2>2, <2>4
  <2>5. CASE pc[c] = "finish" /\ failed' = [failed EXCEPT ![c] = TRUE] /\ UNCHANGED <<pc, job>>
    <3>1. failed'[c]
      BY <2>5 DEF TypeOK
    <3>2. EndsCollected' /\ EndAnswers' /\ JournalCoversOpenTransactions'
      BY <1>0, <1>6, <2>1, <2>2, <3>1
         DEF EndsCollected, EndAnswers, JournalCoversOpenTransactions, NoCall
    <3>3. AllEnded' /\ JobIsJournal'
      BY <1>0, <2>1, <2>5 DEF CoverInv, AllEnded, JobIsJournal
    <3> QED BY <1>5, <3>2, <3>3 DEF CoverInv
  <2> QED BY <2>1, <2>3, <2>4, <2>5 DEF GivesUp
<1> QED BY <1>10, <1>11, <1>12, <1>13, <1>14, <1>15, <1>16, <1>17 DEF CoordNext

LEMMA NextCover ==
  /\ OneCoordinator /\ "prepare" \notin Late
  /\ TypeOK /\ DecisionInv /\ CoverInv /\ [Next]_vars
  => CoverInv'
<1> SUFFICES ASSUME OneCoordinator, "prepare" \notin Late,
                    TypeOK, DecisionInv, CoverInv, [Next]_vars
             PROVE  CoverInv'
  OBVIOUS
<1>1. CASE Edit \/ UNCHANGED vars \/ \E m \in Member : LocalApply(m)
  <2>1. UNCHANGED <<agent, journal, pc, job, todo, failed, call, late>>
    BY <1>1 DEF Edit, LocalApply, vars, coordVars
  <2> QED BY <2>1 DEF CoverInv, JournalCoversOpenTransactions, NoLatePrepare,
             JobIsJournal, EndAnswers, EndsCollected, AllEnded
<1> QED BY <1>1, AgentCover, CoordCover DEF Next

\* A member that holds an open transaction holds the one of the master's
\* journal, so that "recover" reaches it, unless commands of the coordinator
\* overlap or a slave runs a prepare that was given up (meshCoordinate,
\* meshFinishRollout).
THEOREM OpenTransactionsAreCovered ==
  ASSUME OneCoordinator, "prepare" \notin Late
  PROVE  Spec => []JournalCoversOpenTransactions
<1>1. OneCoordinator /\ "prepare" \notin Late
  OBVIOUS
<1>2. TypeOK /\ DecisionInv /\ [Next]_vars => DecisionInv'
  BY <1>1, NextDecision
<1>3. TypeOK /\ DecisionInv /\ CoverInv /\ [Next]_vars => CoverInv'
  BY <1>1, NextCover
<1>4. CoverInv => JournalCoversOpenTransactions
  BY DEF CoverInv
<1> QED BY InitDecision, InitCover, TypeCorrect, <1>2, <1>3, <1>4, PTL DEF Spec

--------------------------------------------------------------------------------
(* The rollout implements AtomicRollout, for every number of members,         *)
(* transactions, revisions and faults, when commands of the coordinator do    *)
(* not overlap.                                                               *)
(*                                                                            *)
(* A journal with the decision to finalize is cleared only when every member  *)
(* has finalized: the process has collected a good answer from each, and a    *)
(* good answer to "finalize" comes from a member that has finalized, now or   *)
(* in an earlier attempt its own journal remembers.                           *)

FinalizedIn(ends, t, m) ==
  \E x \in ends : x.tx = t /\ x.member = m /\ x.how = "finalized"

RemembersFinalized ==
  \A m \in Member :
    agent[m].lastOutcome = "finalized" => FinalizedIn(outcome, agent[m].lastTx, m)
AnswersFinalized ==
  \A c \in Coord :
    call[c].answer = "ok" /\ call[c].req.op = "finalize" =>
      FinalizedIn(outcome, call[c].req.tx, call[c].req.member)
FinishesFinalized ==
  \A c \in Coord :
    /\ pc[c] = "clear" => todo[c] = {} /\ ~failed[c]
    /\ pc[c] \in {"finish", "clear"} /\ ~failed[c] /\ job[c].decision = "finalize" =>
         \A m \in Member \ todo[c] : FinalizedIn(outcome, job[c].tx, m)

FinalizeInv == RemembersFinalized /\ AnswersFinalized /\ FinishesFinalized

\* Initially nobody has finalized, and nobody says so.
LEMMA InitFinalize == Init => FinalizeInv
<1> SUFFICES ASSUME Init PROVE FinalizeInv
  OBVIOUS
<1>1. RemembersFinalized
  BY DEF Init, RemembersFinalized, Joined
<1>2. AnswersFinalized
  BY DEF Init, AnswersFinalized, NoCall
<1>3. FinishesFinalized
  BY DEF Init, FinishesFinalized
<1> QED BY <1>1, <1>2, <1>3 DEF FinalizeInv

\* What was finalized stays finalized.
LEMMA FinalizedStays ==
  ASSUME outcome \subseteq outcome', NEW t, NEW m, FinalizedIn(outcome, t, m)
  PROVE  FinalizedIn(outcome', t, m)
BY DEF FinalizedIn

\* A good answer to a "finalize" request is true.
LEMMA AnswerIsTrue ==
  ASSUME TypeOK, FinalizeInv, outcome \subseteq outcome', NEW r \in Request,
         NEW answer \in {"ok", "error"}, Arrives(r, answer),
         r.op = "finalize" /\ answer = "ok" => FinalizedIn(outcome', r.tx, r.member)
  PROVE  AnswersFinalized'
<1>1. ASSUME NEW c \in Coord, call'[c] = call[c]
      PROVE  call'[c].answer = "ok" /\ call'[c].req.op = "finalize" =>
               FinalizedIn(outcome', call'[c].req.tx, call'[c].req.member)
  BY <1>1, FinalizedStays DEF FinalizeInv, AnswersFinalized
<1>2. CASE UNCHANGED call
  BY <1>1, <1>2 DEF AnswersFinalized
<1>3. ASSUME NEW c \in Coord,
             call[c] = [req |-> r, answer |-> "pending"],
             call' = [call EXCEPT ![c].answer = answer]
      PROVE  AnswersFinalized'
  <2>1. call'[c].req = r /\ call'[c].answer = answer
    BY <1>3 DEF TypeOK
  <2>2. \A d \in Coord : d # c => call'[d] = call[d]
    BY <1>3 DEF TypeOK
  <2> QED BY <1>1, <2>1, <2>2 DEF AnswersFinalized
<1> QED BY <1>2, <1>3 DEF Arrives

\* Recording an outcome only adds to what was finalized.
LEMMA RecordFinalizes ==
  ASSUME NEW m \in Member, NEW how, Record(m, how)
  PROVE  /\ outcome \subseteq outcome'
         /\ how = "finalized" => FinalizedIn(outcome', agent[m].tx, m)
<1> DEFINE x == [tx |-> agent[m].tx, member |-> m, rev |-> agent[m].pending, how |-> how]
<1>1. outcome' = outcome \cup {x}
  BY DEF Record
<1>2. x.tx = agent[m].tx /\ x.member = m /\ x.how = how
  OBVIOUS
<1> HIDE DEF x
<1> QED BY <1>1, <1>2 DEF FinalizedIn

\* No step of an agent breaks the invariant.
LEMMA AgentFinalize ==
  ASSUME TypeOK, FinalizeInv, NEW r \in late \cup PendingRequests, AgentNext(r)
  PROVE  FinalizeInv'
<1> DEFINE j == agent[r.member]
<1>1. r \in Request /\ r.member \in Member
  BY InFlightType DEF Request
<1>2. UNCHANGED coordVars
  BY DEF AgentNext, AgentAnswers, AgentPrepares, AgentRefusesCandidate, AgentCommits,
         AgentCommitStops, AgentRollsBack, AgentRollbackStops, AgentFinalizes,
         AgentFinalizeStops
<1>3. outcome \subseteq outcome'
  BY DEF AgentNext, AgentAnswers, AgentPrepares, AgentRefusesCandidate, AgentCommits,
         AgentCommitStops, AgentRollsBack, AgentRollbackStops, AgentFinalizes,
         AgentFinalizeStops, Record, history
<1>4. FinishesFinalized'
  BY <1>2, <1>3, FinalizedStays DEF FinalizeInv, FinishesFinalized, coordVars
<1>5. ASSUME NEW answer \in {"ok", "error"}, Arrives(r, answer),
             r.op # "finalize" \/ answer = "error"
      PROVE  AnswersFinalized'
  BY <1>1, <1>3, <1>5, AnswerIsTrue
<1>6. ASSUME NEW k \in AgentState, agent' = [agent EXCEPT ![r.member] = k],
             k.lastOutcome = "finalized" =>
               \/ k.lastTx = j.lastTx /\ j.lastOutcome = "finalized"
               \/ FinalizedIn(outcome', k.lastTx, r.member)
      PROVE  RemembersFinalized'
  <2>1. ASSUME NEW m \in Member, agent'[m].lastOutcome = "finalized"
        PROVE  FinalizedIn(outcome', agent'[m].lastTx, m)
    <3>1. CASE m = r.member
      BY <1>1, <1>3, <1>6, <2>1, <3>1, FinalizedStays
         DEF FinalizeInv, RemembersFinalized, TypeOK
    <3>2. CASE m # r.member
      BY <1>3, <1>6, <2>1, <3>2, FinalizedStays
         DEF FinalizeInv, RemembersFinalized, TypeOK
    <3> QED BY <3>1, <3>2
  <2> QED BY <2>1 DEF RemembersFinalized
<1>7. ASSUME UNCHANGED agent PROVE RemembersFinalized'
  BY <1>3, <1>7, FinalizedStays DEF FinalizeInv, RemembersFinalized
<1>8. j \in AgentState
  BY <1>1 DEF TypeOK
<1>9. CASE AgentAnswers(r)
  <2>1. CASE ~Repeated(j, r) /\ Arrives(r, "error")
    BY <1>4, <1>5, <1>7, <1>9, <2>1 DEF AgentAnswers, FinalizeInv
  <2>2. CASE Repeated(j, r) /\ Arrives(r, "ok")
    <3>1. r.op = "finalize" => j.lastTx = r.tx /\ j.lastOutcome = "finalized"
      BY <2>2 DEF Repeated, Ended
    <3>2. r.op = "finalize" => FinalizedIn(outcome', r.tx, r.member)
      BY <1>1, <1>3, <3>1, FinalizedStays DEF FinalizeInv, RemembersFinalized
    <3> QED BY <1>1, <1>3, <1>4, <1>7, <1>9, <2>2, <3>2, AnswerIsTrue
            DEF AgentAnswers, FinalizeInv
  <2> QED BY <1>9, <2>1, <2>2 DEF AgentAnswers
<1>10. CASE AgentPrepares(r)
  <2>1. /\ Prepared(j, r) \in AgentState
        /\ Prepared(j, r).lastTx = j.lastTx /\ Prepared(j, r).lastOutcome = j.lastOutcome
    BY <1>1, <1>8, JournalType DEF Prepared, AgentState
  <2> QED BY <1>4, <1>5, <1>6, <1>10, <2>1 DEF AgentPrepares, FinalizeInv
<1>11. CASE AgentRefusesCandidate(r)
  BY <1>4, <1>5, <1>7, <1>11 DEF AgentRefusesCandidate, FinalizeInv
<1>12. CASE AgentCommits(r)
  <2>1. /\ Committed(j) \in AgentState
        /\ Committed(j).lastTx = j.lastTx /\ Committed(j).lastOutcome = j.lastOutcome
    BY <1>1, <1>8, JournalType DEF Committed, AgentState
  <2> QED BY <1>4, <1>5, <1>6, <1>12, <2>1 DEF AgentCommits, FinalizeInv
<1>13. CASE AgentCommitStops(r)
  <2>1. /\ Committing(j) \in AgentState
        /\ Committing(j).lastTx = j.lastTx /\ Committing(j).lastOutcome = j.lastOutcome
    BY <1>1, <1>8, JournalType DEF Committing, AgentState
  <2> QED BY <1>4, <1>5, <1>6, <1>13, <2>1 DEF AgentCommitStops, FinalizeInv
<1>14. CASE AgentRollsBack(r)
  <2> DEFINE k == [j EXCEPT !.active = IF Switched(j) THEN j.previous ELSE j.active]
  <2>1. RolledBack(j) \in AgentState /\ RolledBack(j) = Closed(k, "rolled-back")
    BY <1>1, <1>8, JournalType DEF RolledBack
  <2>2. k \in AgentState
    BY <1>8 DEF AgentState
  <2>3. Closed(k, "rolled-back").lastOutcome = "rolled-back"
    BY <2>2 DEF Closed, AgentState
  <2> QED BY <1>4, <1>5, <1>6, <1>14, <2>1, <2>3 DEF AgentRollsBack, FinalizeInv
<1>15. CASE AgentRollbackStops(r)
  BY <1>4, <1>5, <1>7, <1>15 DEF AgentRollbackStops, FinalizeInv
<1>16. CASE AgentFinalizes(r)
  <2>1. Closed(j, "finalized") \in AgentState /\ Closed(j, "finalized").lastTx = j.tx
    BY <1>1, <1>8, JournalType DEF Closed, AgentState
  <2>2. FinalizedIn(outcome', j.tx, r.member) /\ j.tx = r.tx
    BY <1>1, <1>16, RecordFinalizes DEF AgentFinalizes, Accepted
  <2>3. RemembersFinalized'
    BY <1>6, <1>16, <2>1, <2>2 DEF AgentFinalizes
  <2>4. AnswersFinalized'
    BY <1>1, <1>3, <1>16, <2>2, AnswerIsTrue DEF AgentFinalizes
  <2> QED BY <1>4, <2>3, <2>4 DEF FinalizeInv
<1>17. CASE AgentFinalizeStops(r)
  BY <1>4, <1>5, <1>7, <1>17 DEF AgentFinalizeStops, FinalizeInv
<1> QED BY <1>9, <1>10, <1>11, <1>12, <1>13, <1>14, <1>15, <1>16, <1>17 DEF AgentNext

\* A finish that starts has everybody still to call.
LEMMA StartFinishFinalize ==
  ASSUME TypeOK, FinalizeInv, NEW c \in Coord, NEW x, StartFinish(c, x),
         UNCHANGED outcome
  PROVE  FinishesFinalized'
<1>1. ASSUME NEW d \in Coord
      PROVE  /\ d = c => pc'[d] = "finish" /\ todo'[d] = Member
             /\ d # c => /\ pc'[d] = pc[d] /\ todo'[d] = todo[d]
                         /\ failed'[d] = failed[d] /\ job'[d] = job[d]
  BY DEF StartFinish, Goto, TypeOK
<1> QED BY <1>1 DEF FinalizeInv, FinishesFinalized

\* A process that moves elsewhere, or returns, has nothing to show.
LEMMA ElsewhereFinalize ==
  ASSUME TypeOK, FinalizeInv, NEW c \in Coord, UNCHANGED outcome,
         pc'[c] \notin {"finish", "clear"},
         \A d \in Coord \ {c} : /\ pc'[d] = pc[d] /\ todo'[d] = todo[d]
                                /\ failed'[d] = failed[d] /\ job'[d] = job[d]
  PROVE  FinishesFinalized'
BY DEF FinalizeInv, FinishesFinalized

\* Leaving is going elsewhere.
LEMMA LeaveFinalize ==
  ASSUME TypeOK, FinalizeInv, NEW c \in Coord, Leave(c), UNCHANGED outcome
  PROVE  FinishesFinalized'
<1>1. /\ pc'[c] = "idle"
      /\ \A d \in Coord \ {c} : /\ pc'[d] = pc[d] /\ todo'[d] = todo[d]
                                /\ failed'[d] = failed[d] /\ job'[d] = job[d]
  BY DEF Leave, Goto, TypeOK
<1> QED BY <1>1, ElsewhereFinalize

\* Giving up on a member marks the finish as failed.
LEMMA GivesUpFinalize ==
  ASSUME TypeOK, FinalizeInv, NEW c \in Coord, GivesUp(c), UNCHANGED outcome
  PROVE  FinishesFinalized'
<1>1. CASE StartFinish(c, job[c])
  BY <1>1, StartFinishFinalize
<1>2. CASE Leave(c)
  BY <1>2, LeaveFinalize
<1>3. CASE /\ pc[c] = "finish"
           /\ todo' = [todo EXCEPT ![c] = Rest(c)]
           /\ failed' = [failed EXCEPT ![c] = TRUE]
           /\ UNCHANGED <<pc, job>>
  BY <1>3 DEF FinalizeInv, FinishesFinalized, TypeOK
<1> QED BY <1>1, <1>2, <1>3 DEF GivesUp

\* A process that has its last good answer has one from every member.
LEMMA SucceededFinalize ==
  ASSUME TypeOK, DecisionInv, FinalizeInv, NEW c \in Coord, Succeeded(c)
  PROVE  FinishesFinalized'
<1>1. UNCHANGED outcome
  BY DEF Succeeded, history
<1>2. /\ call[c] # NoCall
      /\ pc[c] \in {"prepare", "commit", "finish"}
      /\ call[c].req.tx = job[c].tx
      /\ pc[c] = "finish" => call[c].req.op = job[c].decision
  BY DEF Succeeded, NoCall, DecisionInv, CallsFollow
<1>3. ASSUME pc[c] = "finish", ~failed[c], job[c].decision = "finalize",
             NEW m \in Member \ Rest(c)
      PROVE  FinalizedIn(outcome, job[c].tx, m)
  <2>1. FinalizedIn(outcome, job[c].tx, call[c].req.member)
    BY <1>2, <1>3 DEF Succeeded, FinalizeInv, AnswersFinalized
  <2> QED BY <1>3, <2>1 DEF Rest, FinalizeInv, FinishesFinalized
<1>4. CASE Leave(c)
  BY <1>1, <1>4, LeaveFinalize
<1>5. CASE Continue(c, Rest(c))
  <2>1. todo'[c] = Rest(c) /\ pc'[c] = pc[c] /\ pc[c] # "clear"
        /\ UNCHANGED <<pc, failed, job>>
        /\ \A d \in Coord \ {c} : todo'[d] = todo[d]
    BY <1>2, <1>5 DEF Continue, TypeOK
  <2> QED BY <1>1, <1>3, <2>1 DEF FinalizeInv, FinishesFinalized
<1>6. CASE Enter(c, "commit", Member) \/ Enter(c, "decide", {})
  <2>1. /\ pc'[c] \in {"commit", "decide"} /\ UNCHANGED <<failed, job>>
        /\ \A d \in Coord \ {c} : pc'[d] = pc[d] /\ todo'[d] = todo[d]
    BY <1>6 DEF Enter, Goto, TypeOK
  <2> QED BY <1>1, <2>1, ElsewhereFinalize
<1>7. CASE Rest(c) = {} /\ pc[c] = "finish" /\ ~failed[c] /\ Enter(c, "clear", {})
  <2>1. /\ pc'[c] = "clear" /\ todo'[c] = {} /\ UNCHANGED <<failed, job>>
        /\ \A d \in Coord \ {c} : pc'[d] = pc[d] /\ todo'[d] = todo[d]
    BY <1>7 DEF Enter, Goto, TypeOK
  <2> QED BY <1>1, <1>3, <1>7, <2>1 DEF FinalizeInv, FinishesFinalized
<1> QED BY <1>4, <1>5, <1>6, <1>7 DEF Succeeded

\* No step of the coordinator breaks the invariant.
LEMMA CoordFinalize ==
  ASSUME TypeOK, DecisionInv, FinalizeInv, NEW c \in Coord, CoordNext(c)
  PROVE  FinalizeInv'
<1>1. UNCHANGED <<agent, outcome>>
  BY DEF CoordNext, Load, Persist, PersistRefused, Recover, Send, Succeeded, Refused,
         TimedOut, Decide, DecideFails, Clear, Crash, history
<1>2. RemembersFinalized'
  BY <1>1 DEF FinalizeInv, RemembersFinalized
<1>3. ASSUME \A d \in Coord : call'[d] = call[d] \/ call'[d].answer # "ok"
      PROVE  AnswersFinalized'
  BY <1>1, <1>3 DEF FinalizeInv, AnswersFinalized
<1>4. ASSUME call' = [call EXCEPT ![c] = NoCall] PROVE AnswersFinalized'
  BY <1>3, <1>4 DEF TypeOK, NoCall
<1>5. ASSUME UNCHANGED call PROVE AnswersFinalized'
  BY <1>3, <1>5
<1>6. CASE Load(c)
  <2>1. /\ pc'[c] = "begin"
        /\ \A d \in Coord \ {c} : /\ pc'[d] = pc[d] /\ todo'[d] = todo[d]
                                  /\ failed'[d] = failed[d] /\ job'[d] = job[d]
    BY <1>6 DEF Load, Goto, TypeOK
  <2> QED BY <1>1, <1>2, <1>5, <1>6, <2>1, ElsewhereFinalize DEF Load, FinalizeInv
<1>7. ASSUME NEW t \in Tx, Persist(c, t) PROVE FinalizeInv'
  <2>1. /\ pc'[c] = "prepare"
        /\ \A d \in Coord \ {c} : /\ pc'[d] = pc[d] /\ todo'[d] = todo[d]
                                  /\ failed'[d] = failed[d] /\ job'[d] = job[d]
    BY <1>7 DEF Persist, Goto, TypeOK
  <2> QED BY <1>1, <1>2, <1>5, <1>7, <2>1, ElsewhereFinalize DEF Persist, FinalizeInv
<1>8. CASE PersistRefused(c)
  BY <1>1, <1>2, <1>5, <1>8, LeaveFinalize DEF PersistRefused, FinalizeInv
<1>9. CASE Recover(c)
  BY <1>1, <1>2, <1>5, <1>9, StartFinishFinalize DEF Recover, FinalizeInv
<1>10. ASSUME NEW m \in Member, Send(c, m) PROVE FinalizeInv'
  <2>1. \A d \in Coord : call'[d] = call[d] \/ call'[d].answer = "pending"
    BY <1>10 DEF Send, TypeOK
  <2>2. FinishesFinalized'
    BY <1>1, <1>10 DEF Send, coordVars, FinalizeInv, FinishesFinalized
  <2> QED BY <1>2, <1>3, <2>1, <2>2 DEF FinalizeInv
<1>11. CASE Succeeded(c)
  BY <1>2, <1>4, <1>11, SucceededFinalize DEF Succeeded, FinalizeInv
<1>12. CASE Refused(c)
  BY <1>1, <1>2, <1>4, <1>12, GivesUpFinalize DEF Refused, GivesUp, FinalizeInv
<1>13. CASE TimedOut(c)
  BY <1>1, <1>2, <1>4, <1>13, GivesUpFinalize DEF TimedOut, GivesUp, FinalizeInv
<1>14. CASE Decide(c)
  BY <1>1, <1>2, <1>5, <1>14, StartFinishFinalize DEF Decide, FinalizeInv
<1>15. CASE DecideFails(c)
  BY <1>1, <1>2, <1>5, <1>15, StartFinishFinalize DEF DecideFails, FinalizeInv
<1>16. CASE Clear(c)
  BY <1>1, <1>2, <1>5, <1>16, LeaveFinalize DEF Clear, FinalizeInv
<1>17. CASE Crash(c)
  BY <1>1, <1>2, <1>4, <1>17, LeaveFinalize DEF Crash, FinalizeInv
<1> QED BY <1>6, <1>7, <1>8, <1>9, <1>10, <1>11, <1>12, <1>13, <1>14, <1>15, <1>16,
           <1>17 DEF CoordNext

\* The invariant is preserved by every step.
LEMMA NextFinalize == TypeOK /\ DecisionInv /\ FinalizeInv /\ [Next]_vars => FinalizeInv'
<1> SUFFICES ASSUME TypeOK, DecisionInv, FinalizeInv, [Next]_vars PROVE FinalizeInv'
  OBVIOUS
<1>1. CASE UNCHANGED <<agent, call, coordVars, outcome>>
  BY <1>1 DEF FinalizeInv, RemembersFinalized, AnswersFinalized, FinishesFinalized, coordVars
<1>2. CASE Edit \/ UNCHANGED vars \/ \E m \in Member : LocalApply(m)
  BY <1>1, <1>2 DEF Edit, LocalApply, vars, coordVars, history
<1> QED BY <1>2, AgentFinalize, CoordFinalize DEF Next

--------------------------------------------------------------------------------
(* The refinement *)

\* The two histories of an end, as AtomicRollout and as MeshRollout keep it.
Ends == {[tx |-> x.tx, member |-> x.member, how |-> x.how] : x \in outcome}

\* The initial state is the abstract one.
LEMMA InitRefines == Init => Atomic!Init
BY DEF Init, Atomic!Init, NoRollout

\* A member that ends a transaction takes the abstract step End.
LEMMA RecordRefines ==
  ASSUME TypeOK, DecisionInv, OutcomesFollow', NEW m \in Member,
         NEW how \in {"rolled-back", "finalized"}, Record(m, how),
         agent[m].tx \in Tx, UNCHANGED <<journal, begun, decided>>
  PROVE  Atomic!Next
<1> DEFINE t == agent[m].tx
           x == [tx |-> t, member |-> m, rev |-> agent[m].pending, how |-> how]
<1>1. outcome' = outcome \cup {x} /\ x.tx = t /\ x.member = m /\ x.how = how
  BY DEF Record
<1> HIDE DEF x
<1>2. t \in begun /\ how = Atomic!How(t)
  <2>1. x \in outcome'
    BY <1>1
  <2>2. t \in begun /\ (how = "finalized" <=> t \in decided)
    BY <1>1, <2>1 DEF OutcomesFollow
  <2> QED BY <2>2 DEF Atomic!How
<1>3. Ends' = Ends \cup {[tx |-> t, member |-> m, how |-> how]}
  BY <1>1 DEF Ends
<1>4. Atomic!End(t, m)
  BY <1>2, <1>3 DEF Atomic!End, Ends
<1> QED BY <1>4 DEF Atomic!Next

\* A step that changes neither journal, decisions nor outcomes is a stutter.
LEMMA StutterRefines ==
  ASSUME journal'.tx = journal.tx, UNCHANGED <<begun, decided, outcome>>
  PROVE  UNCHANGED Atomic!vars
BY DEF Atomic!vars

\* Every step maps to an abstract step or to a stutter.
LEMMA NextRefines ==
  ASSUME TypeOK, DecisionInv, DecisionInv', FinalizeInv, [Next]_vars
  PROVE  [Atomic!Next]_(Atomic!vars)
<1>1. CASE Edit \/ UNCHANGED vars \/ \E m \in Member : LocalApply(m)
  BY <1>1, StutterRefines DEF Edit, LocalApply, vars, history
<1>2. ASSUME NEW r \in late \cup PendingRequests, AgentNext(r)
      PROVE  [Atomic!Next]_(Atomic!vars)
  <2>1. r \in Request /\ r.member \in Member /\ r.tx \in Tx
    BY InFlightType DEF Request
  <2>2. CASE UNCHANGED <<journal, history>>
    BY <2>2, StutterRefines DEF history
  <2>3. CASE AgentRollsBack(r)
    <3>1. agent[r.member].tx \in Tx
      BY <2>1, <2>3 DEF AgentRollsBack, Accepted
    <3> QED BY <2>1, <2>3, <3>1, RecordRefines DEF AgentRollsBack, DecisionInv
  <2>4. CASE AgentFinalizes(r)
    <3>1. agent[r.member].tx \in Tx
      BY <2>1, <2>4 DEF AgentFinalizes, Accepted
    <3> QED BY <2>1, <2>4, <3>1, RecordRefines DEF AgentFinalizes, DecisionInv
  <2> QED BY <1>2, <2>2, <2>3, <2>4
          DEF AgentNext, AgentAnswers, AgentPrepares, AgentRefusesCandidate,
              AgentCommits, AgentCommitStops, AgentRollbackStops, AgentFinalizeStops,
              history
<1>3. ASSUME NEW c \in Coord, CoordNext(c) PROVE [Atomic!Next]_(Atomic!vars)
  <2>1. CASE UNCHANGED <<journal, history>>
    BY <2>1, StutterRefines DEF history
  <2>2. ASSUME NEW t \in Tx, Persist(c, t) PROVE Atomic!Next
    <3>1. /\ journal.tx = NoTx /\ t \notin begun
          /\ journal'.tx = t /\ begun' = begun \cup {t} /\ UNCHANGED <<decided, outcome>>
      BY <2>2 DEF Persist
    <3> QED BY <3>1 DEF Atomic!Next, Atomic!Open
  <2>3. CASE Decide(c)
    <3>1. /\ pc[c] = "decide" /\ journal.tx = job[c].tx /\ journal'.tx = journal.tx
          /\ decided' = decided \cup {journal.tx} /\ UNCHANGED <<begun, outcome>>
      BY <2>3 DEF Decide, TypeOK, Rollout
    <3>2. journal.tx # NoTx
      BY <3>1, TxAssumption DEF TypeOK
    <3>3. \A x \in Ends : x.tx # journal.tx
      BY <3>1 DEF Ends, DecisionInv, UndecidedUntouched, Undecided
    <3> QED BY <3>1, <3>2, <3>3 DEF Atomic!Next, Atomic!Decide, Ends
  <2>4. CASE Clear(c)
    <3>1. pc[c] = "clear" /\ UNCHANGED <<begun, decided, outcome>>
      BY <2>4 DEF Clear, history
    <3>2. CASE journal.tx # job[c].tx
      BY <2>4, <3>1, <3>2, StutterRefines DEF Clear
    <3>3. CASE journal.tx = job[c].tx
      <4>1. journal'.tx = NoTx /\ journal.tx # NoTx
        BY <2>4, <3>1, <3>3, TxAssumption DEF Clear, NoRollout, TypeOK
      <4>2. ASSUME journal.tx \in decided, NEW m \in Member
            PROVE  [tx |-> journal.tx, member |-> m, how |-> "finalized"] \in Ends
        <5>1. job[c].decision = "finalize"
          BY <3>1, <3>3, <4>2 DEF DecisionInv, RolloutsFollow, KnowsDecision
        <5>2. FinalizedIn(outcome, job[c].tx, m)
          BY <3>1, <5>1 DEF FinalizeInv, FinishesFinalized
        <5> QED BY <3>3, <5>2 DEF FinalizedIn, Ends
      <4> QED BY <3>1, <4>1, <4>2 DEF Atomic!Next, Atomic!Close, Ends
    <3> QED BY <3>2, <3>3
  <2> QED BY <1>3, <2>1, <2>2, <2>3, <2>4
          DEF CoordNext, Load, PersistRefused, Recover, Send, Succeeded, Refused,
              TimedOut, DecideFails, Crash
<1> QED BY <1>1, <1>2, <1>3 DEF Next

\* With one command of the coordinator at a time, the journals, requests,
\* timeouts and crashes of a rollout together are an atomic rollout: one open
\* at a time, decided before anybody gave up, ended by everyone as decided.
THEOREM RolloutIsAtomic == ASSUME OneCoordinator PROVE Spec => AtomicSpec
<1>1. TypeOK /\ DecisionInv /\ [Next]_vars => DecisionInv'
  BY NextDecision
<1>2. TypeOK /\ DecisionInv /\ DecisionInv' /\ FinalizeInv /\ [Next]_vars
        => [Atomic!Next]_(Atomic!vars)
  BY NextRefines
<1> QED BY InitDecision, InitFinalize, InitRefines, TypeCorrect, NextFinalize, <1>1, <1>2,
           PTL DEF Spec, AtomicSpec, Atomic!Spec

================================================================================
