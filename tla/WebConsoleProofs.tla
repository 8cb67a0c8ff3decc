--------------------------- MODULE WebConsoleProofs ---------------------------
(***************************************************************************)
(* Proofs about the web console: for any number of requests in service,    *)
(* request identities, receipts, sessions and secrets.                     *)
(***************************************************************************)
EXTENDS WebConsole, FiniteSetTheorems, TLAPS

(***************************************************************************)
(* The inductive invariant                                                 *)
(***************************************************************************)
Serving(i, stages) == slot[i].at \in stages
Stages == {"free", "enter", "login", "authenticated", "action", "device",
           "invite", "accept", "changed", "disowned", "release"}
JobStages == {"free", "run", "save", "revoke", "finish"}

\* The fields a request has at the stages that look at them.
SlotShape ==
  /\ DOMAIN slot = Slots
  /\ \A i \in Slots :
       /\ "at" \in DOMAIN slot[i] /\ slot[i].at \in Stages
       /\ Serving(i, {"free"}) => slot[i] = Free
       /\ Serving(i, {"enter"}) => {"kind", "by"} \subseteq DOMAIN slot[i]
       /\ Serving(i, {"enter"}) /\ slot[i].kind \in JobKinds =>
            {"id", "session"} \subseteq DOMAIN slot[i] /\ slot[i].id \in Ids
       /\ Serving(i, {"action"}) => slot[i].kind = "action" /\ slot[i].id \in Ids

JobShape ==
  /\ "at" \in DOMAIN job /\ job.at \in JobStages
  /\ job.at = "free" => job = Free
  /\ job.at # "free" =>
       /\ {"kind", "id", "settings", "owner", "expected"} \subseteq DOMAIN job
       /\ job.id \in Ids /\ job.kind \in JobKinds

\* The modification slot belongs to the running job or to one invitation.
Inviting == {i \in Slots : Serving(i, {"invite", "accept", "release"})}
SlotHeld ==
  /\ busy \in BOOLEAN
  /\ busy <=> (job.at # "free" \/ Inviting # {})
  /\ job.at # "free" => Inviting = {}
  /\ \A i, j \in Inviting : i = j

\* A receipt exists from the acceptance of a job on, and says whether it runs;
\* its modification is made by the step that leaves "run" or "save".
Receipts ==
  /\ jobs \in [Ids -> {"none", "running", "ended"}] /\ runs \in [Ids -> {0, 1}]
  /\ \A d \in Ids : jobs[d] = "none" => runs[d] = 0
  /\ \A d \in Ids : jobs[d] = "running" <=> job.at # "free" /\ job.id = d
  /\ job.at \in {"run", "save"} => runs[job.id] = 0

\* Secrets in use have been drawn, and a session number only once.
Drawn ==
  /\ fresh \in Nat
  /\ account.invite \in 0 .. fresh /\ closed \subseteq 0 .. fresh
  /\ \A s \in sessions : s.n \in 0 .. fresh
  /\ \A s, t \in sessions : s.n = t.n => s = t
  /\ \A i \in Slots : Serving(i, {"action"}) => slot[i].session \in 0 .. fresh
  /\ \A i \in Slots : Serving(i, {"device"}) => \A s, t \in slot[i].by : s = t

\* An administrator's session, and a login about to open one, prove the
\* settings they were checked against; a request under way either lost its
\* session or came with the settings the backend still holds.
Proven ==
  /\ \A s \in sessions : s.role = "admin" => s.proof = seen.version
  /\ \A i \in Slots :
       /\ Serving(i, {"authenticated"}) /\ slot[i].role = "admin" =>
            slot[i].proof = slot[i].settings.version
       /\ Serving(i, {"action"}) =>
            \A s \in sessions : s.n = slot[i].session => slot[i].settings = seen

\* What will be saved of the user was read while the names were apart.
Apart == NamesDisjoint /\ (job.at = "save" => job.settings.name # "user")

\* An open invitation was never closed: its token was new, and whatever
\* changes the account since closes it.
OpenInvitation == account.invite # 0 => account.invite \notin closed

\* What a user's own change was computed from is the account of the login.
OwnAccount ==
  JobIn("save", {"self"}) =>
    /\ job.expected.enabled /\ job.expected.password # 0
    /\ job.expected.epoch = job.owner.proof

IInv ==
  /\ SlotShape /\ JobShape /\ SlotHeld /\ Receipts /\ Drawn /\ Proven
  /\ Apart /\ OpenInvitation /\ OwnAccount

LEMMA InitInv == Init => IInv
<1> SUFFICES ASSUME Init PROVE IInv
  OBVIOUS
<1> USE DEF Init, Free, NoAccount, Serving
<1>1. SlotShape /\ JobShape
  BY DEF SlotShape, Stages, JobShape, JobStages
<1>2. SlotHeld /\ Receipts
  BY DEF SlotHeld, Inviting, Receipts
<1>3. Drawn /\ Proven
  BY DEF Drawn, Proven
<1>4. Apart /\ OpenInvitation /\ OwnAccount
  BY DEF Apart, NamesDisjoint, OpenInvitation, OwnAccount, JobIn
<1> QED BY <1>1, <1>2, <1>3, <1>4 DEF IInv

\* A request that goes on to another stage keeps its fields.
LEMMA NextStage ==
  ASSUME SlotShape, NEW i \in Slots, NEW at, NEW by,
         \/ slot' = [slot EXCEPT ![i].at = at]
         \/ "by" \in DOMAIN slot[i] /\ slot' = [slot EXCEPT ![i].at = at, ![i].by = by]
  PROVE  /\ DOMAIN slot' = Slots /\ slot'[i].at = at /\ DOMAIN slot'[i] = DOMAIN slot[i]
         /\ \A f \in DOMAIN slot[i] \ {"at", "by"} : slot'[i][f] = slot[i][f]
         /\ \A j \in Slots \ {i} : slot'[j] = slot[j]
BY DEF SlotShape

\* What a stage looks at has been set by the stages before it.
LEMMA SlotShapeKept ==
  ASSUME IInv, [Next]_vars PROVE SlotShape'
<1> USE DEF IInv, SlotShape, Serving, Stages, Free, AdminJobs, JobKinds, stored
<1>1. ASSUME UNCHANGED slot PROVE SlotShape'
  BY <1>1
<1>2. ASSUME NEW i \in Slots, Arrive(i) PROVE SlotShape'
  BY <1>2 DEF Arrive, Requests, At
<1>3. ASSUME NEW i \in Slots, Abandon(i) PROVE SlotShape'
  BY <1>3 DEF Abandon, At, Answer, OnEntry
<1>4. ASSUME NEW i \in Slots, EnterAnswered(i) PROVE SlotShape'
  BY <1>4 DEF EnterAnswered, Enters, At, Answer, OnEntry, LiveOnEntry
<1>5. ASSUME NEW i \in Slots, EnterLogout(i) PROVE SlotShape'
  BY <1>5 DEF EnterLogout, Enters, At, Answer, OnEntry, LiveOnEntry, Asked
<1>6. ASSUME NEW i \in Slots, EnterOutside(i) PROVE SlotShape'
  <2>1. slot' = [slot EXCEPT ![i].at = slot[i].kind,
                             ![i].by = IF slot[i].kind = "login" THEN {} ELSE Asked(i)]
    BY <1>6 DEF EnterOutside
  <2>2. slot[i].kind \in {"login", "action", "device"} /\ "by" \in DOMAIN slot[i] /\ slot[i].at = "enter"
    BY <1>6 DEF EnterOutside, Enters, At
  <2>3. /\ DOMAIN slot' = Slots /\ slot'[i].at = slot[i].kind /\ DOMAIN slot'[i] = DOMAIN slot[i]
        /\ \A f \in DOMAIN slot[i] \ {"at", "by"} : slot'[i][f] = slot[i][f]
        /\ \A j \in Slots \ {i} : slot'[j] = slot[j]
    BY <2>1, <2>2, NextStage
  <2>4. slot[i].kind = "action" => slot'[i].kind = "action" /\ slot'[i].id \in Ids
    BY <2>2, <2>3
  <2> QED BY <2>2, <2>3, <2>4
<1>7. ASSUME NEW i \in Slots, EnterInvite(i) PROVE SlotShape'
  <2>1. slot' = [slot EXCEPT ![i].at = slot[i].kind] /\ slot[i].kind \in {"invite", "accept"}
    BY <1>7 DEF EnterInvite, Stage
  <2>2. /\ DOMAIN slot' = Slots /\ slot'[i].at = slot[i].kind
        /\ \A j \in Slots \ {i} : slot'[j] = slot[j] /\ DOMAIN slot'[i] = DOMAIN slot[i]
    BY <2>1, NextStage
  <2> QED BY <2>1, <2>2
<1>8. ASSUME NEW i \in Slots, EnterJob(i) PROVE SlotShape'
  BY <1>8 DEF EnterJob, Enters, At, Start, Answer, LiveOnEntry, Asked, Allowed,
      HasReceipt
<1>9. ASSUME NEW i \in Slots, Authenticate(i) PROVE SlotShape'
  BY <1>9 DEF Authenticate, At, Answer, OnEntry
<1>10. ASSUME NEW i \in Slots, Login(i) PROVE SlotShape'
  BY <1>10 DEF Login, At, Answer, Welcome, Draw
<1>11. ASSUME NEW i \in Slots, Reject(i) PROVE SlotShape'
  BY <1>11 DEF Reject, At, Answer, OnEntry
<1>12. ASSUME NEW i \in Slots, Submit(i) PROVE SlotShape'
  BY <1>12 DEF Submit, At, Resubmitted, Answer, Start
<1>13. ASSUME NEW i \in Slots, Invite(i) PROVE SlotShape'
  BY <1>13 DEF Invite, At, Saves, Draw
<1>14. ASSUME NEW i \in Slots, Accept(i) PROVE SlotShape'
  BY <1>14 DEF Accept, At, Saves, Draw
<1>15. ASSUME NEW i \in Slots, Release(i) PROVE SlotShape'
  BY <1>15 DEF Release, At, Answer, OnEntry, UserSessions
<1>16. ASSUME NEW i \in Slots, Device(i) PROVE SlotShape'
  BY <1>16 DEF Device, At, Answer, Stage, ChangeDevices
<1>17. ASSUME NEW i \in Slots, DeviceDone(i) PROVE SlotShape'
  BY <1>17 DEF DeviceDone, At, Answer, OnEntry
<1>18. CASE Restart
  BY <1>18 DEF Restart, stored
<1>19. ASSUME Job PROVE UNCHANGED slot
  BY <1>19 DEF Job, RunAction, WrongPassword, RunAccount, RunPortal, SavePortal,
      Revoke, Panic, JobEnds, Finish, Ran, JobFrame
<1>20. ASSUME (\E d \in Ids : ReceiptExpires(d)) \/ SessionExpires \/ Configure \/ DeleteUser
      PROVE  UNCHANGED slot
  BY <1>20 DEF ReceiptExpires, SessionExpires, Configure, DeleteUser, OnEntry, memory
<1>21. CASE UNCHANGED vars
  BY <1>21 DEF vars, memory
<1> QED BY <1>1, <1>2, <1>3, <1>4, <1>5, <1>6, <1>7, <1>8, <1>9, <1>10, <1>11, <1>12,
    <1>13, <1>14, <1>15, <1>16, <1>17, <1>18, <1>19, <1>20, <1>21 DEF Next, Serve

\* The running job is one that was accepted.
LEMMA JobShapeKept ==
  ASSUME IInv, [Next]_vars PROVE JobShape'
<1> USE DEF IInv, SlotShape, Serving, JobShape, JobStages, Free, AdminJobs, JobKinds,
    stored
<1>1. ASSUME UNCHANGED job PROVE JobShape'
  BY <1>1
<1>2. ASSUME NEW i \in Slots, EnterJob(i) PROVE JobShape'
  BY <1>2 DEF EnterJob, Enters, At, Start, Answer, LiveOnEntry, Asked, Allowed,
      HasReceipt
<1>3. ASSUME NEW i \in Slots, Submit(i) PROVE JobShape'
  BY <1>3 DEF Submit, At, Resubmitted, Answer, Start
<1>4. ASSUME NEW i \in Slots, Arrive(i) \/ Serve(i), ~EnterJob(i), ~Submit(i)
      PROVE  UNCHANGED job
  BY <1>4 DEF Serve, Arrive, Abandon, EnterAnswered, EnterLogout, EnterOutside,
      EnterInvite, Authenticate, Login, Reject, Invite, Accept, Release, Device,
      DeviceDone, At, Stage, Answer, OnEntry, Enters, Start, Saves, ChangeDevices
<1>5. CASE RunAction
  BY <1>5 DEF RunAction, JobIn, Ran, Finish, JobFrame
<1>6. CASE WrongPassword
  BY <1>6 DEF WrongPassword, JobIn, Finish, JobFrame
<1>7. CASE RunAccount
  BY <1>7 DEF RunAccount, JobIn, Draw, Ran, Finish, JobFrame
<1>8. CASE RunPortal
  BY <1>8 DEF RunPortal, JobIn, Finish, JobFrame
<1>9. CASE SavePortal
  BY <1>9 DEF SavePortal, JobIn, Draw, Ran, Finish, JobFrame
<1>10. CASE Revoke
  BY <1>10 DEF Revoke, JobIn, Finish, JobFrame, stored, UserSessions
<1>11. CASE Panic
  BY <1>11 DEF Panic, Finish, JobFrame
<1>12. CASE JobEnds
  BY <1>12 DEF JobEnds, stored
<1>13. CASE Restart
  BY <1>13 DEF Restart, stored
<1>14. ASSUME (\E d \in Ids : ReceiptExpires(d)) \/ SessionExpires \/ Configure \/ DeleteUser
      PROVE  UNCHANGED job
  BY <1>14 DEF ReceiptExpires, SessionExpires, Configure, DeleteUser, OnEntry, memory
<1>15. CASE UNCHANGED vars
  BY <1>15 DEF vars, memory
<1> QED BY <1>1, <1>2, <1>3, <1>4, <1>5, <1>6, <1>7, <1>8, <1>9, <1>10, <1>11, <1>12,
    <1>13, <1>14, <1>15 DEF Next, Job

\* Who takes the modification slot finds it free, and only its holder gives it back.
LEMMA SlotHeldKept ==
  ASSUME IInv, [Next]_vars PROVE SlotHeld'
<1> USE DEF IInv, SlotShape, Serving, JobShape, JobStages, SlotHeld, Inviting, Free,
    AdminJobs, JobKinds, stored
<1>1. ASSUME UNCHANGED <<busy, job, slot>> PROVE SlotHeld'
  BY <1>1
<1>2. ASSUME NEW i \in Slots, Arrive(i) PROVE SlotHeld'
  BY <1>2 DEF Arrive, Requests, At
<1>3. ASSUME NEW i \in Slots, Abandon(i) PROVE SlotHeld'
  BY <1>3 DEF Abandon, At, Answer, OnEntry
<1>4. ASSUME NEW i \in Slots, EnterAnswered(i) PROVE SlotHeld'
  BY <1>4 DEF EnterAnswered, Enters, At, Answer, OnEntry, LiveOnEntry
<1>5. ASSUME NEW i \in Slots, EnterLogout(i) PROVE SlotHeld'
  BY <1>5 DEF EnterLogout, Enters, At, Answer, OnEntry, LiveOnEntry, Asked
<1>6. ASSUME NEW i \in Slots, EnterOutside(i) PROVE SlotHeld'
  BY <1>6 DEF EnterOutside, Enters, At, OnEntry, LiveOnEntry, Asked, Allowed,
      HasReceipt
<1>7. ASSUME NEW i \in Slots, EnterInvite(i) PROVE SlotHeld'
  BY <1>7 DEF EnterInvite, Enters, At, Stage, OnEntry, LiveOnEntry, Allowed
<1>8. ASSUME NEW i \in Slots, EnterJob(i) PROVE SlotHeld'
  BY <1>8 DEF EnterJob, Enters, At, Start, Answer, LiveOnEntry, Asked, Allowed,
      HasReceipt
<1>9. ASSUME NEW i \in Slots, Authenticate(i) PROVE SlotHeld'
  BY <1>9 DEF Authenticate, At, Answer, OnEntry
<1>10. ASSUME NEW i \in Slots, Login(i) PROVE SlotHeld'
  BY <1>10 DEF Login, At, Answer, Welcome, Draw
<1>11. ASSUME NEW i \in Slots, Reject(i) PROVE SlotHeld'
  BY <1>11 DEF Reject, At, Answer, OnEntry
<1>12. ASSUME NEW i \in Slots, Submit(i) PROVE SlotHeld'
  <2>1. CASE slot' = [slot EXCEPT ![i] = Free] /\ UNCHANGED <<busy, job>>
    BY <1>12, <2>1 DEF Submit, At
  <2>2. CASE \E s \in sessions : Start(i, s)
    BY <1>12, <2>2 DEF Submit, At, Start, Answer
  <2> QED BY <1>12, <2>1, <2>2 DEF Submit, Answer
<1>13. ASSUME NEW i \in Slots, Invite(i) PROVE SlotHeld'
  BY <1>13 DEF Invite, At, Saves, Draw
<1>14. ASSUME NEW i \in Slots, Accept(i) PROVE SlotHeld'
  BY <1>14 DEF Accept, At, Saves, Draw
<1>15. ASSUME NEW i \in Slots, Release(i) PROVE SlotHeld'
  <2>1. i \in Inviting /\ Inviting = {i} /\ job.at = "free"
    BY <1>15 DEF Release, At
  <2>2. slot' = [slot EXCEPT ![i] = Free] /\ busy' = FALSE /\ job' = job
    BY <1>15 DEF Release, Answer, OnEntry
  <2>3. Inviting' = {}
    BY <2>1, <2>2
  <2> QED BY <2>1, <2>2, <2>3
<1>16. ASSUME NEW i \in Slots, Device(i) PROVE SlotHeld'
  BY <1>16 DEF Device, At, Answer, Stage, ChangeDevices
<1>17. ASSUME NEW i \in Slots, DeviceDone(i) PROVE SlotHeld'
  BY <1>17 DEF DeviceDone, At, Answer, OnEntry
<1>18. CASE RunAction
  BY <1>18 DEF RunAction, JobIn, Ran, Finish, JobFrame
<1>19. CASE WrongPassword
  BY <1>19 DEF WrongPassword, JobIn, Finish, JobFrame
<1>20. CASE RunAccount
  BY <1>20 DEF RunAccount, JobIn, Draw, Ran, Finish, JobFrame
<1>21. CASE RunPortal
  BY <1>21 DEF RunPortal, JobIn, Finish, JobFrame
<1>22. CASE SavePortal
  BY <1>22 DEF SavePortal, JobIn, Draw, Ran, Finish, JobFrame
<1>23. CASE Revoke
  BY <1>23 DEF Revoke, JobIn, Finish, JobFrame, stored, UserSessions
<1>24. CASE Panic
  BY <1>24 DEF Panic, Finish, JobFrame
<1>25. CASE JobEnds
  BY <1>25 DEF JobEnds, stored
<1>26. CASE Restart
  BY <1>26 DEF Restart, stored
<1>27. ASSUME (\E d \in Ids : ReceiptExpires(d)) \/ SessionExpires \/ Configure \/ DeleteUser
      PROVE  UNCHANGED <<busy, job, slot>>
  BY <1>27 DEF ReceiptExpires, SessionExpires, Configure, DeleteUser, OnEntry, memory
<1>28. CASE UNCHANGED vars
  BY <1>28 DEF vars, memory
<1> QED BY <1>1, <1>2, <1>3, <1>4, <1>5, <1>6, <1>7, <1>8, <1>9, <1>10, <1>11, <1>12,
    <1>13, <1>14, <1>15, <1>16, <1>17, <1>18, <1>19, <1>20, <1>21, <1>22, <1>23,
    <1>24, <1>25, <1>26, <1>27, <1>28 DEF Next, Serve, Job

\* A job is started only for an identity without a receipt, and runs once.
LEMMA ReceiptsKept ==
  ASSUME IInv, [Next]_vars PROVE Receipts'
<1> USE DEF IInv, SlotShape, Serving, JobShape, JobStages, SlotHeld, Receipts, Free,
    AdminJobs, JobKinds, stored
<1>1. ASSUME UNCHANGED <<jobs, runs, job>> PROVE Receipts'
  BY <1>1
<1>2. ASSUME NEW i \in Slots, EnterJob(i) PROVE Receipts'
  BY <1>2 DEF EnterJob, Enters, At, Start, Answer, LiveOnEntry, Asked, Allowed,
      HasReceipt
<1>3. ASSUME NEW i \in Slots, Submit(i) PROVE Receipts'
  BY <1>3 DEF Submit, At, Resubmitted, Answer, Start
<1>4. ASSUME NEW i \in Slots, Arrive(i) \/ Serve(i), ~EnterJob(i), ~Submit(i)
      PROVE  UNCHANGED <<jobs, runs, job>>
  BY <1>4 DEF Serve, Arrive, Abandon, EnterAnswered, EnterLogout, EnterOutside,
      EnterInvite, Authenticate, Login, Reject, Invite, Accept, Release, Device,
      DeviceDone, At, Stage, Answer, OnEntry, Enters, Start, Saves, ChangeDevices
<1>5. CASE RunAction
  BY <1>5 DEF RunAction, JobIn, Ran, Finish, JobFrame
<1>6. CASE WrongPassword
  BY <1>6 DEF WrongPassword, JobIn, Finish, JobFrame
<1>7. CASE RunAccount
  <2>1. CASE Finish /\ UNCHANGED <<disk, fresh, runs>>
    BY <1>7, <2>1 DEF RunAccount, JobIn, Finish, JobFrame
  <2>2. CASE Ran /\ job' = [job EXCEPT !.at = "revoke", !.settings = disk']
    BY <1>7, <2>2 DEF RunAccount, JobIn, Ran, JobFrame
  <2> QED BY <1>7, <2>1, <2>2 DEF RunAccount
<1>8. CASE RunPortal
  BY <1>8 DEF RunPortal, JobIn, Finish, JobFrame
<1>9. CASE SavePortal
  BY <1>9 DEF SavePortal, JobIn, Draw, Ran, Finish, JobFrame
<1>10. CASE Revoke
  BY <1>10 DEF Revoke, JobIn, Finish, JobFrame, stored, UserSessions
<1>11. CASE Panic
  BY <1>11 DEF Panic, Finish, JobFrame
<1>12. CASE JobEnds
  BY <1>12 DEF JobEnds, stored
<1>13. CASE Restart
  BY <1>13 DEF Restart, stored
<1>14. ASSUME NEW d \in Ids, ReceiptExpires(d) PROVE Receipts'
  BY <1>14 DEF ReceiptExpires
<1>15. ASSUME SessionExpires \/ Configure \/ DeleteUser
      PROVE  UNCHANGED <<jobs, runs, job>>
  BY <1>15 DEF SessionExpires, Configure, DeleteUser, OnEntry, memory
<1>16. CASE UNCHANGED vars
  BY <1>16 DEF vars, memory
<1> QED BY <1>1, <1>2, <1>3, <1>4, <1>5, <1>6, <1>7, <1>8, <1>9, <1>10, <1>11, <1>12,
    <1>13, <1>14, <1>15, <1>16 DEF Next, Job

\* Nothing is in use that was not drawn, and what is drawn is new.
LEMMA DrawnKept ==
  ASSUME IInv, [Next]_vars PROVE Drawn'
<1> USE DEF IInv, SlotShape, Serving, Drawn, Free, NoAccount, AdminJobs, JobKinds,
    stored
<1>1. ASSUME UNCHANGED <<fresh, account, closed, sessions, slot>> PROVE Drawn'
  BY <1>1
<1>2. ASSUME NEW i \in Slots, Arrive(i) PROVE Drawn'
  BY <1>2 DEF Arrive, Requests, At
<1>3. ASSUME NEW i \in Slots, Abandon(i) PROVE Drawn'
  BY <1>3 DEF Abandon, At, Answer, OnEntry
<1>4. ASSUME NEW i \in Slots, EnterAnswered(i) PROVE Drawn'
  BY <1>4 DEF EnterAnswered, Enters, At, Answer, OnEntry, LiveOnEntry
<1>5. ASSUME NEW i \in Slots, EnterLogout(i) PROVE Drawn'
  BY <1>5 DEF EnterLogout, Enters, At, Answer, OnEntry, LiveOnEntry, Asked
<1>6. ASSUME NEW i \in Slots, EnterOutside(i) PROVE Drawn'
  BY <1>6 DEF EnterOutside, Enters, At, OnEntry, LiveOnEntry, Asked, Allowed,
      HasReceipt
<1>7. ASSUME NEW i \in Slots, EnterInvite(i) PROVE Drawn'
  BY <1>7 DEF EnterInvite, Enters, At, Stage, OnEntry, LiveOnEntry, Allowed
<1>8. ASSUME NEW i \in Slots, EnterJob(i) PROVE Drawn'
  BY <1>8 DEF EnterJob, Enters, At, Start, Answer, LiveOnEntry, Asked, Allowed,
      HasReceipt
<1>9. ASSUME NEW i \in Slots, Authenticate(i) PROVE Drawn'
  BY <1>9 DEF Authenticate, At, Answer, OnEntry
<1>10. ASSUME NEW i \in Slots, Login(i) PROVE Drawn'
  BY <1>10 DEF Login, At, Answer, Welcome, Draw
<1>11. ASSUME NEW i \in Slots, Reject(i) PROVE Drawn'
  BY <1>11 DEF Reject, At, Answer, OnEntry
<1>12. ASSUME NEW i \in Slots, Submit(i) PROVE Drawn'
  BY <1>12 DEF Submit, At, Resubmitted, Answer, Start
<1>13. ASSUME NEW i \in Slots, Invite(i) PROVE Drawn'
  <2>1. slot'[i].at = "release" /\ DOMAIN slot' = Slots /\ \A j \in Slots \ {i} : slot'[j] = slot[j]
    BY <1>13 DEF Invite, At, Saves
  <2>2. sessions' = sessions /\ fresh' \in Nat /\ fresh <= fresh' /\ account'.invite \in 0 .. fresh'
    BY <1>13 DEF Invite, Saves, Draw
  <2>3. closed' \subseteq closed \cup {account.invite} /\ 0 .. fresh \subseteq 0 .. fresh'
    BY <1>13, <2>2 DEF Invite, Close
  <2> QED BY <2>1, <2>2, <2>3
<1>14. ASSUME NEW i \in Slots, Accept(i) PROVE Drawn'
  <2>1. slot'[i].at = "release" /\ DOMAIN slot' = Slots /\ \A j \in Slots \ {i} : slot'[j] = slot[j]
    BY <1>14 DEF Accept, At, Saves
  <2>2. sessions' = sessions /\ fresh' \in Nat /\ fresh <= fresh' /\ account'.invite \in 0 .. fresh'
    BY <1>14 DEF Accept, Saves, Draw
  <2>3. closed' \subseteq 0 .. fresh'
    <3>1. CASE account' = account
      BY <1>14, <2>2, <3>1 DEF Accept, Close
    <3>2. CASE account' # account
      <4>1. slot[i].token = account.invite
        BY <1>14, <3>2 DEF Accept, Saves, Invited
      <4>2. closed' \subseteq closed \cup {account.invite}
        BY <1>14, <3>2, <4>1 DEF Accept, Close
      <4>3. 0 .. fresh \subseteq 0 .. fresh'
        BY <2>2
      <4> QED BY <4>2, <4>3
    <3> QED BY <3>1, <3>2
  <2> QED BY <2>1, <2>2, <2>3
<1>15. ASSUME NEW i \in Slots, Release(i) PROVE Drawn'
  BY <1>15 DEF Release, At, Answer, OnEntry, UserSessions
<1>16. ASSUME NEW i \in Slots, Device(i) PROVE Drawn'
  BY <1>16 DEF Device, At, Answer, Stage, ChangeDevices
<1>17. ASSUME NEW i \in Slots, DeviceDone(i) PROVE Drawn'
  BY <1>17 DEF DeviceDone, At, Answer, OnEntry
<1>18. CASE RunAccount
  BY <1>18 DEF RunAccount, JobIn, Draw, Ran, Finish, JobFrame
<1>19. CASE SavePortal
  BY <1>19 DEF SavePortal, JobIn, Draw, Ran, Finish, JobFrame, Close
<1>20. CASE Revoke
  BY <1>20 DEF Revoke, JobIn, Finish, JobFrame, stored, UserSessions
<1>21. CASE SessionExpires
  BY <1>21 DEF SessionExpires, OnEntry
<1>22. CASE Configure
  BY <1>22 DEF Configure, Draw, memory
<1>23. CASE DeleteUser
  <2>1. closed' \subseteq closed \cup {account.invite} /\ account'.invite = 0
    BY <1>23 DEF DeleteUser, Close
  <2> QED BY <1>23, <2>1 DEF DeleteUser, memory
<1>24. CASE Restart
  BY <1>24 DEF Restart, stored
<1>25. ASSUME Job, ~RunAccount, ~SavePortal, ~Revoke PROVE UNCHANGED <<fresh, account, closed, sessions, slot>>
  BY <1>25 DEF Job, RunAction, WrongPassword, RunPortal, Panic, JobEnds, Finish, Ran,
      JobFrame
<1>26. ASSUME (\E d \in Ids : ReceiptExpires(d))
      PROVE  UNCHANGED <<fresh, account, closed, sessions, slot>>
  BY <1>26 DEF ReceiptExpires, OnEntry, memory
<1>27. CASE UNCHANGED vars
  BY <1>27 DEF vars, memory
<1> QED BY <1>1, <1>2, <1>3, <1>4, <1>5, <1>6, <1>7, <1>8, <1>9, <1>10, <1>11, <1>12,
    <1>13, <1>14, <1>15, <1>16, <1>17, <1>18, <1>19, <1>20, <1>21, <1>22, <1>23,
    <1>24, <1>25, <1>26, <1>27 DEF Next, Serve

\* New settings end every session before anything else is accepted.
LEMMA ProvenKept ==
  ASSUME IInv, [Next]_vars PROVE Proven'
<1> USE DEF IInv, SlotShape, Serving, Drawn, Proven, Free, AdminJobs, JobKinds,
    stored
<1>1. ASSUME UNCHANGED <<sessions, seen, slot>> PROVE Proven'
  BY <1>1
<1>2. ASSUME NEW i \in Slots, Arrive(i) PROVE Proven'
  BY <1>2 DEF Arrive, Requests, At
<1>3. ASSUME NEW i \in Slots, Abandon(i) PROVE Proven'
  BY <1>3 DEF Abandon, At, Answer, OnEntry
<1>4. ASSUME NEW i \in Slots, EnterAnswered(i) PROVE Proven'
  BY <1>4 DEF EnterAnswered, Enters, At, Answer, OnEntry, LiveOnEntry
<1>5. ASSUME NEW i \in Slots, EnterLogout(i) PROVE Proven'
  BY <1>5 DEF EnterLogout, Enters, At, Answer, OnEntry, LiveOnEntry, Asked
<1>6. ASSUME NEW i \in Slots, EnterOutside(i) PROVE Proven'
  BY <1>6 DEF EnterOutside, Enters, At, OnEntry, LiveOnEntry, Asked, Allowed,
      HasReceipt
<1>7. ASSUME NEW i \in Slots, EnterInvite(i) PROVE Proven'
  BY <1>7 DEF EnterInvite, Enters, At, Stage, OnEntry, LiveOnEntry, Allowed
<1>8. ASSUME NEW i \in Slots, EnterJob(i) PROVE Proven'
  BY <1>8 DEF EnterJob, Enters, At, Start, Answer, LiveOnEntry, Asked, Allowed,
      HasReceipt
<1>9. ASSUME NEW i \in Slots, Authenticate(i) PROVE Proven'
  BY <1>9 DEF Authenticate, At, Answer, OnEntry
<1>10. ASSUME NEW i \in Slots, Login(i) PROVE Proven'
  BY <1>10 DEF Login, At, Answer, Welcome, Draw
<1>11. ASSUME NEW i \in Slots, Reject(i) PROVE Proven'
  BY <1>11 DEF Reject, At, Answer, OnEntry
<1>12. ASSUME NEW i \in Slots, Submit(i) PROVE Proven'
  BY <1>12 DEF Submit, At, Resubmitted, Answer, Start
<1>13. ASSUME NEW i \in Slots, Invite(i) PROVE Proven'
  BY <1>13 DEF Invite, At, Saves, Draw
<1>14. ASSUME NEW i \in Slots, Accept(i) PROVE Proven'
  BY <1>14 DEF Accept, At, Saves, Draw
<1>15. ASSUME NEW i \in Slots, Release(i) PROVE Proven'
  BY <1>15 DEF Release, At, Answer, OnEntry, UserSessions
<1>16. ASSUME NEW i \in Slots, Device(i) PROVE Proven'
  BY <1>16 DEF Device, At, Answer, Stage, ChangeDevices
<1>17. ASSUME NEW i \in Slots, DeviceDone(i) PROVE Proven'
  BY <1>17 DEF DeviceDone, At, Answer, OnEntry
<1>18. CASE Revoke
  BY <1>18 DEF Revoke, JobIn, Finish, JobFrame, stored, UserSessions
<1>19. CASE SessionExpires
  BY <1>19 DEF SessionExpires, OnEntry
<1>20. CASE Restart
  BY <1>20 DEF Restart, stored
<1>21. ASSUME Job, ~Revoke PROVE UNCHANGED <<sessions, seen, slot>>
  BY <1>21 DEF Job, RunAction, WrongPassword, RunAccount, RunPortal, SavePortal,
      Panic, JobEnds, Finish, Ran, JobFrame
<1>22. ASSUME (\E d \in Ids : ReceiptExpires(d)) \/ Configure \/ DeleteUser
      PROVE  UNCHANGED <<sessions, seen, slot>>
  BY <1>22 DEF ReceiptExpires, Configure, DeleteUser, OnEntry, memory
<1>23. CASE UNCHANGED vars
  BY <1>23 DEF vars, memory
<1> QED BY <1>1, <1>2, <1>3, <1>4, <1>5, <1>6, <1>7, <1>8, <1>9, <1>10, <1>11, <1>12,
    <1>13, <1>14, <1>15, <1>16, <1>17, <1>18, <1>19, <1>20, <1>21, <1>22, <1>23 DEF
    Next, Serve

\* Each side looks at the other's name under the lock it saves under.
LEMMA ApartKept ==
  ASSUME IInv, [Next]_vars PROVE Apart'
<1> USE DEF IInv, JobShape, Apart, NamesDisjoint, Free, NoAccount, AdminJobs,
    JobKinds, stored
<1>1. ASSUME UNCHANGED <<disk, account, job>> PROVE Apart'
  BY <1>1
<1>2. ASSUME NEW i \in Slots, EnterJob(i) PROVE Apart'
  BY <1>2 DEF EnterJob, Enters, At, Start, Answer, LiveOnEntry, Asked, Allowed,
      HasReceipt
<1>3. ASSUME NEW i \in Slots, Submit(i) PROVE Apart'
  BY <1>3 DEF Submit, At, Resubmitted, Answer, Start
<1>4. ASSUME NEW i \in Slots, Invite(i) PROVE Apart'
  BY <1>4 DEF Invite, At, Saves, Draw
<1>5. ASSUME NEW i \in Slots, Accept(i) PROVE Apart'
  BY <1>5 DEF Accept, At, Saves, Draw
<1>6. ASSUME NEW i \in Slots, Arrive(i) \/ Serve(i), ~EnterJob(i), ~Submit(i), ~Invite(i), ~Accept(i)
      PROVE  UNCHANGED <<disk, account, job>>
  BY <1>6 DEF Serve, Arrive, Abandon, EnterAnswered, EnterLogout, EnterOutside,
      EnterInvite, Authenticate, Login, Reject, Release, Device, DeviceDone, At,
      Stage, Answer, OnEntry, Enters, Start, Saves, ChangeDevices
<1>7. CASE RunAction
  BY <1>7 DEF RunAction, JobIn, Ran, Finish, JobFrame
<1>8. CASE WrongPassword
  BY <1>8 DEF WrongPassword, JobIn, Finish, JobFrame
<1>9. CASE RunAccount
  <2>1. CASE Finish /\ UNCHANGED <<disk, fresh, runs>>
    BY <1>9, <2>1 DEF RunAccount, JobIn, Finish
  <2>2. CASE /\ \E name \in Admins : /\ name = "user" => account = NoAccount
                                    /\ disk' = [version |-> fresh', name |-> name]
             /\ job' = [job EXCEPT !.at = "revoke", !.settings = disk']
    BY <1>9, <2>2 DEF RunAccount
  <2> QED BY <1>9, <2>1, <2>2 DEF RunAccount
<1>10. CASE RunPortal
  BY <1>10 DEF RunPortal, JobIn, Finish, JobFrame
<1>11. CASE SavePortal
  BY <1>11 DEF SavePortal, JobIn, Draw, Ran, Finish, JobFrame
<1>12. CASE Revoke
  BY <1>12 DEF Revoke, JobIn, Finish, JobFrame, stored, UserSessions
<1>13. CASE Panic
  BY <1>13 DEF Panic, Finish, JobFrame
<1>14. CASE JobEnds
  BY <1>14 DEF JobEnds, stored
<1>15. CASE Configure
  BY <1>15 DEF Configure, Draw, memory
<1>16. CASE DeleteUser
  BY <1>16 DEF DeleteUser, memory
<1>17. CASE Restart
  BY <1>17 DEF Restart, stored
<1>18. ASSUME (\E d \in Ids : ReceiptExpires(d)) \/ SessionExpires
      PROVE  UNCHANGED <<disk, account, job>>
  BY <1>18 DEF ReceiptExpires, SessionExpires, OnEntry, memory
<1>19. CASE UNCHANGED vars
  BY <1>19 DEF vars, memory
<1> QED BY <1>1, <1>2, <1>3, <1>4, <1>5, <1>6, <1>7, <1>8, <1>9, <1>10, <1>11, <1>12,
    <1>13, <1>14, <1>15, <1>16, <1>17, <1>18, <1>19 DEF Next, Job

\* Every change of the account closes the invitation it had, and a new one
\* bears a token drawn with it.
LEMMA OpenInvitationKept ==
  ASSUME IInv, [Next]_vars PROVE OpenInvitation'
<1> USE DEF IInv, Drawn, OpenInvitation, NoAccount, stored
<1>1. ASSUME UNCHANGED <<account, closed>> PROVE OpenInvitation'
  BY <1>1
<1>2. ASSUME NEW i \in Slots, Invite(i) PROVE OpenInvitation'
  <2>1. CASE account' = account
    BY <1>2, <2>1 DEF Invite, Close
  <2>2. CASE account' # account
    <3>1. account'.invite = fresh + 1 /\ closed' \subseteq closed \cup {account.invite}
      BY <1>2, <2>2 DEF Invite, Saves, Draw, Close
    <3> QED BY <3>1
  <2> QED BY <2>1, <2>2
<1>3. ASSUME NEW i \in Slots, Accept(i) PROVE OpenInvitation'
  <2>1. CASE account' = account
    BY <1>3, <2>1 DEF Accept, Close
  <2>2. CASE account' # account
    BY <1>3, <2>2 DEF Accept, Saves
  <2> QED BY <2>1, <2>2
<1>4. ASSUME NEW i \in Slots, Arrive(i) \/ Serve(i), ~Invite(i), ~Accept(i)
      PROVE  UNCHANGED <<account, closed>>
  BY <1>4 DEF Serve, Arrive, Abandon, EnterAnswered, EnterLogout, EnterOutside,
      EnterInvite, EnterJob, Authenticate, Login, Reject, Submit, Release, Device,
      DeviceDone, At, Stage, Answer, OnEntry, Enters, Start, Saves, ChangeDevices
<1>5. CASE SavePortal
  BY <1>5 DEF SavePortal, Close
<1>6. CASE DeleteUser
  BY <1>6 DEF DeleteUser, memory
<1>7. ASSUME Job, ~SavePortal PROVE UNCHANGED <<account, closed>>
  BY <1>7 DEF Job, RunAction, WrongPassword, RunAccount, RunPortal, Revoke, Panic,
      JobEnds, Finish, Ran, JobFrame
<1>8. ASSUME (\E d \in Ids : ReceiptExpires(d)) \/ SessionExpires \/ Configure \/ Restart
      PROVE  UNCHANGED <<account, closed>>
  BY <1>8 DEF ReceiptExpires, SessionExpires, Configure, Restart, OnEntry, memory
<1>9. CASE UNCHANGED vars
  BY <1>9 DEF vars, memory
<1> QED BY <1>1, <1>2, <1>3, <1>4, <1>5, <1>6, <1>7, <1>8, <1>9 DEF Next

\* Only RunPortal takes a job to "save", and it has just checked the proof.
LEMMA OwnAccountKept ==
  ASSUME IInv, [Next]_vars PROVE OwnAccount'
<1> USE DEF IInv, JobShape, OwnAccount, JobIn, Free, AdminJobs, JobKinds, stored
<1>1. ASSUME UNCHANGED job PROVE OwnAccount'
  BY <1>1
<1>2. ASSUME NEW i \in Slots, NEW s, Start(i, s) PROVE OwnAccount'
  BY <1>2 DEF Start
<1>3. ASSUME NEW i \in Slots, Arrive(i) \/ Serve(i), \A s : ~Start(i, s) PROVE UNCHANGED job
  BY <1>3 DEF Serve, Arrive, Abandon, EnterAnswered, EnterLogout, EnterOutside,
      EnterInvite, EnterJob, Authenticate, Login, Reject, Submit, Invite, Accept,
      Release, Device, DeviceDone, OnEntry
<1>4. CASE RunPortal
  <2>1. CASE Finish
    BY <2>1 DEF Finish
  <2>2. CASE /\ job.kind = "self" => ProofHolds(job.owner.proof)
             /\ job' = [job EXCEPT !.at = "save", !.expected = account]
    BY <2>2, <1>4 DEF RunPortal, ProofHolds
  <2> QED BY <1>4, <2>1, <2>2 DEF RunPortal
<1>5. ASSUME RunAccount \/ SavePortal, ~Finish PROVE OwnAccount'
  BY <1>5 DEF RunAccount, SavePortal
<1>6. ASSUME Finish PROVE OwnAccount'
  BY <1>6 DEF Finish
<1>7. CASE JobEnds \/ Restart
  BY <1>7 DEF JobEnds, Restart
<1>8. ASSUME RunAction \/ WrongPassword \/ Revoke \/ Panic PROVE Finish
  BY <1>8 DEF RunAction, WrongPassword, Revoke, Panic
<1>9. CASE (\E d \in Ids : ReceiptExpires(d)) \/ SessionExpires \/ Configure \/ DeleteUser
  BY <1>9, <1>1 DEF ReceiptExpires, SessionExpires, Configure, DeleteUser, OnEntry, memory
<1>10. CASE UNCHANGED vars
  BY <1>10 DEF vars, memory
<1> QED BY <1>1, <1>2, <1>3, <1>4, <1>5, <1>6, <1>7, <1>8, <1>9, <1>10 DEF Next, Job

LEMMA StepInv == IInv /\ [Next]_vars => IInv'
BY SlotShapeKept, JobShapeKept, SlotHeldKept, ReceiptsKept, DrawnKept, ProvenKept,
   ApartKept, OpenInvitationKept, OwnAccountKept DEF IInv

\* The invariant holds of every reachable state.
THEOREM Invariant == Spec => []IInv
BY InitInv, StepInv, PTL DEF Spec

(***************************************************************************)
(* What follows                                                            *)
(***************************************************************************)
\* However often a request is repeated, and however its repetitions are
\* interleaved with it, its modification is made once while its receipt
\* exists (startJobLocked, jobReceiptLocked).
THEOREM RepeatedRequestsRunOnce == Spec => []OncePerReceipt
<1>1. IInv => OncePerReceipt
  BY DEF IInv, Receipts, OncePerReceipt
<1> QED BY <1>1, Invariant, PTL

\* The modification slot has at most one holder, and is taken exactly while
\* it has one, whatever fails, panics or restarts.
THEOREM SlotHasOneHolder == Spec => []OneHolder
<1>1. ASSUME IInv PROVE OneHolder
  <2> USE <1>1 DEF IInv, SlotHeld
  <2>1. Inviting = {i \in Slots : slot[i].at \in {"invite", "accept", "release"}}
    BY DEF Inviting, Serving
  <2>2. job = Free <=> job.at = "free"
    BY DEF JobShape, Free
  <2>3. Cardinality(Inviting) = IF Inviting = {} THEN 0 ELSE 1
    <3>1. Inviting = {} => Cardinality(Inviting) = 0
      BY FS_EmptySet
    <3>2. ASSUME NEW i \in Inviting PROVE Cardinality(Inviting) = 1
      <4>1. Inviting = {i}
        BY <3>2
      <4> QED BY <4>1, FS_Singleton
    <3> QED BY <3>1, <3>2
  <2> QED BY <2>1, <2>2, <2>3 DEF OneHolder
<1> QED BY <1>1, Invariant, PTL

\* An acceptance saves a password only with the token of an invitation that is
\* still open: not one that set a password before, nor one that was replaced,
\* reset, switched off or deleted while the request was on its way.
THEOREM InvitationsAreUsedOnce == Spec => InvitationOnce
<1> DEFINE Redeemed ==
      \A i \in Slots : At(i, "accept") /\ slot'[i].at # "accept" /\ account' # account =>
        slot[i].token \notin closed
<1>1. ASSUME IInv, [Next]_vars PROVE Redeemed
  <2> SUFFICES ASSUME NEW i \in Slots, At(i, "accept"), slot'[i].at # "accept", account' # account
               PROVE  slot[i].token \notin closed
    OBVIOUS
  <2> USE <1>1 DEF IInv, SlotShape
  <2>1. CASE Accept(i)
    BY <2>1 DEF Accept, Saves, Invited, OpenInvitation
  <2>2. ASSUME NEW j \in Slots, Arrive(j) \/ Serve(j), ~Accept(i) PROVE FALSE
    <3>1. Invite(j) \/ Accept(j)
      BY <2>2 DEF Serve, Arrive, Abandon, EnterAnswered, EnterLogout, EnterOutside, EnterInvite,
         EnterJob, Authenticate, Login, Reject, Submit, Release, Device, DeviceDone, OnEntry, stored
    <3>2. i = j
      <4>1. CASE Invite(j)
        BY <4>1 DEF Invite, Saves, At
      <4>2. CASE Accept(j)
        BY <4>2 DEF Accept, Saves, At
      <4> QED BY <3>1, <4>1, <4>2
    <3> QED BY <2>2, <3>1, <3>2 DEF Invite, At
  <2>3. CASE Job
    BY <2>3 DEF Job, RunAction, WrongPassword, RunAccount, RunPortal, SavePortal, Revoke, Panic,
       JobEnds, JobFrame, At
  <2>4. CASE (\E d \in Ids : ReceiptExpires(d)) \/ SessionExpires \/ Configure \/ DeleteUser
    BY <2>4 DEF ReceiptExpires, SessionExpires, Configure, DeleteUser, memory, At
  <2>5. CASE Restart
    BY <2>5 DEF Restart, stored
  <2>6. CASE UNCHANGED vars
    BY <2>6 DEF vars, memory, At
  <2> QED BY <2>1, <2>2, <2>3, <2>4, <2>5, <2>6 DEF Next
<1> QED BY <1>1, Invariant, PTL DEF Spec, InvitationOnce

\* The administrator and a portal user never share a login name, although one
\* file holds one and the state the other.
THEOREM LoginNamesDiffer == Spec => []NamesDisjoint
<1>1. IInv => NamesDisjoint
  BY DEF IInv, Apart
<1> QED BY <1>1, Invariant, PTL

\* Whatever is accepted for execution is accepted for a session that is open
\* at that moment and was opened with the settings now in force.
THEOREM AcceptedForOpenSessions == Spec => AcceptedWhileLoggedIn
<1> DEFINE Accepted ==
      \A d \in Ids : jobs[d] # "running" /\ jobs'[d] = "running" =>
        /\ job'.owner \in sessions
        /\ job'.owner.role = "admin" => job'.owner.proof = job'.settings.version /\ seen' = job'.settings
<1>1. ASSUME IInv, [Next]_vars PROVE Accepted
  <2> USE <1>1 DEF IInv, Receipts
  <2>1. ASSUME NEW i \in Slots, EnterJob(i) PROVE Accepted
    <3>1. PICK s \in Asked(i) : Start(i, s)
      BY <2>1 DEF EnterJob
    <3>2. s \in sessions /\ slot[i].settings = seen /\ seen' = seen
      BY <2>1 DEF EnterJob, Enters, Asked, LiveOnEntry
    <3>3. job'.owner = s /\ job'.settings = slot[i].settings
      BY <3>1 DEF Start
    <3> QED BY <3>2, <3>3 DEF Proven
  <2>2. ASSUME NEW i \in Slots, Submit(i) PROVE Accepted
    <3>1. CASE UNCHANGED jobs
      BY <3>1
    <3>2. ASSUME NEW s \in sessions, s.n = slot[i].session, Start(i, s) PROVE Accepted
      <4>1. slot[i].settings = seen /\ seen' = seen
        BY <2>2, <3>2 DEF Submit, At, Proven, Serving
      <4>2. job'.owner = s /\ job'.settings = slot[i].settings
        BY <3>2 DEF Start
      <4> QED BY <4>1, <4>2 DEF Proven
    <3> QED BY <2>2, <3>1, <3>2 DEF Submit
  <2>3. ASSUME NEW i \in Slots, Arrive(i) \/ Serve(i), ~EnterJob(i), ~Submit(i) PROVE Accepted
    <3>1. UNCHANGED jobs
      BY <2>3 DEF Serve, Arrive, Abandon, EnterAnswered, EnterLogout, EnterOutside, EnterInvite,
         Authenticate, Login, Reject, Invite, Accept, Release, Device, DeviceDone, OnEntry
    <3> QED BY <3>1
  <2>4. CASE Job
    <3>1. UNCHANGED jobs \/ jobs' = [jobs EXCEPT ![job.id] = "ended"]
      BY <2>4 DEF Job, RunAction, WrongPassword, RunAccount, RunPortal, SavePortal, Revoke, Panic,
         JobEnds, JobFrame
    <3> QED BY <3>1
  <2>5. ASSUME NEW d \in Ids, ReceiptExpires(d) PROVE Accepted
    BY <2>5 DEF ReceiptExpires
  <2>6. CASE SessionExpires \/ Configure \/ DeleteUser
    BY <2>6 DEF SessionExpires, Configure, DeleteUser, OnEntry, memory
  <2>7. CASE Restart
    BY <2>7 DEF Restart
  <2>8. CASE UNCHANGED vars
    BY <2>8 DEF vars, memory
  <2> QED BY <2>1, <2>2, <2>3, <2>4, <2>5, <2>6, <2>7, <2>8 DEF Next
<1> QED BY <1>1, Invariant, PTL DEF Spec, AcceptedWhileLoggedIn

\* A user's own change of password is saved only over the account the session
\* had logged in to, whatever was reset, switched off, deleted or invited anew
\* between the login, the check and the save.
THEOREM PasswordsAreOwn == Spec => OwnPassword
<1> DEFINE Own == JobIn("save", {"self"}) /\ job'.at = "revoke" => ProofHolds(job.owner.proof)
<1>1. ASSUME IInv, [Next]_vars PROVE Own
  <2> SUFFICES ASSUME JobIn("save", {"self"}), job'.at = "revoke"
               PROVE  ProofHolds(job.owner.proof)
    OBVIOUS
  <2> USE <1>1 DEF IInv, JobShape, JobIn
  <2>1. CASE SavePortal
    <3>1. account = job.expected
      BY <2>1 DEF SavePortal, Finish
    <3> QED BY <3>1 DEF OwnAccount, ProofHolds
  <2>2. ASSUME NEW i \in Slots, NEW s, Start(i, s) PROVE FALSE
    BY <2>2 DEF Start
  <2>3. ASSUME NEW i \in Slots, Arrive(i) \/ Serve(i), \A s : ~Start(i, s) PROVE FALSE
    BY <2>3 DEF Serve, Arrive, Abandon, EnterAnswered, EnterLogout, EnterOutside, EnterInvite,
       EnterJob, Authenticate, Login, Reject, Submit, Invite, Accept, Release, Device, DeviceDone,
       OnEntry
  <2>4. ASSUME Job, ~SavePortal PROVE FALSE
    BY <2>4 DEF Job, RunAction, WrongPassword, RunAccount, RunPortal, Revoke, Panic, JobEnds, Finish
  <2>5. CASE (\E d \in Ids : ReceiptExpires(d)) \/ SessionExpires \/ Configure \/ DeleteUser
    BY <2>5 DEF ReceiptExpires, SessionExpires, Configure, DeleteUser, OnEntry, memory
  <2>6. CASE Restart
    BY <2>6 DEF Restart, Free
  <2>7. CASE UNCHANGED vars
    BY <2>7 DEF vars, memory
  <2> QED BY <2>1, <2>2, <2>3, <2>4, <2>5, <2>6, <2>7 DEF Next
<1> QED BY <1>1, Invariant, PTL DEF Spec, OwnPassword

===============================================================================
