----------------------------- MODULE WebConsole -----------------------------
(* The web console behind its unprivileged HTTP worker: the privileged       *)
(* backend with its sessions, its one slot for modifications and the         *)
(* receipts of the jobs that went through it; the credentials of the         *)
(* administrator (web-admin.json) and of a portal user (in the state); the   *)
(* invitation with which the user sets a first password.                     *)
(*                                                                           *)
(* A request is served by one of the broker's slots in the steps between     *)
(* which the code gives up b.mu or the state lock. One step stands for one   *)
(* critical section. Passwords, tokens, epochs and session identifiers are   *)
(* numbers drawn from "fresh": nobody guesses one that was not drawn yet.    *)
EXTENDS Naturals, FiniteSets

CONSTANTS Slots,      \* requests in service at a time (webIPCConcurrency)
          Ids,        \* the X-Request-ID values browsers choose
          MaxReceipts,\* webMaxJobs
          UserCap,    \* sessions a portal user may have open
          MaxFresh    \* bound: how many secrets are drawn

VARIABLES disk,      \* web-admin.json: its version and the administrator's name
          seen,      \* b.config, the settings the backend last saw
          sessions,  \* b.sessions
          jobs,      \* b.jobs: the receipt of each request identity
          busy,      \* b.busy, the modification slot
          job,       \* the goroutine of the running job
          slot,      \* the requests in service
          account,   \* the portal account of the user, in the state
          fresh,     \* secrets drawn so far
          runs,      \* history: executions of a request since its receipt exists
          closed     \* history: invitations used, replaced, switched off or gone

memory == <<seen, sessions, jobs, busy, job, slot>>
stored == <<disk, account>>
vars == <<memory, stored, fresh, runs, closed>>

NoAccount == [enabled |-> FALSE, epoch |-> 0, password |-> 0, invite |-> 0]
Free == [at |-> "free"]
Admins == {"admin", "user"} \* a name of its own, or the name of the portal user

AdminJobs == {"action", "account", "reset"}
JobKinds == AdminJobs \cup {"self"}
(* What can arrive: a path with the cookie of a session and an identity, a   *)
(* login with a password, an invitation with its token; all of them good     *)
(* when they are sent. The context of a request may end at any time, because *)
(* the worker died or 20 s went by: the steps that ask for it may give up.   *)
Requests ==
  LET open == {s.n : s \in sessions} IN
    [at : {"enter"}, settings : {disk}, by : {{}}, kind : JobKinds, id : Ids, session : open]
      \cup [at : {"enter"}, settings : {disk}, by : {{}}, kind : {"device", "logout", "invite"}, session : open]
      \cup [at : {"enter"}, settings : {disk}, by : {{}}, kind : {"login"}, name : {disk.name}, password : {disk.version}]
      \cup [at : {"enter"}, settings : {disk}, by : {{}}, kind : {"login"}, name : {"user"}, password : {account.password}]
      \cup [at : {"enter"}, settings : {disk}, by : {{}}, kind : {"accept"}, token : {account.invite}]

Init ==
    /\ disk = [version |-> 0, name |-> "admin"] /\ seen = disk
    /\ sessions = {[n |-> 1, role |-> "admin", proof |-> 0]}
    /\ jobs = [d \in Ids |-> "none"] /\ busy = FALSE /\ job = Free
    /\ slot = [i \in Slots |-> Free]
    /\ \/ account = [enabled |-> TRUE, epoch |-> 1, password |-> 1, invite |-> 0]
       \/ account = [enabled |-> TRUE, epoch |-> 1, password |-> 0, invite |-> 1]
    /\ fresh = 1 /\ runs = [d \in Ids |-> 0] /\ closed = {}

Stage(i, at) == slot' = [slot EXCEPT ![i].at = at]
Answer(i) == slot' = [slot EXCEPT ![i] = Free]
At(i, at) == slot[i].at = at
Draw == fresh < MaxFresh /\ fresh' = fresh + 1
UserSessions == {s \in sessions : s.role = "user"}

(***************************************************************************)
(* Arrival, and the entry into the backend under b.mu                      *)
(***************************************************************************)
Arrive(i) ==
    /\ At(i, "free")
    /\ \E r \in Requests : slot' = [slot EXCEPT ![i] = r]
    /\ UNCHANGED <<seen, sessions, jobs, busy, job, stored, fresh, runs, closed>>

(* Settings other than those last seen end every session.                  *)
LiveOnEntryAlways(i) == sessions
LiveOnEntry(i) == IF slot[i].settings = seen THEN sessions ELSE {}
Asked(i) == {s \in LiveOnEntry(i) : s.n = slot[i].session}
HasReceipt(i) == slot[i].kind \in JobKinds /\ jobs[slot[i].id] # "none"
Full == Cardinality({d \in Ids : jobs[d] # "none"}) >= MaxReceipts
Allowed(i) ==
    CASE slot[i].kind \in AdminJobs \cup {"invite"} -> \E s \in Asked(i) : s.role = "admin"
      [] slot[i].kind \in {"device", "self"} -> \E s \in Asked(i) : s.role = "user"
      [] slot[i].kind = "logout" -> Asked(i) # {}
      [] OTHER -> TRUE
Enters(i) == At(i, "enter") /\ seen' = slot[i].settings
OnEntry == <<job, stored, fresh, runs, closed>>

Abandon(i) ==
    At(i, "enter") /\ Answer(i)
      /\ UNCHANGED <<seen, sessions, jobs, busy, OnEntry>>
(* A receipt or a refusal; a request that only reads does nothing more.    *)
EnterAnswered(i) ==
    /\ Enters(i)
    /\ \/ HasReceipt(i)
       \/ ~Allowed(i)
       \/ slot[i].kind \in JobKinds \ {"action"} /\ (busy \/ Full)
       \/ slot[i].kind \in {"invite", "accept"} /\ busy
    /\ sessions' = LiveOnEntry(i) /\ Answer(i)
    /\ UNCHANGED <<jobs, busy, OnEntry>>
EnterLogout(i) ==
    /\ Enters(i) /\ slot[i].kind = "logout" /\ Allowed(i)
    /\ sessions' = LiveOnEntry(i) \ Asked(i) /\ Answer(i)
    /\ UNCHANGED <<jobs, busy, OnEntry>>
(* What goes on outside b.mu: a login hashes, an action is compiled, a     *)
(* portal request takes the state lock.                                    *)
EnterOutside(i) ==
    /\ Enters(i) /\ slot[i].kind \in {"login", "action", "device"}
    /\ ~HasReceipt(i) /\ Allowed(i)
    /\ sessions' = LiveOnEntry(i)
    /\ slot' = [slot EXCEPT ![i].at = slot[i].kind, ![i].by = IF slot[i].kind = "login" THEN {} ELSE Asked(i)]
    /\ UNCHANGED <<jobs, busy, OnEntry>>
(* Creating or accepting an invitation takes the modification slot.        *)
EnterInvite(i) ==
    /\ Enters(i) /\ slot[i].kind \in {"invite", "accept"} /\ Allowed(i) /\ ~busy
    /\ sessions' = LiveOnEntry(i) /\ busy' = TRUE /\ Stage(i, slot[i].kind)
    /\ UNCHANGED <<jobs, OnEntry>>

(* startJobLocked *)
Start(i, owner) ==
    /\ ~busy /\ ~Full /\ busy' = TRUE
    /\ jobs' = [jobs EXCEPT ![slot[i].id] = "running"]
    /\ job' = [at |-> "run", kind |-> slot[i].kind, id |-> slot[i].id, settings |-> slot[i].settings,
               owner |-> owner, expected |-> NoAccount]
    /\ Answer(i)
EnterJob(i) ==
    /\ Enters(i) /\ slot[i].kind \in JobKinds \ {"action"} /\ ~HasReceipt(i) /\ Allowed(i)
    /\ \E s \in Asked(i) : Start(i, s)
    /\ sessions' = LiveOnEntry(i)
    /\ UNCHANGED <<stored, fresh, runs, closed>>

(***************************************************************************)
(* What the requests do outside b.mu                                       *)
(***************************************************************************)
PortalAccepts(password) == account.enabled /\ account.password # 0 /\ password = account.password
(* The password was right for the settings read on entry, or for the       *)
(* portal account as it is now; web-admin.json is read once more.          *)
Authenticate(i) ==
    /\ At(i, "login")
    /\ LET q == slot[i]
           admin == q.name = q.settings.name
           proof == IF admin THEN q.settings.version ELSE account.epoch
           right == IF admin THEN q.password = q.settings.version
                    ELSE q.name = "user" /\ PortalAccepts(q.password)
       IN IF right
          THEN slot' = [slot EXCEPT ![i] = [at |-> "authenticated", settings |-> q.settings,
                          latest |-> disk, proof |-> proof,
                          role |-> IF admin THEN "admin" ELSE "user"]]
          ELSE Answer(i)
    /\ UNCHANGED <<seen, sessions, jobs, busy, OnEntry>>
Welcome(i) ==
    /\ slot[i].latest = slot[i].settings /\ seen = slot[i].settings
    /\ slot[i].role = "user" => Cardinality(UserSessions) < UserCap
Login(i) ==
    /\ At(i, "authenticated") /\ Answer(i)
    /\ \/ /\ Welcome(i) /\ Draw
          /\ sessions' = sessions \cup
               {[n |-> fresh', role |-> slot[i].role, proof |-> slot[i].proof]}
       \/ UNCHANGED <<sessions, fresh>>
    /\ UNCHANGED <<seen, jobs, busy, job, stored, runs, closed>>

(* compileWebAction finds the form wrong.                                  *)
Reject(i) ==
    At(i, "action") /\ Answer(i) /\ UNCHANGED <<seen, sessions, jobs, busy, OnEntry>>
(* The action is compiled; receipt and session are looked up again.        *)
ResubmittedUnseen(i) == FALSE
Resubmitted(i) == jobs[slot[i].id] # "none"
Submit(i) ==
    /\ At(i, "action")
    /\ LET mine == {s \in sessions : s.n = slot[i].session /\ s.role = "admin"}
       IN IF Resubmitted(i) \/ mine = {} \/ busy \/ Full
          THEN Answer(i) /\ UNCHANGED <<jobs, busy, job>>
          ELSE \E s \in mine : Start(i, s)
    /\ UNCHANGED <<seen, sessions, stored, fresh, runs, closed>>

(* The administrator invites: any older invitation is void. Both this and  *)
(* the user's acceptance may fail to save, or lose their caller first.     *)
Saves(i, may, next) ==
    \/ /\ disk = slot[i].settings /\ disk.name # "user" /\ may
       /\ Draw /\ account' = next
       /\ slot' = [slot EXCEPT ![i] = [at |-> "release", revoke |-> TRUE]]
    \/ /\ slot' = [slot EXCEPT ![i] = [at |-> "release", revoke |-> FALSE]]
       /\ UNCHANGED <<account, fresh>>
(* An invitation that the change of the account leaves behind.            *)
Close(tokens) == closed' = IF account' = account THEN closed ELSE closed \cup (tokens \ {0})
Invite(i) ==
    /\ At(i, "invite")
    /\ Saves(i, account.password = 0,
             [enabled |-> TRUE, epoch |-> fresh', password |-> 0, invite |-> fresh'])
    /\ Close({account.invite})
    /\ UNCHANGED <<seen, sessions, jobs, busy, job, disk, runs>>
(* An open invitation, and the token of the request is its token.          *)
InvitedByAny(token) == account.enabled /\ account.password = 0 /\ account.invite # 0
Invited(token) ==
    account.enabled /\ account.password = 0 /\ account.invite # 0 /\ account.invite = token
Accept(i) ==
    /\ At(i, "accept")
    /\ Saves(i, Invited(slot[i].token),
             [enabled |-> TRUE, epoch |-> fresh', password |-> fresh', invite |-> 0])
    /\ Close({account.invite, slot[i].token})
    /\ UNCHANGED <<seen, sessions, jobs, busy, job, disk, runs>>
Release(i) ==
    /\ At(i, "release") /\ busy' = FALSE /\ Answer(i)
    /\ sessions' = IF slot[i].revoke THEN sessions \ UserSessions ELSE sessions
    /\ UNCHANGED <<seen, jobs, OnEntry>>

(* lookupPortalLocked: the account is checked again under the state lock   *)
(* that the change is made under ("changed"); a session it disowns is      *)
(* dropped after.                                                          *)
ProofHolds(proof) == account.enabled /\ account.password # 0 /\ account.epoch = proof
ChangeDevices(i) == ~busy /\ Stage(i, "changed")
Device(i) ==
    /\ At(i, "device")
    /\ \/ \E s \in slot[i].by :
            IF ProofHolds(s.proof)
            THEN ChangeDevices(i)
            ELSE Stage(i, "disowned")
       \/ Answer(i)
    /\ UNCHANGED <<seen, sessions, jobs, busy, job, disk, account, fresh, runs, closed>>
DeviceDone(i) ==
    /\ slot[i].at \in {"changed", "disowned"} /\ Answer(i)
    /\ sessions' = IF At(i, "changed") THEN sessions ELSE sessions \ slot[i].by
    /\ UNCHANGED <<seen, jobs, busy, OnEntry>>

(***************************************************************************)
(* The running job                                                         *)
(***************************************************************************)
Finish == job' = [job EXCEPT !.at = "finish"]
JobIn(at, kinds) == job.at = at /\ job.kind \in kinds
Ran == runs' = [runs EXCEPT ![job.id] = @ + 1]
JobFrame == <<seen, jobs, busy, slot>>

RunAction ==
    /\ JobIn("run", {"action"}) /\ Ran /\ Finish
    /\ UNCHANGED <<JobFrame, sessions, disk, account, fresh, closed>>
WrongPassword ==
    /\ JobIn("run", {"account", "self"}) /\ Finish
    /\ UNCHANGED <<JobFrame, sessions, disk, account, fresh, runs, closed>>
(* updateAdminCredentials: only over the settings the request was checked  *)
(* against, and never to the name of a user with a portal account.         *)
RunAccountAnyName ==
    /\ JobIn("run", {"account"}) /\ disk = job.settings /\ Draw
    /\ \E name \in Admins : disk' = [version |-> fresh', name |-> name]
    /\ Ran /\ job' = [job EXCEPT !.at = "revoke", !.settings = disk']
    /\ UNCHANGED <<JobFrame, sessions, account, closed>>
RunAccount ==
    /\ JobIn("run", {"account"})
    /\ \/ /\ disk = job.settings /\ Draw
          /\ \E name \in Admins :
               /\ name = "user" => account = NoAccount
               /\ disk' = [version |-> fresh', name |-> name]
          /\ Ran /\ job' = [job EXCEPT !.at = "revoke", !.settings = disk']
       \/ Finish /\ UNCHANGED <<disk, fresh, runs>>
    /\ UNCHANGED <<JobFrame, sessions, account, closed>>
(* updatePortalCredentials: the account is read under the state lock, the  *)
(* password hashed outside it, and written only over what was read.        *)
RunPortal ==
    /\ JobIn("run", {"reset", "self"})
    /\ \/ /\ account # NoAccount /\ job.settings.name # "user"
          /\ job.kind = "self" => ProofHolds(job.owner.proof)
          /\ job' = [job EXCEPT !.at = "save", !.expected = account]
       \/ Finish
    /\ UNCHANGED <<JobFrame, sessions, disk, account, fresh, runs, closed>>
(* The user sets a new password, the administrator may also switch the     *)
(* account; one without a password yet can only be switched off.           *)
NewPasswords == IF job.kind = "self" THEN {fresh'}
                ELSE IF account.password = 0 THEN {0} ELSE {account.password, fresh'}
Switches == IF job.kind = "self" THEN {TRUE} ELSE IF account.password = 0 THEN {FALSE} ELSE BOOLEAN
SavePortalOverAnything ==
    /\ JobIn("save", {"reset", "self"})
    /\ \/ /\ disk = job.settings /\ Draw
          /\ \E password \in NewPasswords, on \in Switches :
               account' = [enabled |-> on, epoch |-> fresh', password |-> password, invite |-> 0]
          /\ Ran /\ job' = [job EXCEPT !.at = "revoke"]
       \/ Finish /\ UNCHANGED <<account, fresh, runs>>
    /\ Close({account.invite})
    /\ UNCHANGED <<JobFrame, sessions, disk>>
SavePortal ==
    /\ JobIn("save", {"reset", "self"})
    /\ \/ /\ disk = job.settings /\ account = job.expected /\ Draw
          /\ \E password \in NewPasswords, on \in Switches :
               account' = [enabled |-> on, epoch |-> fresh', password |-> password, invite |-> 0]
          /\ Ran /\ job' = [job EXCEPT !.at = "revoke"]
       \/ Finish /\ UNCHANGED <<account, fresh, runs>>
    /\ Close({account.invite})
    /\ UNCHANGED <<JobFrame, sessions, disk>>
Revoke ==
    /\ JobIn("revoke", JobKinds) /\ Finish
    /\ IF job.kind = "account" THEN sessions' = {} /\ seen' = job.settings
                               ELSE sessions' = sessions \ UserSessions /\ UNCHANGED seen
    /\ UNCHANGED <<jobs, busy, slot, stored, fresh, runs, closed>>
PanicKeepsSlot ==
    /\ job.at \in {"run", "save", "revoke"} /\ job' = Free
    /\ UNCHANGED <<JobFrame, sessions, disk, account, fresh, runs, closed>>
Panic ==
    /\ job.at \in {"run", "save", "revoke"} /\ Finish
    /\ UNCHANGED <<JobFrame, sessions, disk, account, fresh, runs, closed>>
JobEnds ==
    /\ job.at = "finish" /\ job' = Free /\ busy' = FALSE
    /\ jobs' = [jobs EXCEPT ![job.id] = "ended"]
    /\ UNCHANGED <<seen, sessions, slot, stored, fresh, runs, closed>>
Job == RunAction \/ WrongPassword \/ RunAccount \/ RunPortal \/ SavePortal \/ Revoke \/ Panic \/ JobEnds

(***************************************************************************)
(* Time, the command line, crashes                                         *)
(***************************************************************************)
(* Half an hour after a job ended its receipt is gone: only then may the   *)
(* same identity run again.                                                *)
ReceiptExpires(d) ==
    /\ jobs[d] = "ended"
    /\ jobs' = [jobs EXCEPT ![d] = "none"] /\ runs' = [runs EXCEPT ![d] = 0]
    /\ UNCHANGED <<seen, sessions, busy, job, slot, stored, fresh, closed>>
SessionExpires ==
    /\ \E s \in sessions : sessions' = sessions \ {s}
    /\ UNCHANGED <<seen, jobs, busy, slot, OnEntry>>
(* web configure, from a shell.                                            *)
Configure ==
    /\ Draw
    /\ \E name \in Admins :
         /\ name = "user" => account = NoAccount
         /\ disk' = [version |-> fresh', name |-> name]
    /\ UNCHANGED <<memory, account, runs, closed>>
DeleteUser ==
    /\ account # NoAccount /\ account' = NoAccount /\ Close({account.invite})
    /\ UNCHANGED <<memory, disk, fresh, runs>>
Restart ==
    /\ seen' = disk /\ sessions' = {} /\ jobs' = [d \in Ids |-> "none"] /\ busy' = FALSE
    /\ job' = Free /\ slot' = [i \in Slots |-> Free]
    /\ runs' = [d \in Ids |-> 0]
    /\ UNCHANGED <<stored, fresh, closed>>

Serve(i) ==
    \/ Abandon(i) \/ EnterAnswered(i) \/ EnterLogout(i) \/ EnterOutside(i) \/ EnterInvite(i)
    \/ EnterJob(i) \/ Authenticate(i) \/ Login(i) \/ Reject(i) \/ Submit(i) \/ Invite(i) \/ Accept(i)
    \/ Release(i) \/ Device(i) \/ DeviceDone(i)
Next ==
    \/ \E i \in Slots : Arrive(i) \/ Serve(i)
    \/ Job
    \/ \E d \in Ids : ReceiptExpires(d)
    \/ SessionExpires \/ Configure \/ DeleteUser \/ Restart
Spec == Init /\ [][Next]_vars

(***************************************************************************)
(* Properties                                                              *)
(***************************************************************************)
(* However often a browser repeats a request whose answer it lost, the     *)
(* modification is made once while its receipt exists (web_jobs.go:50).    *)
OncePerReceipt == \A d \in Ids : runs[d] <= 1

(* A modification is accepted only for a session that is still open, whose *)
(* login used the settings the backend holds (web_http.go:366): neither a  *)
(* logout nor a new password is overtaken by a request already under way.  *)
AcceptedWhileLoggedIn ==
    [][\A d \in Ids : jobs[d] # "running" /\ jobs'[d] = "running" =>
         /\ job'.owner \in sessions
         /\ job'.owner.role = "admin" => job'.owner.proof = job'.settings.version /\ seen' = job'.settings]_vars

(* The modification slot has one holder: a running job or one invitation   *)
(* being created or accepted, and it is taken while it has one.            *)
OneHolder ==
    Cardinality({i \in Slots : slot[i].at \in {"invite", "accept", "release"}})
      + (IF job = Free THEN 0 ELSE 1) = (IF busy THEN 1 ELSE 0)

(* An invitation sets one password: an acceptance never saves with a token  *)
(* that set one before, or whose invitation was replaced, reset, switched   *)
(* off or deleted with its user since it was sent (web_invite.go:82).       *)
InvitationOnce ==
    [][\A i \in Slots : At(i, "accept") /\ slot'[i].at # "accept" /\ account' # account =>
         slot[i].token \notin closed]_vars

(* The password a user changes is that of the account the session logged in *)
(* to: between that login, the check of the job and the save, which hashes  *)
(* outside the lock, the account may be reset or deleted, and a login       *)
(* overtaken by a reset opens a session all the same (web_account.go:228).  *)
OwnPassword ==
    [][JobIn("save", {"self"}) /\ job'.at = "revoke" => ProofHolds(job.owner.proof)]_vars

(* The administrator never bears the name of a user with a portal account, *)
(* although the two live in different files (web_account.go:142).          *)
NamesDisjoint == disk.name = "user" => account = NoAccount

=============================================================================
