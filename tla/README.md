# Verification of sbmgr

`sbmgr` manages a sing-box proxy: users, devices and nodes, their traffic,
quotas and policies, and, with several machines, the topology of entries and
hops between them. One Go program (`cmd/sbmgr`, plus the topology model in
`internal/mesh`) is the command line, the background daemon, the web backend
and the agent that the master calls over ssh. This directory holds TLA+ models
of its stateful parts, the TLC configurations that check them on small
instances, and TLAPS proofs of what matters most. `PROJECT.json` lists for each
definition the source lines it stands for.

Run a check with `tlc -config <run>.cfg <module>.tla`, a proof with
`tlapm <module>.tla`.

## 1. Inventory

All parts share one state, the canonical state in SQLite. An operation takes
the state lock (a file lock, 30 s of patience), loads the state, changes it in
memory, saves it in one transaction and, where sing-box or nftables must
change, applies it. What makes the program hard is the gap between those steps
(a save without its apply, an apply without the save that confirms it), the
processes that interleave between two holders of the lock (daemon, operator,
web backend, ssh agent), and, with several machines, messages that are lost,
late or executed after their sender gave up.

| Part | State it keeps | Operations | Talks to | What is hard | What makes it correct |
|---|---|---|---|---|---|
| Topology rollout: `mesh_coordinator.go`, `mesh_agent.go`, `mesh_runtime.go`, `mesh_state.go` | `Mesh.Revision`, the journal `MeshRollout` at the master; `MeshAgent` (plans in force, pending and previous, transaction, phase, last outcome) at every member | apply, recover; prepare, commit, rollback, finalize at a member | ssh to slaves, direct calls to the own agent, sing-box | timeouts, late execution, crash of the coordinator, commits that stop half-way, two coordinators | all members end a transaction alike and as the saved decision says; a journal names every open transaction and can always be completed |
| Entry access and usage: `mesh_access.go`, credentials in `device_self_service.go`, `device.go`, `web_routes.go` | baselines and sequence at the master; lease, granted users and cumulative counters at a slave | usage and access exchanges, lease cycle, rotation of secrets, assignment of routes | daemon every 5 s, `admin mesh sync`, ssh | two processes synchronise, reports and grants lost and reordered, a lease that runs out, a failed apply | every measured byte is charged once; an old secret never returns; an entry serves what its lease says and nothing once it is over |
| Topology model: `internal/mesh`, `mesh_routes.go`, `mesh_admin.go` | members, routes, revision | edit, validate, compute plans | rollout | references between routes, ports, outbounds | a plan routes each path hop by hop and uses no port twice |
| Daemon and apply: `daemon.go`, `main.go`, `service.go`, `automation.go`, `policy_recovery.go`, `state_repair.go` | three pending flags, the configuration file, what sing-box and nftables hold | realtime cycle (5 s), maintenance cycle (1 min), enforce, apply with rollback to the old file | everything that changes state | a save and its apply are two steps; several flags cleared by different applies; a crash or a reboot between | every difference between what is stored and what runs is covered by something that makes a later cycle apply |
| Billing, quota, burst, access policies: `billing.go`, `quota.go`, `burst.go`, `access_policy.go`, `ip_policy.go`, `connection_tracking.go` | periods, counters, strikes, blocks with their end | evaluate at each cycle; manual reset and recovery | daemon | a penalty judged on a stale sample, a period missed while the program was off | a period is archived once; a block ends and is lifted |
| Counters and rates: `stats.go`, `usage.go`, `rate.go`, `counter_keys.go`, `sampling_command.go` | cumulative baselines, samples, marks | sample sing-box, nftables; install rate rules | kernel, sing-box | counters that restart, marks and names reused, a table that is replaced, put back or lost | a byte is charged at most once, and to the node that carried it |
| State store: `state_lock*.go`, `state_sqlite*.go`, `backup*.go`, `security_state.go` | the database, backups, revisions of the store | lock, load, migrate, save, back up, restore | everything | failure and crash between any two file operations, a save that skips what did not change, readers without the lock, an old state.json | the rows read back as the saved state; what was saved last can always be found; nothing old takes its place |
| Web console and jobs: `web_http.go`, `web_jobs.go`, `web_account.go`, `web_actions.go`, `web_runtime.go`, `web_config.go`, `web_state.go` | sessions, one job slot, receipts | log in, act, start a job, ask for it | broker process and worker over a pipe | retries of a request whose answer was lost, restart of either side, capacity | one job at a time; a repeated request never runs twice; nothing is accepted for a session that ended |
| Portal and invitations: `web_portal*.go`, `web_invite.go`, `portal_state.go` | invitations, portal credentials and sessions | create, redeem, log in, revoke | console | two redemptions, revocation during a request | an invitation is used once; what is under way ends with the account's credentials |
| Subscriptions: `subscription*.go` | rate table, broker and worker | look up a token, supervise the worker | portal, state | full tables, worker that dies during a lookup | a token reveals its own device only; limits hold |
| Analytics: `connection_stream.go`, `analytics_*.go` | connections, days and a bounded queue at a slave, the same and a cursor at the master | subscribe, ingest, read pages, merge | sing-box, slaves | repeated readings and pages, overflow, a lost database, identities that change meanwhile | a byte is counted once, nothing is inherited, no gap stays unknown |
| Machine traffic: `machine_traffic*.go` | interface counters and periods | sample, merge, roll over | slaves | reboots, clock changes | no byte of a sample counted twice |
| Groups, batches, templates: `user_groups.go`, `group_admin.go`, `batch.go`, `user_template.go`, `mihomo_template.go` | groups, overrides | inherit, override, move, import | commands, web | inheritance after several edits | a field is the group's unless overridden |
| Outbounds: `outbound_*.go`, `proxy_admin.go`, `wireguard_bridge.go`, `site_blocks.go`, `client_endpoint.go` | base configuration | add, change, remove | sing-box | dangling references | a rendered configuration resolves |
| Fleet, health, maintenance, audit, reports: `fleet.go`, `health.go`, `network_maintenance.go`, `audit.go`, `performance.go`, ... | last results | measure, report | network | results of a measurement that outlived its snapshot | an edit made meanwhile survives |
| Command line, frontend, deployment scripts | - | - | - | - | - |

The hazards, each at its line and with the properties that would catch it, are
in `PROJECT.json`.

## 2. Modules

```
MeshRollout ---- MeshRolloutProps ---- MCMeshRollout          (TLC)
                   |   \-- INSTANCE AtomicRollout
                   \-- MeshRolloutProofs                       (TLAPS)

MeshAccess ----- MeshAccessProps ----- MCMeshAccess           (TLC)
                   \-- MeshAccessProofs                        (TLAPS)

PolicyDaemon --- PolicyDaemonProps --- MCPolicyDaemon         (TLC)
                   \-- PolicyDaemonProofs                      (TLAPS)

WebConsole    -- MCWebConsole                                  (TLC)
                 \-- WebConsoleProofs                          (TLAPS)
StateStore    -- MCStateStore      the files around state.db   (TLC)
                 \-- StateStoreProofs                          (TLAPS)
StateRows     -- MCStateRows       the rows inside state.db    (TLC)
                 \-- StateRowsProofs                           (TLAPS)
UsageCounters -- MCUsageCounters                               (TLC)
                 \-- UsageCountersProofs                       (TLAPS)
AnalyticsFlow -- MCAnalyticsFlow                               (TLC)
                 \-- AnalyticsFlowProofs                       (TLAPS)
```

The first three modules and `UsageCounters` take a save for one atomic step;
`StateStore` and `StateRows` are about what that rests on, one about files, the
other about the statements of the transaction. The five younger modules hold
their properties at their end.

### MeshRollout: carrying out a topology

Actors are the members, each with its agent, and the commands `mesh apply` and
`mesh recover` (`Coord`). The coordinator's local variables are `pc`, `job`,
`todo`, `failed` and `call`; `journal` and `revision` are in the master's state;
`agent[m]` is the journal of a member and `runtime[m]` the plan its sing-box
runs.

| Code | Action |
|---|---|
| `meshCoordinate`: load, new journal, the loops over the members | `Load`, `Persist`, `PersistRefused`, `Send`, `Succeeded`, `Refused`, `TimedOut` |
| the saved decision | `Decide`, `DecideFails` |
| `meshFinishRollout` | `StartFinish`, the same loop, `Clear` |
| `recover` | `Recover` |
| `meshExecute` at a member | `AgentPrepares`, `AgentCommits`, `AgentRollsBack`, `AgentFinalizes` with the ways each can stop half-way, and `AgentRefusesCandidate` |
| an edit of the topology, `admin apply` on one member | `Edit`, `LocalApply` |
| death of the coordinator | `Crash` |

A handler runs under the state lock and is one action; where it saves, reloads
sing-box and saves again, its outcomes are the ones a failure at each point
leaves behind: `committing` saved only, reloaded without the last save, or the
running configuration broken because reload and undo failed. An exchange with a
slave can time out before, during or after its execution; the request can then
be executed later (`late`), because a remote process waits for its state lock.
A plan is its revision: `meshBuildPlan` is deterministic and every edit that
reaches a plan increments `Mesh.Revision`.

`AtomicRollout` is the promise without messages, journals and crashes: one
rollout at a time, a decision taken only while nobody went back, every member
ends as decided, a decided rollout is closed only when finalized everywhere.

### MeshAccess: leases, usage and secrets

One user with nodes `Node`, the slaves `Entry`, the processes `Sync` that run
`meshSyncAccess`. `base` are the counters `mesh:<entry>:<identity>:...`, a UUID
is a generation, `slave[e]` is the state a slave saves and `live[e]` what its
sing-box authenticates. `charged` and `carried` are history variables for the
properties: bytes charged for a node at an entry and bytes measured there.

| Code | Action |
|---|---|
| `meshSyncAccess`: the loop, the usage exchange, the merge under the lock, the grant | `Begin`, `Ask`, `NoAnswer`, `Merge`, `MergeRefused`; the grant is a message in `grants` |
| `installMeshAccess` at a slave, and a grant that is lost or refused | `Install`, `Lost` |
| `meshLeaseCycle`, the daemon's retry of a pending apply | `LeaseCycle`, `RetryApply` |
| `mergeUserStats` at a slave | `Measure` |
| `rotate-link` and the portal's reset (`rotateDeviceCredentials`), `rotate`, `webAssignRoutes`, enabling, billing reset | `RotateLink`, `Rotate`, `Unassign`, `Assign`, `SetEnabled`, `ResetTraffic` |
| a rollout as the slaves see it: `meshExecute` | `PrepareAt`, `CommitAt`, `CommitStops`, `RollBackAt`, `RollBackStops`, `FinalizeAt` |
| and as the master does: `meshCoordinate` | `StartRollout`, `GiveUp`, `Decide`, `EndRollout` |

`Merge` is the whole function under the lock: refuse on a changed topology,
merge the report, increase the sequence, build the grant from the merged usage,
save. `Install` and `LeaseCycle` save, apply and save again; `Applies` gives
the three outcomes (done, running but not confirmed, not running). A commit and
a rollback save, apply and save again as well, but mark nothing for a retry:
`CommitStops` and `RollBackStops` are the ones that end in between, and
`LeftRunning` is what sing-box runs then: what it had, if the apply and its undo
failed at once; the plan before, if it was undone; the other plan, if the undo or
only the last save failed. That sing-box itself is down after a failed undo is
left to `MeshRollout`. `phase` is the slave's transaction, `rollout` the
coordinator's decision; how exchanges get lost and late is `MeshRollout`'s
subject. `Edits` names the administrators' operations of an instance, because some of them break
properties in the code (section 5).

### PolicyDaemon: one machine enforces its policies

Whoever runs (the daemon's cycles, a command) holds the state lock from load to
return, so one `pc` says how far the operation has come; `mem` is the state it
has loaded, `disk` the stored one. `config` is sing-box's file, `live` the users
it authenticates, `rates` the speeds nftables holds. `due` stands for the
variables `billingChanged` and `connectionConfigChanged`, which no flag stores.

| Code | Action |
|---|---|
| `daemonCycleLocked`: load, the missing table, billing | `StartCycle`, `Bill` |
| sampling, connection limits, bursts, stages, and the save | `Judge`, `EvaluationNotSaved`; the evaluations are the operators `Sampled`, `Recovered`, `Crowded`, `BurstJudged`, `Queued` |
| the apply and the save that confirms it | `NothingToApply`, `Apply`, `ApplyFails`, `Confirm` |
| the rate-only refresh | `Refresh`, `RefreshFails`, `NoRefresh` |
| `enforce --apply` at the end | `Enforce`, `EnforcementNotSaved` |
| `realtimeCycleLocked` | `RealtimeCycle`, then the same applies |
| `traffic reset`, `user unblock`, `apply` | `ResetTraffic`, `Unblock`, `ApplyCommand` |
| deadlines of expiry, blocks, holds, periods | `Expire`, `BlockElapses`, `HoldElapses`, `PeriodEnds` |
| death of the process, restart of the machine | `Crash`, `Reboot` |

A `pc` exists wherever an effect leaves the process: a save, an apply, a rate
refresh. `applyState` changes nftables, then the file, then sing-box, and undoes
what it can when one fails; `ApplyFails` and `Crash` leave the combinations that
this order allows. Usage has three levels (below the throttle, throttled,
exhausted). Time is the set of deadlines that have passed, which may grow
between any two steps.

### WebConsole: requests, sessions and the one modification slot

The privileged backend serves requests that an unprivileged worker passes on.
`slot[i]` is a request in service and the step it has reached; a step is what
the code does between taking and giving up `b.mu` or the state lock, so other
requests come between two steps. `job` is the goroutine of the accepted
modification, `jobs` the receipts, `busy` the slot, `seen` the settings the
backend last read, `disk` the administrator's file, `account` the user's portal
account in the state. Secrets, epochs and session ids are numbers drawn once.
`closed` is a history variable: the invitations that were accepted, replaced,
switched off or deleted with the account.

| Code | Action |
|---|---|
| `serveWebBroker`, `beginWebRequest` and what each path does under the mutex | `Arrive`, `EnterAnswered`, `EnterLogout`, `EnterOutside`, `EnterInvite`, `EnterJob`, `Abandon` |
| login: the hash outside the mutex, the session under it | `Authenticate`, `Login`, `Reject` |
| an action that is compiled and then submitted | `Submit` |
| invitations: create, accept, release the slot | `Invite`, `Accept`, `Release` |
| a portal request under the state lock | `Device`, `DeviceDone` |
| the job: action, change of the administrator, password of a user, revocation, panic | `RunAction`, `WrongPassword`, `RunAccount`, `RunPortal`, `SavePortal`, `Revoke`, `Panic`, `JobEnds` |
| receipts and sessions that run out, `web configure` in a shell, `user delete`, a restart | `ReceiptExpires`, `SessionExpires`, `Configure`, `DeleteUser`, `Restart` |

A refusal for a reason that is not modelled (a limit of attempts, a wrong
field) is a request that is given up, which any step that can refuse may do.

### StateStore: files, generations, import

One process holds the state lock (`writer`), one loads without it (`reader`, as
web console, portal and subscriptions do), one uses the analytics database under
a lock of its own. Each file operation is an action, and any process may die
between two. A content is a number, the version of what an administrator
controls, and the generation of its identities. The live database is two files:
`db` is what state.db yields with its write-ahead log (WAL), `main` what it would
yield without, the content that was checkpointed last. A restore moves them one
after the other: `aside` are the families in the quarantine (with their WAL if
it was moved), `loose` those of which the quarantine has the WAL alone, `moved`
is the family the present restore moves. `live` observes what the last
successful command left.

| Code | Action |
|---|---|
| `loadState`, `importLegacyState` with its own lock, marker and link | `ReaderBegin`, `Load` (`Stat`, `Open`, `ImportBegin`, `ImportMark`, `ImportLink`) |
| `saveSQLiteState`: copies before the write, the transaction | `SaveBegin`, `Edit`, `WritePrevious`, `WriteDaily`, `Commit`, `SaveFails` |
| `backup create`, companion, retention | `BackupBegin`, `Copy`, `Companion`, `BusinessBackup`, `Cleanup` |
| `installSQLiteStateForRestore` | `RestoreBegin`, `RestoreGuard`, `Install`, `Settle`, `Undo` |
| `quarantineSQLiteForRestore` | `MoveWal`, `MoveMain`, `MoveFails` |
| `sqliteRestoreQuarantine.restore` | `PutMain`, `PutWal`, `StaysAside` |
| SQLite's own checkpoint of the WAL | `Checkpoint` |
| `init`, `init --force` | `InitBegin`, `ForceBegin`, `Replace`, `Create`, `Fill` |
| opening the analytics database | `HistoryOpen`, `HistoryWrite` |

### StateRows: a State becomes rows

`Write` is `writeSQLiteStateIncremental` statement by statement: upsert groups,
the user and its membership, rename and upsert nodes, delete what is gone, prune
groups, rewrite the histories whose hash changed. `Read` is the way back;
`Snapshot` are the hashes taken at a read, `Included` the decision to skip. The
edits between are the commands that touch names, devices, uuids and groups
(`AddNode`, `AddDevice`, `Assign`, `RenameNode`, `RotateDevice`, `AddGroup`, ...),
and the daemon's samples and alerts. The alerts, which two may be equal, stand
for all lists a save always compares. `Compact` renumbers row ids after a save:
it is the model's, so that states that differ in ids alone are one.

### UsageCounters: what a byte is charged to

`table` (nftables, by mark) or `sing` (the stats API, by auth_user) count,
`counters` are the readings the state remembers, `mark` the nodes it has, `file`
and `running` the configuration written and in force. Apply is its steps
(`BeginApply`, `ReadCounters`, `InstallRules`, `WriteConfiguration`, `Reload`,
their failures, `Restore` of the table); `Sync`, `ResetTraffic`, `CreateNode`
and `DeleteNode` are commands; `Carry` is traffic, which comes between any two
steps. `sent`, `billed` and `since` observe what was carried and charged.
A node that gets the mark or name of a deleted one while that key still counts
somewhere is `inherited`: a delete is saved without an apply, as `user delete`
and `node delete` say (main.go:1389, 1576), and until then the bytes of the old
identity are charged to the new one.

### AnalyticsFlow: from sing-box to the master's history

Connections (`sing`) are read in batches (`Receive`, then `Ingest` under the
identities of that moment), their changes queued at the slave; the master's
`Cycle` is `Exchange`, `AskAgain`, `Merge`, `MergeRefused`. `row` and `credit`
are a connection's row and its part of the day, at each host; `known` the
identities as a database last mirrored them. `Grant` brings a slave what the
master has (`Rotate`, `Recreate`, `MoveAway`), `Restart`, `IngestFails`,
`LoseDatabase` and `GiveUp` are what goes wrong. A batch that does not begin a
subscription holds all readings that changed.

## 3. Runs

| Run | Question | Result | States |
|---|---|---|---|
| `rollout_safety` | With one command at a time, two transactions, two faults and late requests: do members agree, is the decision kept, do plans, journals and running configurations match, does every step refine `AtomicRollout`? | holds | 87 k |
| `rollout_recovery` | If no abandoned `prepare` runs late: is every open transaction in the journal, and does recover always end? | holds | 67 k |
| `access_accounts` | Two processes synchronise while links are rotated and the user is disabled and enabled: is each byte charged, once? Does a cut-off entry stop? | holds | 677 k |
| `access_leases` | A rollout moves the route to the other entry or is rolled back, secrets are rotated, routes taken and given back, the quota used up and reset, leases end; applies, commits and rollbacks stop anywhere: does an entry serve its grant, do replaced secrets stay out? | holds | 1.9 M |
| `access_rotate` | Is nothing charged twice when `admin device rotate` is used? | violated | |
| `daemon_cycles` | Two users with all policies between them, both ways of measuring, a fault anywhere: is every difference between the stored state and what sing-box and nftables hold covered by something that a later cycle looks at? | holds | 865 k |
| `daemon_retries` | Two faults anywhere: is every pending flag cleared in the end, and does every temporary block and hold end? | holds | 121 k |
| `web_console` | Two requests of any kind at once, one job, credentials that change, restarts: does a repeated request run once, is the slot held by one, is everything accepted for a session that is open and settings that are current, does an invitation work only while it is open, is a user's password saved only over the account the session logged in to, do account and administrator keep different names? | holds | 4.0 M |
| `state_rows` | Five edits, a save after each, clones, backups and restores: can every state be saved, and do its rows read back as that state? | holds | 565 k |
| `state_store` | Two saves, two new files, two manual backups, two days, a death or a failure anywhere: is what was saved last to be found, is what a save replaces kept, do companion and backup belong together, does an undone restore cost history, is an old state.json never taken for new? | holds | 5.6 M |
| `analytics_flow` | Two connections of two nodes and one thing that goes wrong: are bytes counted once, is nothing inherited, no gap unknown, does the master catch up? | holds | 135 k |
| `usage_counters` | Two nodes that take each other's mark and name, both sources: is a byte charged at most once, to the node that carried it, and is a counter never behind what was read? | holds | 2.9 M |

Bounds. Three members (master and two slaves) are the smallest topology in which
commit order, a partial prepare and a rollback that reaches some members differ;
two transactions let a late request of the first meet the second; two faults
let a failure meet the failure of its repair. Revisions 1 and 2 give each
transaction a plan of its own. In `MeshAccess`, two secrets, two or three grants
and up to two bytes let a report, a rotation and a grant overtake each other; two plan
revisions are one move, done or rolled back; a lease of one tick can run out at any point,
before or after its grant arrived. The edits are divided between the two
instances, because together they exceed what TLC explores in minutes: charging
and disabling meet two synchronising processes, everything else meets a move
that may stop half-way. In `PolicyDaemon`
the policies of one user meet those of another only in the three flags, so two
users, one with policies whose decisions set flags and one with those that do
not, show every combination; `daemon_retries` gives one user four policies at
once and two faults, so that a retry fails too. In `WebConsole` two requests in service and
a job are three actors: every property speaks of two of them and a change of
credentials; one request identity is enough for a repetition, three secrets for
an old, a new and a newer one. `StateRows` has two names with one slug, two
devices, four uuids and one edit between a read and a save: a clash needs a row that is
there and one that comes. `StateStore` has two of everything, an old and a new
one; two contents are one that was checkpointed and one in the WAL. Three bytes and four edits in `UsageCounters` are a node that is charged,
deleted and made again beside one that takes its mark; two troubles let a
failed apply meet a restart. In `AnalyticsFlow` a page of one event lets each
event be repeated or overtaken, a queue of three overflows. Requests, nodes and
uuids that only differ in name are declared symmetric where no liveness is
checked. All bounds are constants, named in the
modules; the theorems hold for every value of them. `CHECK_DEADLOCK FALSE` is in
the configurations of `MeshRollout`, `MeshAccess`, `StateStore`, `AnalyticsFlow`
because their bounds and the operators' commands end: with all transactions,
edits and bytes used up nothing is left to do. The daemon, the console, the
commands that read and save and the counters never stop, and their runs check
for deadlock.

Fairness. `RecoveryCompletes`: a coordinator's process runs on unless it
crashes, a live exchange is answered or fails, and an operator runs recover
while a journal is open (docs/MESH.md asks for it). Faults need no fairness and
are bounded. `LeaseEndsService`: time passes, a slave's daemon runs its cycles
(systemd restarts it), and an apply does not fail for ever. Nothing is assumed
of the master, the network or the operators. `PendingClears` and `PenaltyEnds`:
an operation that has begun goes on (`WF_vars(CycleStep)`), and the daemon's
ticker is selected again and again however many realtime cycles and commands
take the lock in between (`SF_vars(StartCycle)`: daemon.go:70-100 is one
goroutine, its `select` picks one of the ready tickers at random, and a cycle
that cannot get the lock for 30 s is tried again a minute later). `CatchesUp`:
the master's daemon runs its exchanges (a timer in the same loop) and grants the
slave what it has; nothing is assumed of sing-box, the stream, or the slave's
readings, and failures are bounded.

## 4. Proofs

| Theorem | States | Assumes |
|---|---|---|
| `MeshRolloutProofs` | | |
| `TypeCorrect` | type invariant of `MeshRollout` | - |
| `SavedStatesLoad` | every saved journal passes `validateMeshState` | - |
| `FinalizedPlansKept` | a finalized plan is never given up | - |
| `MembersAgree` | no two members end a transaction differently | `OneCoordinator` |
| `DecisionKept` | nobody rolls back what was decided | `OneCoordinator` |
| `RuntimeIsDeclared` | a member outside a transaction runs the plan its state declares | `OneCoordinator` |
| `MasterGoesLast` | the master switches only after every slave has committed | `OneCoordinator` |
| `OpenTransactionsAreCovered` | who holds a transaction holds the one of the journal | `OneCoordinator`, no prepare in `Late` |
| `RolloutIsAtomic` | `MeshRollout` implements `AtomicRollout` | `OneCoordinator` |
| `MeshAccessProofs` | | |
| `ChargedOnce` | no byte is charged twice | `BaselinesFollow` |
| `NoByteLost` | what is charged is the baseline, what is held was measured | `NodesStay` |
| `ReplacedSecretsStayOut` | no step puts an older secret into sing-box | - |
| `ServesWhatItWasGranted` | a settled slave without a half-done commit or rollback whose lease lets nodes in runs exactly those, with the secrets of its grant | - |
| `PolicyDaemonProofs` | | |
| `TypeCorrect` | type invariant of `PolicyDaemon` | - |
| `EligibilityIsRetried` | whom sing-box serves differs from the stored state only while a later cycle will apply | `Resettable \subseteq {TRUE}` |
| `RatesAreRetried` | the same for speeds | `Resettable \subseteq {TRUE}` |
| `WebConsoleProofs` | | |
| `RepeatedRequestsRunOnce` | a repeated request is carried out once while its receipt exists | - |
| `SlotHasOneHolder` | the modification slot is held by one, and taken exactly while it is | - |
| `InvitationsAreUsedOnce` | no acceptance saves a password with an invitation that was accepted, replaced, switched off or deleted before | - |
| `LoginNamesDiffer` | administrator and portal account never share a login name | - |
| `AcceptedForOpenSessions` | a modification is accepted only for an open session and present settings | - |
| `PasswordsAreOwn` | a password a user changes is saved only over the account that the session logged in to | - |
| `UsageCountersProofs` | | |
| `BytesAreChargedOnce` | no byte that crossed a counter is charged twice | - |
| `NodesPayTheirOwn` | a node pays only for what it carried | - |
| `RulesAreNeverBehind` | a rule never counts from below what was read of it | - |
| `StateStoreProofs` | | |
| `StateIsNeverLost` | what the last command left can be found, in two pieces at worst | - |
| `CompanionsMatch` | an analytics snapshot belongs to the backup beside it | - |
| `HistoryIsKept` | no order of restores and openings loses the history of the database that stays | - |
| `SettingsAreCopiedFirst` | what a change of settings replaces was copied before | - |
| `ImportsAreNeverStale` | nothing old is imported once there was a database | - |
| `StateRowsProofs` | | |
| `RowsAreTheState` | the rows read back as the State whose hash they carry | - |
| `RefusedForNodesOnly` | a save is refused only for a name, auth_user or uuid of another node's row, a restore never | - |
| `OneEditIsSaved` | no save is refused | `Batch = 1` |
| `AnalyticsFlowProofs` | | |
| `NothingInherited` | a database shows nothing of a node that was recorded of another identity | - |
| `NothingCountedTwice` | a host's days hold no byte of an unrotated node's connection twice | - |
| `NothingLostInSilence` | while the master records no gap, what its cursor has passed is in its history | - |

They hold for any members, transactions, processes, nodes, entries, users,
policies, requests, secrets, files, contents, rows, connections and bounds; `-` is no assumption
beyond the `ASSUME`s of the modules, which TLC evaluates in the runs. These say
what the code guarantees (the master is a member, an identifier is not the empty
one, a user's nodes are finite, what is no file is no content).
Each inductive invariant was first checked by TLC on the configuration of the
run that checks the property.

*Rollout.* `MembersSaved` and `JournalIsCurrent` (a journal names the current
revision, because an edit is refused while it is open) give `SavedStatesLoad`.
Agreement is not inductive: it is strengthened to `DecisionInv`, which says that
everything on its way (exchanges, late requests, coordinators' memories, the
journal) follows the decision of its transaction, that outcomes follow it too,
and that of a transaction without a decision no member is finalized. The step
that needs it is `Decide`: it must find that no rollback of this transaction
was ever sent, and this is where one coordinator at a time is used; with two,
it fails (section 5 (2)). For the refinement,
`FinalizeInv` adds what the coordinator remembers: a member that is no longer in
`todo` of a finish without failures has finalized, so `Clear` maps to `Close`.

Three more properties rest on `DecisionInv`. *What runs*: a rollback that stops
half-way leaves a committed member with any plan in sing-box, so "a committed
member runs its plan" is not invariant. `RuntimeInv` allows the difference where
`NeverDecided` holds: the transaction was not decided and no process can decide
it any more, which stays true for ever; a finalize, the only step that would end
the transaction without a reload, then cannot come. *The switch*: `SwitchInv`
says that the members the commit loop has left are committed, and remain so
while its process can still decide; that nothing late is addressed to the
master; and that a commit is addressed to the master only when it is the last.
*The journal*: `CoverInv` says that a process works on the transaction of the
journal, and that a member which answered the decision holds no transaction.
Its proof fails at one step alone, a prepare that runs after it was given up;
hence the assumption, and section 5 (3) is the counterexample without it.

*Access.* `LedgerInv` says that the baseline of a node's current identity is
what was charged at that entry, identities to come have no baseline, and that a
slave's counters and every report on its way count at most what was measured.
`Merge` then charges the difference to a baseline that cannot exceed the
measurement, whatever the age of the report. `BaselinesFollow` excludes the
operations under which it fails in the code: `rotate`, `reassign`, and
`rotate-link` together with moves. `OrderInv` orders grants by sequence: a later
grant has no older secret, and a grant a slave still accepts has none older
than the slave's. It needs no assumption.
`ServesItsGrant` speaks of a settled slave, but the records of a lease differ
from the lease in the middle of a cycle: `Serving` drops them and asks the same
of every slave without a pending apply. A half-done commit or rollback is the one
difference without a flag, so `Serves` excepts it, and every step that ends it
has to show that it applies: a rollback applies although the saved `Active` may
already be the plan it goes back to, because it looks at `Phase`; a repeated
commit applies unless it was committed; a finalize finds `committed`, which only
an apply that ended leaves. `ServingAt` and `ServingApplies` are these steps
seen from one entry. The rest of `ServingInv` is shape, because
the argument compares numbers: time and traffic can only end what a slave lets
in (`ViewEnds`), and that needs the traffic of a report to be one. `SumIsNat`,
the sum over a user's nodes is a number, is an induction over finite sets, done
without an induction theorem: the sets that are exceptions would have a smallest
cardinality (`WFMin`).

*Daemon.* The two invariants speak of the stored state, but what makes them
hold is more: `IInv` adds that the operation in progress holds the stored users
and flags that cover the kernel's view too (so that saving them hides nothing);
that the configuration file is covered like the running sing-box (a reboot makes
one of the other); and that where the stats API measures, no enabled user is
over quota (`Clean`, else a traffic reset could serve a user again without a
flag). Every evaluation is shown to "follow" the state it starts from: it keeps
the flags, and either sets one or leaves eligibility, blocks and exhaustion of
every user alike. Follows is transitive, so `Judge` is a chain of five lemmas.
What then still changes the configuration (an exhausted quota, an expired date,
an elapsed block) is what the next cycle finds by looking: `Noticed`. The
assumption and the set `Flagged` are where the code fails: section 5 (5) and
the hazard at main.go:1618.

*Console.* One invariant for six theorems. `SlotHeld` and `Receipts` tie the
slot to its holder and the receipt to the job: a receipt runs exactly while its
job is in the slot, so a repetition that comes at any moment finds either the
receipt or a free slot. `Drawn` (secrets and session numbers are drawn once, so
that a session is never mistaken for an older one) is what the invitations rest
on: `OpenInvitation` says that one that is open was never closed, because its
token was new then. `OwnAccount` says that a change of a user's password that
waits for its save was computed from the account of the login, which is told by
the epoch; the save compares the whole account and so finds it unchanged. `Proven` is what an accepted modification rests on: between the
check of a request and its acceptance the settings or the session may change,
but whenever the settings change, the sessions that proved others are gone.
`Apart` carries the difference of names over the moment in which a job holds a
user it read and has not saved.

*Counters.* `ChargedOnce` compares what was charged with what was sent; to be
inductive it has to count what would be charged if the next reading came from
any table that is counting or may be again: the kernel's, the copy that a failed
apply puts back, and the rules that are rendered from it (`Tables`, `Due`).
`Owns` is the same for each node, and needs `SoleMarks`: in every configuration
that runs or may come back, nobody else carries bytes under the mark of a node
that was made with a free one. That a free mark exists and is taken is again an
argument by a least number.

*Store.* `Recoverable`, `CompanionMatches` and `HistoryKept` are conjuncts of
the invariant and hold together only. `OneFile` says that a main file belongs
with what it yields with its WAL, and that only the last content can be in a WAL
alone, so a WAL that is taken away costs no older one. `Moving` follows the two
halves through the renames of a restore and of its undo: while they are in two
places the main file is what it was, so the pieces fit. `Held` says that before
anything else is put in the place of the old family (`Install`, `Undo`, the
removal of a file that init could not fill), what was left last does not depend
on that place any more. `Untouched` says that as long as an old state.json may be
taken without a marker there is no State anywhere else, `Guarded` what a restore
has secured before it moves anything, `WriterKnows` that nothing replaced the
file a command has read, `AwaitsCompanion` which backup an analytics snapshot
will be put beside. `SettingsAreCopiedFirst` is about saves, the steps that leave
a new content of the same database; moving files about is not a change of settings.

*Rows.* `Holds` says what rows a State has: those of its lists under their keys
and ordinals, and for the nodes one row each, whatever the ids. It reads back as
the State (`HeldIsRead`). What a save makes of it is shown statement by
statement (`SaveStores`): the folds over nodes, samples and copies are followed
by what holds after the first k (`Written`, `Kept`), by a least k that is an
exception. A history may be skipped if its hash is the one taken at the read:
then the nodes had rows before, under the same names and in the same order, and
nothing the statements did moved their ids (`Kept`). The other half is `Clear`:
no row is in the way of a node still to be written, which each statement leaves
true for the nodes after it. Every edit makes a State that `Meets` nothing in
the one before it, by a free suffix for the auth_user (n nodes leave one of n + 1 free), a
uuid that is new, a name that is. After two edits a State may meet something in
the rows, and that is where section 5 (6) comes from; `RefusedForNodesOnly`
says that nothing else can refuse a save.

*Analytics.* What is recorded of a connection, in a row, a batch, the queue or a
page, is never more than sing-box counts of it, and is closed only at its last
byte (`Real`). One `Upsert` therefore never lets a row go back and adds to the
day what it adds to the row; `MergedFollows` carries that over the events of a
page. The merge is a fold, defined by a function on the subsets of the page:
that the function exists, and that what holds of one event holds of all, are
again arguments by a least exception (`MergedStep`). `RowInv` (a row is of the
identity its database knows) is `NeverInherited`. A day is bounded by the row
(`CountedInv`) as long as no row went without its day, which is what rotation
does: `IdInv` says that identities and devices only grow, at the master and
then at the slave, so a node whose identity equals its device's generation
never was rotated under it. `NoSilentLoss` speaks of one moment, when the cursor
is at the head; the invariant speaks of every moment: what the slave shows is in
the master's history, or an event behind the cursor carries it, or there is a
hole behind the cursor (`CoveredInv`), and a page on its way keeps that true of
the cursor it will leave behind (`PageInv`): it leaves out no event before its
end, and before a hole it tells of a gap (`PageOf`). Pruning turns a waiting event into a hole,
because it takes the oldest first (`PrunedIsHole`).

Only model-checked: liveness (`RecoveryCompletes`, `LeaseEndsService`,
`PendingClears`, `PenaltyEnds`, `CatchesUp`), which the prover does not reach.
Every invariant and action property the passing runs check is a theorem.

`NoDoubleCharge` is checked for nodes that stay at their entry
and proved for every sequence of plans (`ChargedOnce`); `ServesItsGrant` is
checked for a user who stays enabled and proved for any.

## 5. Where code and documentation disagree

The first is a run of its own. The others were met in the same models; each says which instance shows it (a run's configuration with the named change, checking
the named property alone), because the run that checks the property stays clear
of it.

1. **`admin device rotate` charges history again** (`access_rotate`): it changes
   the UUID without moving the baseline, unlike `rotate-link`.
   The same happens, with `"reassign"` among the `Edits` of that instance, when
   a route is taken away and given back under its name between two
   synchronisations, and with `{"mesh apply", "rotate-link"}` (and larger
   bounds) when a link is rotated while its route is at another entry.
2. **recover during apply** (`DecisionHonoured` in `rollout_safety` with two
   coordinators, no faults). recover reads the journal without excluding a live
   apply (mesh_coordinator.go:85) and can send `rollback` after `finalize` was
   saved. Members end differently, although docs/MESH.md:95 says that a saved
   decision is only confirmed.
3. **A prepare executed after its rollback** (`JournalCoversOpenTransactions` in
   `rollout_safety`). A rollback of an unknown transaction succeeds and leaves no
   trace (mesh_agent.go:194), so a `prepare` that was waiting for the slave's lock
   runs afterwards. The slave keeps a prepared transaction no journal names;
   later rollouts and recoveries are refused by it. The comment at
   mesh_coordinator.go:135 says that a lost response is rolled back by
   transaction. With one command at a time this is the only such case
   (`rollout_recovery`, and `OpenTransactionsAreCovered` for any instance).
4. **A revocation that is not applied** (`RevokedIsOff` in `access_leases` with
   `Entry = {relay}`, `Route <- Fixed`, `MaxPlan = 1` and only `"disable"`). A new
   grant is compared with what the saved state would render now
   (mesh_access.go:361). If the lease ran out and the next check has not noticed
   yet, that is already empty, so a grant that disables the user changes nothing,
   is recorded as valid, and sing-box goes on authenticating the user until
   something else causes an apply. docs/MESH.md:16 says that disabling is
   synchronised. With the comparison made against what runs, `RevokedIsOff` holds.
5. **A new period that is never served** (`EveryPenaltyLands` in `daemon_cycles`
   under `FairSpec` with one user, `Billed` and `Metered`).
   `evaluateBillingCycles` enables a user again and the cycle saves that without
   a pending flag (daemon.go:296). If the apply that follows fails, or the process
   dies, nothing retries, although docs/POLICIES.md:17 says that a failure keeps
   the pending state. A connection limit that disables a user has the same gap
   (daemon.go:360), which is why `Flagged` leaves out users with either policy.
   With `StatsApplyPending` set in both places, `EveryPenaltyLands` holds.
6. **Two renames in one save** (`RenamesAreSaved` in `state_rows` with
   `Batch = 2`). Rows are renamed one by one; when the first node takes the name
   the second gives up, `UNIQUE(device_id, name_key)` refuses the save. A command
   renames one node, but a slave saves all the master changed since the last
   exchange, and is refused at every later one too. The comment at
   state_sqlite.go:1393 says that a display rename keeps the row and its
   statistics. With `Batch = 2` a device that is deleted and made again, whose
   node gets the old auth_user, is refused likewise: `SavesSucceed` is for one
   edit a save.
7. **A batch received before a rotation is counted twice** (`CountedOnce` in
   `analytics_flow`). `ingestAnalytics` looks the owner up by auth_user, which a
   rotation keeps, under the identities of the moment it gets the lock
   (analytics_store.go:171). The row of the connection went with the old
   identity, so its whole cumulative count is added to the day again.
   connection_stream.go:19 calls a sample a cumulative reading.
8. **`init --force` beside an importer.** The comment at state_sqlite.go:2515-2517
   says that of two that create the database "the other fails safely". An
   importer that has linked it first is overwritten by `init --force` (the copy of
   it is kept in state.previous.db): part of `state_store`, no property of which
   it violates.
9. **A restore's family is not moved as one unit** (`MovedAsOneUnit` in
   `state_store`). The comment at
   state_sqlite.go:2624-2626 says that it is, and that any failure restores the
   original bytes. The sidecars and the main file are renamed one after the other
   (backup.go:193). If the process dies in between, or a rename fails and its undo
   too (backup.go:198 and 203 ignore that error), state.db opens without an error
   and yields the content checkpointed before, while the WAL with what came later
   lies in the quarantine and nothing brings it back. It can be put back by hand
   (`Recoverable`), until the next save builds on the older content; the safety
   backup made before the restore, if the state could be read, has it as well.
10. **A half-done commit or rollback goes on serving** (`ServesItsGrant` in
   `access_leases` without its conjunct `~HalfDone`). When the apply has succeeded
   and the save of `committed` fails (mesh_runtime.go:18-28), the slave's state
   names the old plan while sing-box runs the new one, and no pending flag makes
   the daemon apply. Until somebody runs recover, lease cycles and grants are
   judged by the saved plan. A rollback whose save or undo fails is the same
   (mesh_agent.go:197-206).

## 6. What is left out

Of the modelled parts: contents of plans (a revision stands for them), several
users (counters of different users do not interact), separate upload and
download, skew between clocks, the overflow check of counters, entries served by
the master itself, connection blocks a slave learns on its own, the guard
of `rotate-link` on a pending configuration (leaving it out allows more
behaviours), and that a quota over several entries is not a hard limit, as
docs/MESH.md says. A save is atomic and durable; the loss of the last transactions on a
power failure that WAL with `synchronous=NORMAL` permits is not modelled. Of the daemon: thresholds and windows
(a measurement may give any level, a window any verdict), limits on devices,
alerts, the sync and `traffic set` commands, edits of users, the migration of
marks, `--no-reload`, a rollback of `applyState` that fails itself at the service,
and the lists of connections: a limit may be found exceeded at any time. A
traffic reset while nftables measures is not among the steps checked: it loses a
flag if it falls between an apply and enforce (PROJECT.json, main.go:1618). Restoring a
backup, which sets back the sequence of grants, belongs to no module: `StateStore`
does not know what a content means. Of a slave between a commit or rollback that
stopped half-way and its recovery, `ServesItsGrant` claims nothing.

Of the console: the tables of failed logins and other limits, requests that only
read (they do what a refused one does), how broker and worker are started, what
an action or a portal operation changes beyond the account, the day on which an
invitation runs out, and restores (a restored older backup opens an invitation
again that was used since). Of the store: schema
migrations, an error that strikes the opening of a file just created, tables
that are written whole. The WAL stands for the sidecars: in WAL mode -shm is
rebuilt and -journal is empty. A checkpoint is one step, and so is the removal
of the quarantined files after a restore, which has succeeded before the first.
An undo stops at its first failing rename (the code tries the others,
backup.go:229-234). What a reader that keeps its connection over a restore does to the
files it still has open, or to sidecars by their path, is not modelled, and
connections are not counted: a checkpoint may or may not come at any time. A file removed by name may be one that a reader has
linked in meanwhile, while a restore has the database aside; then the late
importer's state.json is overwritten by the restored file. Of the rows: several
users (a group's members and the unique columns cross users, which another
device of one user shows as well), renamed devices. Of the counters: bytes
between the reading of the live counters and the replacement of the table, those
not read before a reboot, and those a restored snapshot forgets are lost, never
charged twice; `init --force` that empties the remembered counters under a live
table is not modelled, nor are rates, disabled users, the access journal and the
slave's local view. Of analytics: time and with it the retention of 30 days, the
counts of gaps (a flag), the restore of a slave's analytics database from a
snapshot; a slave knows a device by its name, so one that was made again keeps
its days there.

Subscriptions, machine traffic, inheritance in groups, topology validation and
outbounds are not modelled yet (section 7). Frontend and deployment scripts are
out of scope: the server decides every guard. Reports, audit and formatting
change no state.

## 7. Plan

1. MeshRollout, AtomicRollout, MeshAccess, PolicyDaemon and their proofs: done.
   Left: an abstract specification of "desired and running state" that the
   daemon's cycles implement, device-level limits.
2. WebConsole, StateStore, UsageCounters, AnalyticsFlow and their proofs: done.
   StateRows and its proofs: done.
3. The subscription supervisor and limiter; the maintenance that measures outside
   the lock and merges into a changed state.
4. Groups and overrides, topology validation, machine traffic as pure
   algorithms checked against reference definitions.
5. The restore of a master's backup composed with the grants of `MeshAccess`.
