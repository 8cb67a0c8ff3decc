----------------------------- MODULE PolicyDaemon -----------------------------
(***************************************************************************)
(* The daemon's cycles on one machine (cmd/sbmgr/daemon.go): measure,      *)
(* judge quotas, expiry, billing periods, temporary blocks and connection  *)
(* limits, save, apply to sing-box and nftables, and clear the pending     *)
(* flags; with the commands of an operator that touch the same flags.      *)
(*                                                                         *)
(* Whoever runs holds the state lock from load to return, so one program   *)
(* counter is enough: "idle" when the lock is free, else the next step     *)
(* with an effect outside the process.  Between two steps the process may  *)
(* die; every save and every apply may fail.                               *)
(*                                                                         *)
(* Usage has three levels: below the throttle, throttled, exhausted.  Time *)
(* is the set of deadlines that have passed.  Every user has one device    *)
(* and one node.                                                           *)
(***************************************************************************)
EXTENDS Naturals

CONSTANTS
  User,
  Metered,     \* users with a quota; the usage of the others is left out
  Throttled,   \* those with a throttle policy as well
  Protected,   \* users with burst protection
  Limited,     \* users with a connection limit and the action disable-user
  Billed,      \* users with a billing period
  Mortal,      \* users with an expiry date
  Sampling,    \* the ways of measuring that are tried: TRUE for the stats API
  Resettable,  \* those under which an operator resets the traffic of a user
  MaxPeriod,   \* bound: ends of billing periods
  MaxFaults    \* bound: failed or interrupted steps

ASSUME PolicyAssumption ==
  /\ {Metered, Protected, Limited, Billed, Mortal} \subseteq SUBSET User
  /\ Throttled \subseteq Metered
ASSUME SamplingAssumption == {Sampling, Resettable} \subseteq SUBSET BOOLEAN
ASSUME BoundAssumption == {MaxPeriod, MaxFaults} \subseteq Nat

VARIABLES
  disk,     \* the stored state
  mem,      \* the state held by the running operation; disk when idle
  pc,       \* the next step of the operation that holds the lock
  due,      \* billingChanged || connectionConfigChanged, known to no flag
  config,   \* users in the configuration file of sing-box
  live,     \* users sing-box authenticates
  rates,    \* the speed nftables holds each user to
  api,      \* StatsAPI # ""
  hard,     \* users whose Burst.Action is a hard block, not a soft one
  expired,  \* users whose expiry date has passed
  elapsed,  \* users whose BlockedUntil has passed
  calm,     \* users whose ConnectionBlockedUntil has passed
  period,   \* ends of billing periods so far
  faults    \* failed or interrupted steps so far

stores == <<disk, mem, due>>
kernel == <<config, live, rates>>
clock == <<expired, elapsed, calm, period>>
settings == <<api, hard>>
vars == <<stores, pc, kernel, settings, clock, faults>>

-------------------------------------------------------------------------------
Account ==
  [enabled : BOOLEAN,
   reason : {"", "quota", "expired", "connections"},
   used : 0 .. 2,        \* measuredUsage: unhindered, throttled, exhausted
   blocked : BOOLEAN,    \* BlockedUntil # ""
   held : BOOLEAN,       \* Access.ConnectionBlockedUntil # ""
   billed : 0 .. MaxPeriod]  \* periods that ended before NextReset

State ==
  [users : [User -> Account],
   stats : BOOLEAN,      \* StatsApplyPending
   burst : BOOLEAN,      \* BurstApplyPending
   rate : BOOLEAN]       \* RateApplyPending

SoftRate == 3
NoTable == [u \in User |-> 4]   \* nftables has no table of this program

OverQuota(a) == a.used = 2
Stage(a, u) == IF u \in Throttled THEN a.used ELSE 0
BlockedNow(s, u) == s.users[u].blocked /\ u \notin elapsed

\* The users renderConfig puts into the configuration
Served(s) ==
  {u \in User : /\ s.users[u].enabled /\ u \notin expired
                /\ ~OverQuota(s.users[u])
                /\ ~(u \in hard /\ BlockedNow(s, u))}

\* The speeds renderNftables writes, for disabled users too
Speed(s) ==
  [u \in User |-> IF u \notin hard /\ BlockedNow(s, u) THEN SoftRate
                  ELSE Stage(s.users[u], u)]

Init ==
  /\ api \in Sampling /\ hard \in SUBSET Protected
  /\ disk = [users |-> [u \in User |->
                [enabled |-> TRUE, reason |-> "", used |-> 0,
                 blocked |-> FALSE, held |-> FALSE, billed |-> 0]],
             stats |-> FALSE, burst |-> FALSE, rate |-> FALSE]
  /\ mem = disk /\ pc = "idle" /\ due = FALSE
  /\ config = User /\ live = User /\ rates = [u \in User |-> 0]
  /\ expired = {} /\ elapsed = {} /\ calm = {} /\ period = [u \in User |-> 0]
  /\ faults = 0

-------------------------------------------------------------------------------
(* What the policies make of a state                                       *)

Lapsed(s) == {u \in User : s.users[u].enabled
                           /\ (u \in expired \/ OverQuota(s.users[u]))}

\* The loop that mergeUserStats and enforce share
Disabled(s) ==
  [s EXCEPT !.stats = @ \/ Lapsed(s) # {},
            !.users = [u \in User |->
     IF u \notin Lapsed(s) THEN s.users[u]
     ELSE [s.users[u] EXCEPT !.enabled = FALSE,
             !.reason = IF u \in expired THEN "expired" ELSE "quota"]]]

\* As if the sum did not saturate
GrownUnbounded(s, gain) ==
  [s EXCEPT !.users = [u \in User |->
     IF u \notin Metered THEN s.users[u]
     ELSE [s.users[u] EXCEPT !.used = @ + gain[u]]]]

Grown(s, gain) ==
  [s EXCEPT !.users = [u \in User |->
     IF u \notin Metered THEN s.users[u]
     ELSE [s.users[u] EXCEPT !.used = IF @ + gain[u] > 2 THEN 2 ELSE @ + gain[u]]]]

\* A sample; through the stats API it also judges quota and expiry
Sampled(s, gain) == IF api THEN Disabled(Grown(s, gain)) ELSE Grown(s, gain)

Due == {u \in Billed : disk.users[u].billed < period[u]}

\* The user after resetUserTraffic, enabled again if the quota had stopped it
Refreshed(a, u) ==
  LET back == a.reason = "quota" /\ u \notin expired IN
  [a EXCEPT !.used = 0, !.blocked = FALSE,
            !.enabled = @ \/ back,
            !.reason = IF back THEN "" ELSE @,
            !.billed = IF u \in Billed THEN period[u] ELSE @]

\* evaluateBillingCycles: no pending flag goes with it
Rebilled(s) ==
  [s EXCEPT !.users = [u \in User |->
     IF u \in Due THEN Refreshed(s.users[u], u) ELSE s.users[u]]]

Recovering(s) == {u \in User : s.users[u].held /\ u \in calm}

\* The user when the hold is over, enabled again if the hold had stopped it
Unheld(a) ==
  LET back == ~a.enabled /\ a.reason = "connections" IN
  [a EXCEPT !.held = FALSE, !.enabled = @ \/ back,
            !.reason = IF back THEN "" ELSE @]

Recovered(s) ==
  [s EXCEPT !.stats = @ \/ Recovering(s) # {},
            !.users = [u \in User |->
     IF u \in Recovering(s) THEN Unheld(s.users[u]) ELSE s.users[u]]]

\* evaluateConnectionPolicy with the action disable-user
Crowded(s, crowd) ==
  [s EXCEPT !.users = [u \in User |->
     IF u \in crowd /\ s.users[u].enabled
     THEN [s.users[u] EXCEPT !.enabled = FALSE, !.reason = "connections", !.held = TRUE]
     ELSE s.users[u]]]

Released(s) == {u \in User : s.users[u].blocked /\ u \in elapsed}
Offending(s, heavy) ==
  {u \in heavy : /\ s.users[u].enabled /\ u \notin expired
                 /\ ~OverQuota(s.users[u]) /\ ~s.users[u].blocked}

\* As if a block were lifted only after the checks that skip a disabled user
BurstJudgedEnabledOnly(s, heavy) ==
  LET lifted == {u \in Released(s) : s.users[u].enabled} IN
  [s EXCEPT !.burst = @ \/ lifted \cup Offending(s, heavy) # {},
            !.users = [u \in User |->
     [s.users[u] EXCEPT !.blocked = (@ /\ u \notin lifted) \/ u \in Offending(s, heavy)]]]

\* evaluateBurstPolicies, and the flag that the cycle sets for it
BurstJudged(s, heavy) ==
  [s EXCEPT !.burst = @ \/ Released(s) \cup Offending(s, heavy) # {},
            !.users = [u \in User |->
     [s.users[u] EXCEPT !.blocked =
        (@ /\ u \notin Released(s)) \/ u \in Offending(s, heavy)]]]

Restaged(before, s) ==
  \E u \in User : Stage(before.users[u], u) # Stage(s.users[u], u)
Queued(before, s) == [s EXCEPT !.rate = @ \/ Restaged(before, s)]

BurstConfigurationPending(s) ==
  \E u \in Protected : (u \in config) # (u \in Served(s))

-------------------------------------------------------------------------------
(* One cycle of the daemon                                                 *)

Fault == faults < MaxFaults /\ faults' = faults + 1
Return(stored) == pc' = "idle" /\ due' = FALSE /\ mem' = stored

\* Load; restore a lost table of nftables
StartCycle ==
  /\ pc = "idle"
  /\ pc' = IF Due = {} THEN "judge" ELSE "bill"
  /\ \/ /\ rates' = IF rates = NoTable THEN Speed(disk) ELSE rates
        /\ faults' = faults
     \/ /\ rates = NoTable /\ rates' = rates
        /\ Fault
  /\ UNCHANGED <<stores, config, live, settings, clock>>

Bill ==
  /\ pc = "bill"
  /\ mem' = Rebilled(mem) /\ disk' = mem'
  /\ due' = TRUE /\ pc' = "judge"
  /\ UNCHANGED <<kernel, settings, clock, faults>>

\* nftables cannot be sampled without its table
Samples ==
  IF ~api /\ rates = NoTable THEN {mem}
  ELSE {mem} \cup {Sampled(mem, gain) : gain \in [Metered -> 0 .. 2]}

Judge ==
  /\ pc = "judge"
  /\ \E sample \in Samples, crowd \in SUBSET Limited, heavy \in SUBSET Protected :
       LET recovered == Recovered(sample)
           counted == Crowded(recovered, crowd)
           judged == BurstJudged(counted, heavy)
       IN /\ mem' = Queued(mem, judged) /\ disk' = mem'
          /\ due' = (due \/ counted # sample)
          /\ elapsed' = elapsed \ Offending(counted, heavy)
          /\ calm' = calm \ {u \in crowd : recovered.users[u].enabled}
  /\ pc' = "apply"
  /\ UNCHANGED <<kernel, settings, expired, period, faults>>

\* As if the cycle went on to apply what it could not save
EvaluationApplied ==
  /\ pc = "judge" /\ Fault
  /\ \E heavy \in SUBSET Protected :
       /\ mem' = BurstJudged(mem, heavy)
       /\ elapsed' = elapsed \ Offending(mem, heavy)
  /\ pc' = "apply"
  /\ UNCHANGED <<disk, due, kernel, settings, expired, calm, period>>

\* A save that fails ends the cycle: nothing is applied
EvaluationNotSaved ==
  /\ pc \in {"bill", "judge"} /\ Fault
  /\ disk' = disk /\ Return(disk)
  /\ UNCHANGED <<kernel, settings, clock>>

\* As if the flag for bursts were looked at only in the cycle that set it
ApplyNeededByChange == due \/ mem.stats \/ BurstConfigurationPending(mem)

ApplyNeeded == due \/ mem.burst \/ mem.stats \/ BurstConfigurationPending(mem)

NothingToApply ==
  /\ pc = "apply" /\ ~ApplyNeeded
  /\ pc' = "rate"
  /\ UNCHANGED <<stores, kernel, settings, clock, faults>>

\* applyState succeeds and its caller clears flags in memory
Installed(flags, next) ==
  /\ config' = Served(mem) /\ live' = Served(mem) /\ rates' = Speed(mem)
  /\ mem' = [mem EXCEPT !.stats = @ /\ "stats" \notin flags,
                        !.burst = @ /\ "burst" \notin flags,
                        !.rate = @ /\ "rate" \notin flags]
  /\ pc' = next
  /\ UNCHANGED <<disk, due, settings, clock, faults>>

Apply ==
  \/ pc = "apply" /\ ApplyNeeded /\ Installed({"stats", "burst", "rate"}, "confirm")
  \/ pc = "fullApply" /\ Installed({"stats", "burst", "rate"}, "lastSave")
  \/ pc = "enforceApply" /\ Installed({"stats"}, "lastSave")
  \/ pc = "unblockApply" /\ Installed({"burst"}, "lastSave")

\* applyState fails and rolls back what it can
ApplyFails ==
  /\ pc \in {"apply", "fullApply", "enforceApply", "unblockApply"} /\ Fault
  /\ pc = "apply" => ApplyNeeded
  /\ config' \in {config, Served(mem)}
  /\ rates' \in {rates, Speed(mem)}
  /\ IF pc = "apply" THEN pc' = "rate" /\ UNCHANGED <<mem, due>> ELSE Return(disk)
  /\ UNCHANGED <<disk, live, settings, clock>>

AfterSave == [confirm |-> "rate", rateSave |-> "enforce", lastSave |-> "idle"]

\* The state with cleared flags is saved, or is not
Confirm ==
  /\ pc \in DOMAIN AfterSave
  /\ \/ disk' = mem /\ faults' = faults
     \/ disk' = disk /\ Fault
  /\ IF pc = "lastSave" THEN Return(disk') ELSE pc' = AfterSave[pc] /\ UNCHANGED <<mem, due>>
  /\ UNCHANGED <<kernel, settings, clock>>

\* The flag RateApplyPending alone
Refresh ==
  /\ \/ pc = "rate" /\ mem.rate /\ pc' = "rateSave"
     \/ pc = "fullRate" /\ pc' = "lastSave"
  /\ rates' = Speed(mem)
  /\ mem' = [mem EXCEPT !.rate = FALSE]
  /\ UNCHANGED <<disk, due, config, live, settings, clock, faults>>

\* As if a refresh that failed were taken for done
RefreshGivesUp ==
  /\ pc \in {"rate", "fullRate"} /\ mem.rate /\ Fault
  /\ pc' = IF pc = "rate" THEN "rateSave" ELSE "lastSave"
  /\ mem' = [mem EXCEPT !.rate = FALSE]
  /\ UNCHANGED <<disk, due, kernel, settings, clock>>

RefreshFails ==
  /\ pc \in {"rate", "fullRate"} /\ mem.rate /\ Fault
  /\ IF pc = "rate" THEN pc' = "enforce" /\ UNCHANGED <<mem, due>> ELSE Return(disk)
  /\ UNCHANGED <<disk, kernel, settings, clock>>

NoRefresh ==
  /\ pc = "rate" /\ ~mem.rate
  /\ pc' = "enforce"
  /\ UNCHANGED <<stores, kernel, settings, clock, faults>>

\* enforce --apply loads the stored state again, unless an apply is pending
Enforce ==
  /\ pc = "enforce"
  /\ IF mem.stats \/ ~Disabled(disk).stats
     THEN disk' = disk /\ Return(disk)
     ELSE disk' = Disabled(disk) /\ mem' = disk' /\ due' = due /\ pc' = "enforceApply"
  /\ UNCHANGED <<kernel, settings, clock, faults>>

EnforcementNotSaved ==
  /\ pc = "enforce" /\ ~mem.stats /\ Lapsed(disk) # {} /\ Fault
  /\ disk' = disk /\ Return(disk)
  /\ UNCHANGED <<kernel, settings, clock>>

-------------------------------------------------------------------------------
(* The realtime cycle between them, and the operator's commands            *)

RealtimeCycle ==
  /\ pc = "idle"
  /\ \E sample \in Samples :
       LET cut == \E u \in User : disk.users[u].enabled /\ ~sample.users[u].enabled
           tier == Restaged(disk, sample)
       IN /\ mem' = Queued(disk, sample) /\ disk' = mem' /\ disk' # disk
          /\ pc' = IF cut THEN "fullApply"
                   ELSE IF tier /\ ~sample.stats /\ ~sample.burst THEN "fullRate"
                   ELSE "idle"
  /\ UNCHANGED <<due, kernel, settings, clock, faults>>

ResetTraffic(u) ==
  /\ pc = "idle" /\ api \in Resettable
  /\ \E apply \in BOOLEAN :
       LET a == disk.users[u]
           reset == [disk EXCEPT !.users[u] = Refreshed(a, u),
                       !.rate = @ \/ Stage(a, u) # 0,
                       !.burst = @ \/ a.blocked
                                   \/ (~a.enabled /\ a.reason = "quota" /\ u \notin expired)]
       IN /\ disk' = reset /\ mem' = reset
          /\ pc' = IF apply THEN "fullApply" ELSE "idle"
  /\ UNCHANGED <<due, kernel, settings, clock, faults>>

Unblock(u) ==
  /\ pc = "idle" /\ disk.users[u].blocked
  /\ \E apply \in BOOLEAN :
       /\ disk' = [disk EXCEPT !.users[u].blocked = FALSE, !.burst = TRUE]
       /\ mem' = disk'
       /\ pc' = IF apply THEN "unblockApply" ELSE "idle"
  /\ UNCHANGED <<due, kernel, settings, clock, faults>>

ApplyCommand ==
  /\ pc = "idle"
  /\ pc' = "fullApply"
  /\ UNCHANGED <<stores, kernel, settings, clock, faults>>

-------------------------------------------------------------------------------
(* Time, crashes and restarts                                              *)

Expire(u) ==
  /\ u \in Mortal /\ expired' = expired \cup {u}
  /\ UNCHANGED <<stores, pc, kernel, settings, elapsed, calm, period, faults>>

BlockElapses(u) ==
  /\ disk.users[u].blocked /\ elapsed' = elapsed \cup {u}
  /\ UNCHANGED <<stores, pc, kernel, settings, expired, calm, period, faults>>

HoldElapses(u) ==
  /\ disk.users[u].held /\ calm' = calm \cup {u}
  /\ UNCHANGED <<stores, pc, kernel, settings, expired, elapsed, period, faults>>

PeriodEnds(u) ==
  /\ u \in Billed /\ period[u] < MaxPeriod
  /\ period' = [period EXCEPT ![u] = @ + 1]
  /\ UNCHANGED <<stores, pc, kernel, settings, expired, elapsed, calm, faults>>

\* The process dies, perhaps inside applyState
Crash ==
  /\ pc # "idle" /\ Fault
  /\ IF pc \in {"fullApply", "enforceApply", "unblockApply"} \/ (pc = "apply" /\ ApplyNeeded)
     THEN \/ config' = config /\ rates' \in {rates, Speed(mem)}
          \/ config' = Served(mem) /\ rates' = Speed(mem)
     ELSE UNCHANGED <<config, rates>>
  /\ disk' = disk /\ Return(disk)
  /\ UNCHANGED <<live, settings, clock>>

\* The machine restarts: sing-box reads its file, the table is gone
Reboot ==
  /\ Fault
  /\ live' = config /\ rates' = NoTable
  /\ disk' = disk /\ Return(disk)
  /\ UNCHANGED <<config, settings, clock>>

-------------------------------------------------------------------------------
CycleStep ==
  \/ Bill \/ Judge \/ EvaluationNotSaved
  \/ NothingToApply \/ Apply \/ ApplyFails \/ Confirm
  \/ Refresh \/ RefreshFails \/ NoRefresh
  \/ Enforce \/ EnforcementNotSaved

Command == ApplyCommand \/ \E u \in User : ResetTraffic(u) \/ Unblock(u)
Time == \E u \in User :
  Expire(u) \/ BlockElapses(u) \/ HoldElapses(u) \/ PeriodEnds(u)

Next ==
  \/ StartCycle \/ CycleStep \/ RealtimeCycle \/ Command \/ Time
  \/ Crash \/ Reboot

\* An operation that has begun goes on, and the ticker of the daemon gets its
\* turn again and again.
Fairness == WF_vars(CycleStep) /\ SF_vars(StartCycle)

Spec == Init /\ [][Next]_vars
FairSpec == Spec /\ Fairness
===============================================================================
