--------------------------- MODULE PolicyDaemonProofs ---------------------------
(***************************************************************************)
(* That every evaluation of a state is a state and every step keeps the    *)
(* types.                                                                  *)
(*                                                                         *)
(* That the stored state, or what a cycle finds by looking at it, covers   *)
(* every difference to what runs: for any users and policies, and any      *)
(* number of failed saves, failed applies, crashes and restarts.           *)
(*                                                                         *)
(* The two invariants are inductive together with three facts: the         *)
(* operation in progress holds the stored users, and flags that cover the  *)
(* kernel's view as well; the configuration file is covered like the       *)
(* running sing-box, which a restart of the machine makes of it; and where *)
(* the stats API measures, no enabled user is over quota.                  *)
(***************************************************************************)
EXTENDS PolicyDaemonProps, TLAPS

-------------------------------------------------------------------------------
(* Operators                                                               *)

\* The account of a user
LEMMA UserType == ASSUME NEW s \in State, NEW u \in User PROVE s.users[u] \in Account
BY DEF State

\* Each evaluation of a state is a state.
LEMMA DisabledType == ASSUME NEW s \in State PROVE Disabled(s) \in State
<1>1. ASSUME NEW u \in User, NEW a \in Account
      PROVE  [a EXCEPT !.enabled = FALSE,
                !.reason = IF u \in expired THEN "expired" ELSE "quota"] \in Account
  BY DEF Account
<1>2. [u \in User |->
         IF u \notin Lapsed(s) THEN s.users[u]
         ELSE [s.users[u] EXCEPT !.enabled = FALSE,
                 !.reason = IF u \in expired THEN "expired" ELSE "quota"]]
      \in [User -> Account]
  BY <1>1, UserType
<1>3. ASSUME NEW f \in [User -> Account]
      PROVE  [s EXCEPT !.stats = @ \/ Lapsed(s) # {}, !.users = f] \in State
  BY DEF State
<1> QED BY <1>2, <1>3 DEF Disabled

LEMMA GrownType == 
  ASSUME NEW s \in State, NEW gain \in [Metered -> 0 .. 2] PROVE Grown(s, gain) \in State
<1>1. ASSUME NEW u \in Metered, NEW a \in Account
      PROVE  [a EXCEPT !.used = IF @ + gain[u] > 2 THEN 2 ELSE @ + gain[u]] \in Account
  <2>1. a.used \in 0 .. 2 /\ gain[u] \in 0 .. 2
    BY DEF Account
  <2>2. (IF a.used + gain[u] > 2 THEN 2 ELSE a.used + gain[u]) \in 0 .. 2
    BY <2>1
  <2> QED BY <2>2 DEF Account
<1>2. [u \in User |->
         IF u \notin Metered THEN s.users[u]
         ELSE [s.users[u] EXCEPT !.used = IF @ + gain[u] > 2 THEN 2 ELSE @ + gain[u]]]
      \in [User -> Account]
  BY <1>1, UserType
<1> QED BY <1>2 DEF Grown, State

LEMMA SampledType == 
  ASSUME NEW s \in State, NEW gain \in [Metered -> 0 .. 2] PROVE Sampled(s, gain) \in State
BY GrownType, DisabledType DEF Sampled

LEMMA RefreshedType ==
  ASSUME NEW a \in Account, NEW u \in User, period \in [User -> 0 .. MaxPeriod]
  PROVE  Refreshed(a, u) \in Account
<1> DEFINE back == a.reason = "quota" /\ u \notin expired
           enabled == a.enabled \/ back
           reason == IF back THEN "" ELSE a.reason
           bill == IF u \in Billed THEN period[u] ELSE a.billed
<1>1. /\ enabled \in BOOLEAN /\ bill \in 0 .. MaxPeriod
      /\ reason \in {"", "quota", "expired", "connections"}
  BY DEF Account
<1>2. Refreshed(a, u) = [a EXCEPT !.used = 0, !.blocked = FALSE, !.enabled = enabled,
                           !.reason = reason, !.billed = bill]
  BY DEF Refreshed
<1>3. 0 \in 0 .. 2
  OBVIOUS
<1> HIDE DEF back, enabled, reason, bill
<1> QED BY <1>1, <1>2, <1>3 DEF Account

LEMMA RebilledType ==
  ASSUME NEW s \in State, period \in [User -> 0 .. MaxPeriod]
  PROVE  Rebilled(s) \in State
<1>1. [u \in User |-> IF u \in Due THEN Refreshed(s.users[u], u) ELSE s.users[u]]
      \in [User -> Account]
  BY RefreshedType, UserType
<1> QED BY <1>1 DEF Rebilled, State

LEMMA RecoveredType == ASSUME NEW s \in State PROVE Recovered(s) \in State
<1>1. ASSUME NEW a \in Account PROVE Unheld(a) \in Account
  BY DEF Unheld, Account
<1>2. [u \in User |-> IF u \in Recovering(s) THEN Unheld(s.users[u]) ELSE s.users[u]]
      \in [User -> Account]
  BY <1>1, UserType
<1>3. ASSUME NEW f \in [User -> Account]
      PROVE  [s EXCEPT !.stats = @ \/ Recovering(s) # {}, !.users = f] \in State
  BY DEF State
<1> QED BY <1>2, <1>3 DEF Recovered

LEMMA CrowdedType == ASSUME NEW s \in State, NEW crowd PROVE Crowded(s, crowd) \in State
<1>1. ASSUME NEW a \in Account
      PROVE  [a EXCEPT !.enabled = FALSE, !.reason = "connections", !.held = TRUE] \in Account
  BY DEF Account
<1>2. [u \in User |->
         IF u \in crowd /\ s.users[u].enabled
         THEN [s.users[u] EXCEPT !.enabled = FALSE, !.reason = "connections", !.held = TRUE]
         ELSE s.users[u]] \in [User -> Account]
  BY <1>1, UserType
<1> QED BY <1>2 DEF Crowded, State

LEMMA BurstJudgedType == 
  ASSUME NEW s \in State, NEW heavy PROVE BurstJudged(s, heavy) \in State
<1>1. ASSUME NEW a \in Account, NEW x \in BOOLEAN, NEW y \in BOOLEAN
      PROVE  [a EXCEPT !.blocked = (@ /\ x) \/ y] \in Account
  <2>1. ((a.blocked /\ x) \/ y) \in BOOLEAN
    OBVIOUS
  <2> DEFINE v == (a.blocked /\ x) \/ y
  <2> HIDE DEF v
  <2>2. [a EXCEPT !.blocked = v] \in Account
    BY <2>1 DEF Account, v
  <2> QED BY <2>2 DEF v
<1>2. [u \in User |->
         [s.users[u] EXCEPT !.blocked =
            (@ /\ u \notin Released(s)) \/ u \in Offending(s, heavy)]] \in [User -> Account]
  BY <1>1, UserType
<1>3. ASSUME NEW f \in [User -> Account]
      PROVE  [s EXCEPT !.burst = @ \/ Released(s) \cup Offending(s, heavy) # {},
                       !.users = f] \in State
  BY DEF State
<1> QED BY <1>2, <1>3 DEF BurstJudged

LEMMA QueuedType == 
  ASSUME NEW s, NEW t \in State PROVE Queued(s, t) \in State
BY DEF Queued, State

\* The speeds and users a state makes
LEMMA SpeedType == ASSUME NEW s \in State PROVE Speed(s) \in [User -> 0 .. 4]
<1>1. ASSUME NEW u \in User PROVE s.users[u].used \in 0 .. 4
  <2>1. s.users[u].used \in 0 .. 2
    BY UserType DEF Account
  <2> QED BY <2>1
<1> QED BY <1>1 DEF Speed, Stage, SoftRate

LEMMA ServedType == ASSUME NEW s PROVE Served(s) \subseteq User
BY DEF Served

\* A step that fails stays within the bound of the faults
LEMMA FaultType == ASSUME faults \in 0 .. MaxFaults, Fault PROVE faults' \in 0 .. MaxFaults
BY BoundAssumption DEF Fault

\* Each sample is a state
LEMMA SampleType ==
  ASSUME TypeOK, NEW sample \in Samples PROVE sample \in State
BY SampledType DEF Samples, TypeOK

\* So is a state with cleared flags
LEMMA ClearedType ==
  ASSUME NEW s \in State, NEW flags
  PROVE  [s EXCEPT !.stats = @ /\ "stats" \notin flags, !.burst = @ /\ "burst" \notin flags,
                   !.rate = @ /\ "rate" \notin flags] \in State
BY DEF State

-------------------------------------------------------------------------------
(* Steps                                                                   *)

\* No step leaves the types.
LEMMA TypeStep == TypeOK /\ [Next]_vars => TypeOK'
<1> SUFFICES ASSUME TypeOK, [Next]_vars PROVE TypeOK'
  OBVIOUS
<1> USE DEF TypeOK
<1>1. CASE UNCHANGED vars
  BY <1>1 DEF vars, stores, kernel, settings, clock
<1>2. CASE StartCycle
  BY <1>2, SpeedType, FaultType DEF StartCycle, stores, settings, clock
<1>3. CASE Bill
  BY <1>3, RebilledType DEF Bill, kernel, settings, clock
<1>4. CASE Judge
  BY <1>4, SampleType, RecoveredType, CrowdedType, BurstJudgedType, QueuedType
     DEF Judge, kernel, settings
<1>5. CASE EvaluationNotSaved
  BY <1>5, FaultType DEF EvaluationNotSaved, Return, kernel, settings, clock
<1>6. CASE NothingToApply
  BY <1>6 DEF NothingToApply, stores, kernel, settings, clock
<1>7. CASE Apply
  <2>1. ASSUME NEW flags, NEW next \in {"confirm", "lastSave"}, Installed(flags, next)
        PROVE  TypeOK'
    <3>1. mem' \in State
      BY <2>1, ClearedType DEF Installed
    <3> QED BY <2>1, <3>1, ServedType, SpeedType DEF Installed, settings, clock
  <2> QED BY <1>7, <2>1 DEF Apply
<1>8. CASE ApplyFails
  BY <1>8, ServedType, SpeedType, FaultType DEF ApplyFails, Return, settings, clock
<1>9. CASE Confirm
  <2>1. DOMAIN AfterSave = {"confirm", "rateSave", "lastSave"}
    BY DEF AfterSave
  <2>2. AfterSave["confirm"] = "rate" /\ AfterSave["rateSave"] = "enforce"
    BY DEF AfterSave
  <2>3. disk' \in State /\ faults' \in 0 .. MaxFaults
    BY <1>9, FaultType DEF Confirm
  <2>4. CASE pc = "lastSave"
    BY <1>9, <2>3, <2>4 DEF Confirm, Return, kernel, settings, clock
  <2>5. CASE pc # "lastSave"
    <3>1. pc' \in {"rate", "enforce"}
      BY <1>9, <2>1, <2>2, <2>5 DEF Confirm
    <3> QED BY <1>9, <2>3, <2>5, <3>1 DEF Confirm, kernel, settings, clock
  <2> QED BY <2>4, <2>5
<1>10. CASE Refresh
  BY <1>10, SpeedType DEF Refresh, settings, clock, State
<1>11. CASE RefreshFails
  BY <1>11, FaultType DEF RefreshFails, Return, kernel, settings, clock
<1>12. CASE NoRefresh
  BY <1>12 DEF NoRefresh, stores, kernel, settings, clock
<1>13. CASE Enforce
  BY <1>13, DisabledType DEF Enforce, Return, kernel, settings, clock
<1>14. CASE EnforcementNotSaved
  BY <1>14, FaultType DEF EnforcementNotSaved, Return, kernel, settings, clock
<1>15. CASE RealtimeCycle
  BY <1>15, SampleType, QueuedType DEF RealtimeCycle, kernel, settings, clock
<1>16. CASE ApplyCommand
  BY <1>16 DEF ApplyCommand, stores, kernel, settings, clock
<1>17. ASSUME NEW u \in User, ResetTraffic(u) PROVE TypeOK'
  <2> DEFINE reset(x, y) == [disk EXCEPT !.users[u] = Refreshed(disk.users[u], u),
                               !.rate = @ \/ x, !.burst = @ \/ y]
  <2>1. \A x, y : reset(x, y) \in State
    BY RefreshedType, UserType DEF State
  <2> QED BY <1>17, <2>1 DEF ResetTraffic, kernel, settings, clock
<1>18. ASSUME NEW u \in User, Unblock(u) PROVE TypeOK'
  <2> DEFINE a == [disk.users[u] EXCEPT !.blocked = FALSE]
  <2>1. a \in Account
    <3>1. disk.users[u] \in Account
      BY UserType
    <3>2. \A b \in Account : [b EXCEPT !.blocked = FALSE] \in Account
      BY DEF Account
    <3> QED BY <3>1, <3>2
  <2>2. [disk EXCEPT !.users[u] = a, !.burst = TRUE] \in State
    BY <2>1 DEF State
  <2>3. [disk EXCEPT !.users[u].blocked = FALSE, !.burst = TRUE]
          = [disk EXCEPT !.users[u] = a, !.burst = TRUE]
    BY DEF State
  <2> QED BY <1>18, <2>2, <2>3 DEF Unblock, kernel, settings, clock
<1>19. ASSUME NEW u \in User, Expire(u) \/ BlockElapses(u) \/ HoldElapses(u) PROVE TypeOK'
  BY <1>19 DEF Expire, BlockElapses, HoldElapses, stores, kernel, settings
<1>20. ASSUME NEW u \in User, PeriodEnds(u) PROVE TypeOK'
  <2>1. period[u] + 1 \in 0 .. MaxPeriod
    BY <1>20, BoundAssumption DEF PeriodEnds
  <2> QED BY <1>20, <2>1 DEF PeriodEnds, stores, kernel, settings
<1>21. CASE Crash
  BY <1>21, ServedType, SpeedType, FaultType DEF Crash, Return, settings, clock
<1>22. CASE Reboot
  <2>1. NoTable \in [User -> 0 .. 4]
    BY 4 \in 0 .. 4 DEF NoTable
  <2> QED BY <1>22, <2>1, FaultType DEF Reboot, Return, settings, clock
<1> QED BY <1>1, <1>2, <1>3, <1>4, <1>5, <1>6, <1>7, <1>8, <1>9, <1>10, <1>11, <1>12,
           <1>13, <1>14, <1>15, <1>16, <1>17, <1>18, <1>19, <1>20, <1>21, <1>22
        DEF Next, CycleStep, Command, Time

\* The initial states have the types
LEMMA TypeInit == Init => TypeOK
<1> SUFFICES ASSUME Init PROVE TypeOK
  OBVIOUS
<1>1. 0 \in 0 .. MaxPeriod /\ 0 \in 0 .. MaxFaults /\ 0 \in 0 .. 2 /\ 0 \in 0 .. 4
  BY BoundAssumption
<1>2. api \in BOOLEAN /\ hard \subseteq Protected
  BY SamplingAssumption DEF Init
<1>3. disk \in State
  BY <1>1 DEF Init, State, Account
<1> QED BY <1>1, <1>2, <1>3 DEF Init, TypeOK

\* TypeOK is an invariant: the stored state, the state of the running
\* operation, the kernel's view and the clock keep their types.
THEOREM TypeCorrect == Spec => []TypeOK
BY TypeInit, TypeStep, PTL DEF Spec

-------------------------------------------------------------------------------
(* Differences are covered                                                 *)

\* The flags of t cover those of s
FlagsKept(s, t) ==
  /\ s.stats => t.stats
  /\ s.burst => t.burst
  /\ s.rate => t.rate

\* What an evaluation makes of an account when it sets no flag
Alike(a, b) ==
  /\ a.enabled = b.enabled
  /\ a.blocked = b.blocked
  /\ a.enabled /\ OverQuota(a) => OverQuota(b)

\* t is an evaluation of s: it sets a flag or leaves the accounts alike
Carries(s, t) ==
  /\ FlagsKept(s, t)
  /\ \/ t.stats \/ t.burst
     \/ \A u \in Flagged : Alike(s.users[u], t.users[u])

\* No hold, and nobody over quota whom a sample through the stats API left enabled
Clean(s, sampled) ==
  \A u \in Flagged : /\ ~s.users[u].held
                     /\ sampled /\ s.users[u].enabled => ~OverQuota(s.users[u])

Follows(s, t) == Carries(s, t) /\ (Clean(s, api) => Clean(t, api))

\* Every difference between a state and the kernel's view is covered
Covered(s, written, served, speeds) ==
  /\ Covers(s, written) /\ Covers(s, served)
  /\ \A u \in Flagged :
       speeds[u] \notin {NoTable[u], Speed(s)[u]} => s.rate \/ Retried(s, u)

Agree == mem.users = disk.users /\ (pc = "idle" => mem = disk)

IInv ==
  /\ TypeOK /\ Agree
  /\ Clean(disk, api)
  /\ Covered(disk, config, live, rates) /\ Covered(mem, config, live, rates)

-------------------------------------------------------------------------------
(* What each evaluation of a state keeps                                   *)

\* Evaluations compose
LEMMA FollowsTransitive ==
  ASSUME NEW r, NEW s, NEW t, Follows(r, s), Follows(s, t) PROVE Follows(r, t)
BY DEF Follows, Carries, FlagsKept, Alike

\* What disabling for a quota or an expiry does to one user
LEMMA DisabledUser ==
  ASSUME NEW s \in State, NEW u \in User
  PROVE  /\ u \notin Lapsed(s) => Disabled(s).users[u] = s.users[u]
         /\ u \in Lapsed(s) => ~Disabled(s).users[u].enabled
         /\ Disabled(s).users[u].held = s.users[u].held
         /\ Disabled(s).users[u].used = s.users[u].used
<1> DEFINE a == s.users[u]
           reason == IF u \in expired THEN "expired" ELSE "quota"
           stopped == [a EXCEPT !.enabled = FALSE, !.reason = reason]
<1>1. Disabled(s).users[u] = IF u \notin Lapsed(s) THEN a ELSE stopped
  BY DEF Disabled, State
<1>2. a \in Account
  BY UserType
<1> HIDE DEF a, reason
<1>3. ~stopped.enabled /\ stopped.held = a.held /\ stopped.used = a.used
  BY <1>2 DEF Account
<1> QED BY <1>1, <1>3 DEF a

\* Disabling sets a flag
LEMMA DisabledFollows == ASSUME NEW s \in State PROVE Follows(s, Disabled(s))
<1>1. /\ Disabled(s).stats <=> s.stats \/ Lapsed(s) # {}
      /\ Disabled(s).burst = s.burst /\ Disabled(s).rate = s.rate
  BY DEF Disabled, State
<1> QED BY <1>1, DisabledUser DEF Follows, Carries, FlagsKept, Alike, Clean, Flagged

\* A sample only adds to the usage
LEMMA GrownAlike ==
  ASSUME NEW s \in State, NEW gain \in [Metered -> 0 .. 2]
  PROVE  /\ Carries(s, Grown(s, gain))
         /\ \A u \in User : Grown(s, gain).users[u].held = s.users[u].held
<1>1. ASSUME NEW u \in User
      PROVE  /\ Alike(s.users[u], Grown(s, gain).users[u])
             /\ Grown(s, gain).users[u].held = s.users[u].held
  <2>1. CASE u \notin Metered
    BY <2>1 DEF Grown, State, Alike
  <2>2. CASE u \in Metered
    <3> DEFINE a == s.users[u]
               more == IF a.used + gain[u] > 2 THEN 2 ELSE a.used + gain[u]
    <3>1. Grown(s, gain).users[u] = [a EXCEPT !.used = more]
      BY <2>2 DEF Grown, State
    <3>2. a \in Account
      BY UserType
    <3>3. a.used \in 0 .. 2 /\ gain[u] \in 0 .. 2
      BY <2>2, <3>2 DEF Account
    <3>4. a.used = 2 => more = 2
      BY <3>3
    <3> HIDE DEF more, a
    <3>5. /\ [a EXCEPT !.used = more].enabled = a.enabled
          /\ [a EXCEPT !.used = more].blocked = a.blocked
          /\ [a EXCEPT !.used = more].held = a.held
          /\ [a EXCEPT !.used = more].used = more
      BY <3>2 DEF Account
    <3> QED BY <3>1, <3>4, <3>5 DEF Alike, OverQuota, a
  <2> QED BY <2>1, <2>2
<1>2. FlagsKept(s, Grown(s, gain))
  BY DEF FlagsKept, Grown, State
<1> QED BY <1>1, <1>2 DEF Carries, Flagged

\* Through the stats API, who is over quota is not left enabled
LEMMA SampledFollows ==
  ASSUME NEW s \in State, NEW gain \in [Metered -> 0 .. 2]
  PROVE  Follows(s, Sampled(s, gain))
<1> DEFINE g == Grown(s, gain)
<1>1. g \in State /\ Carries(s, g) /\ \A u \in User : g.users[u].held = s.users[u].held
  BY GrownType, GrownAlike
<1> HIDE DEF g
<1>2. CASE api
  <2>1. Carries(g, Disabled(g))
    BY <1>1, DisabledFollows DEF Follows
  <2>2. ASSUME NEW u \in User
        PROVE  /\ Disabled(g).users[u].held = g.users[u].held
               /\ Disabled(g).users[u].enabled => ~OverQuota(Disabled(g).users[u])
    BY <1>1, DisabledUser DEF Lapsed
  <2> QED BY <1>1, <1>2, <2>1, <2>2
          DEF Follows, Carries, FlagsKept, Alike, Clean, Flagged, Sampled, g
<1>3. CASE ~api
  BY <1>1, <1>3 DEF Follows, Clean, Flagged, Sampled, g
<1> QED BY <1>2, <1>3

\* Each sample that a cycle may take is an evaluation of the state
LEMMA SampleFollows ==
  ASSUME mem \in State, NEW sample \in Samples PROVE Follows(mem, sample)
<1>1. Follows(mem, mem)
  BY DEF Follows, Carries, FlagsKept, Alike
<1> QED BY <1>1, SampledFollows DEF Samples

\* Lifting a hold sets a flag
LEMMA RecoveredFollows == ASSUME NEW s \in State PROVE Follows(s, Recovered(s))
<1>1. ASSUME NEW u \in User, u \notin Recovering(s)
      PROVE  Recovered(s).users[u] = s.users[u]
  BY <1>1 DEF Recovered, State
<1>2. /\ Recovered(s).stats <=> s.stats \/ Recovering(s) # {}
      /\ Recovered(s).burst = s.burst /\ Recovered(s).rate = s.rate
  BY DEF Recovered, State
<1>3. \A u \in User : u \in Recovering(s) => s.users[u].held
  BY DEF Recovering
<1> QED BY <1>1, <1>2, <1>3 DEF Follows, Carries, FlagsKept, Alike, Clean, Flagged

\* Connection limits touch nobody whose policies all set flags
LEMMA CrowdedFollows ==
  ASSUME NEW s \in State, NEW crowd \in SUBSET Limited PROVE Follows(s, Crowded(s, crowd))
<1>1. ASSUME NEW u \in Flagged PROVE Crowded(s, crowd).users[u] = s.users[u]
  BY DEF Crowded, State, Flagged
<1>2. FlagsKept(s, Crowded(s, crowd))
  BY DEF FlagsKept, Crowded, State
<1> QED BY <1>1, <1>2 DEF Follows, Carries, Alike, Clean

\* Burst protection sets a flag for each block it sets or lifts
LEMMA BurstJudgedFollows ==
  ASSUME NEW s \in State, NEW heavy PROVE Follows(s, BurstJudged(s, heavy))
<1>1. ASSUME NEW u \in User
      PROVE  /\ BurstJudged(s, heavy).users[u].enabled = s.users[u].enabled
             /\ BurstJudged(s, heavy).users[u].used = s.users[u].used
             /\ BurstJudged(s, heavy).users[u].held = s.users[u].held
             /\ u \notin Released(s) \cup Offending(s, heavy)
                  => BurstJudged(s, heavy).users[u].blocked = s.users[u].blocked
  <2>1. s.users[u] \in Account
    BY UserType
  <2>2. BurstJudged(s, heavy).users[u] =
          [s.users[u] EXCEPT !.blocked =
             (@ /\ u \notin Released(s)) \/ u \in Offending(s, heavy)]
    BY DEF BurstJudged, State
  <2> QED BY <2>1, <2>2 DEF Account
<1>2. /\ BurstJudged(s, heavy).burst <=> s.burst \/ Released(s) \cup Offending(s, heavy) # {}
      /\ BurstJudged(s, heavy).stats = s.stats /\ BurstJudged(s, heavy).rate = s.rate
  BY DEF BurstJudged, State
<1> QED BY <1>1, <1>2
        DEF Follows, Carries, FlagsKept, Alike, Clean, Flagged, OverQuota

\* The end of a period touches nobody whose policies all set flags
LEMMA RebilledFollows == ASSUME NEW s \in State PROVE Follows(s, Rebilled(s))
<1>1. ASSUME NEW u \in Flagged PROVE Rebilled(s).users[u] = s.users[u]
  BY DEF Rebilled, State, Flagged, Due
<1>2. FlagsKept(s, Rebilled(s))
  BY DEF FlagsKept, Rebilled, State
<1> QED BY <1>1, <1>2 DEF Follows, Carries, Alike, Clean

\* Asking for a rate refresh touches no account
LEMMA QueuedFollows == ASSUME NEW r, NEW s \in State PROVE Follows(s, Queued(r, s))
<1>1. /\ Queued(r, s).users = s.users /\ FlagsKept(s, Queued(r, s))
  BY DEF Queued, FlagsKept, State
<1> QED BY <1>1 DEF Follows, Carries, Alike, Clean

-------------------------------------------------------------------------------
(* How a difference stays covered                                          *)

\* The kernel's view comes closer to s, or to what is written, or is lost
LEMMA CoveredKept ==
  ASSUME NEW s, NEW t, t.users = s.users, FlagsKept(s, t),
         NEW c, NEW l, NEW r, Covered(s, c, l, r),
         NEW d \in {c, Served(s)}, NEW m \in {l, c, Served(s)},
         NEW v \in {r, Speed(s), NoTable}
  PROVE  Covered(t, d, m, v)
<1>1. Served(t) = Served(s) /\ Speed(t) = Speed(s)
  BY DEF Served, Speed, BlockedNow
<1>2. \A u \in User : Retried(s, u) => Retried(t, u)
  BY DEF Retried, Noticed, Lapsed, Released, FlagsKept
<1> QED BY <1>1, <1>2 DEF Covered, Covers, FlagsKept, Flagged

\* An apply leaves nothing to cover, whatever flags are cleared after it
LEMMA CoveredApplied ==
  ASSUME NEW s, NEW t, t.users = s.users
  PROVE  Covered(t, Served(s), Served(s), Speed(s))
<1>1. Served(t) = Served(s) /\ Speed(t) = Speed(s)
  BY DEF Served, Speed, BlockedNow
<1> QED BY <1>1 DEF Covered, Covers

\* A rate refresh leaves no speed to cover, and the flag for it may be cleared
LEMMA CoveredRefreshed ==
  ASSUME NEW s, NEW t, t.users = s.users, s.stats => t.stats, s.burst => t.burst,
         NEW c, NEW l, NEW r, Covered(s, c, l, r)
  PROVE  Covered(t, c, l, Speed(s))
<1>1. Served(t) = Served(s) /\ Speed(t) = Speed(s)
  BY DEF Served, Speed, BlockedNow
<1>2. \A u \in User : Retried(s, u) => Retried(t, u)
  BY DEF Retried, Noticed, Lapsed, Released
<1> QED BY <1>1, <1>2 DEF Covered, Covers, Flagged

\* A flag covers everything, and an evaluation without one hides nothing
LEMMA CoveredFollowed ==
  ASSUME NEW s \in State, NEW t \in State, Carries(s, t),
         \A u \in Flagged : Stage(s.users[u], u) # Stage(t.users[u], u) => t.rate,
         NEW c, NEW l, NEW r, Covered(s, c, l, r)
  PROVE  Covered(t, c, l, r)
<1>1. CASE t.stats \/ t.burst
  BY <1>1 DEF Covered, Covers, Retried
<1>2. CASE ~(t.stats \/ t.burst)
  <2> SUFFICES ASSUME NEW u \in Flagged, ~Retried(t, u)
               PROVE  /\ (u \in c) = (u \in Served(t)) /\ (u \in l) = (u \in Served(t))
                      /\ r[u] \in {NoTable[u], Speed(t)[u]} \/ t.rate
    BY DEF Covered, Covers
  <2>1. u \in User /\ Alike(s.users[u], t.users[u])
    BY <1>2 DEF Carries, Flagged
  <2>2. ~Noticed(t, u)
    BY DEF Retried
  <2>3. ~Retried(s, u) /\ (u \in Served(s)) = (u \in Served(t))
    BY <1>2, <2>1, <2>2 DEF Carries, FlagsKept, Alike, Retried, Noticed, Lapsed, Released,
                            Served, BlockedNow
  <2>4. t.rate \/ Speed(s)[u] = Speed(t)[u]
    BY <2>1 DEF Speed, Alike, BlockedNow
  <2>5. s.rate => t.rate
    BY DEF Carries, FlagsKept
  <2> QED BY <2>3, <2>4, <2>5 DEF Covered, Covers
<1> QED BY <1>1, <1>2

\* The step looks at the clock before it moves
LEMMA ClockStands ==
  ASSUME expired' = expired, elapsed' = elapsed, hard' = hard
  PROVE  /\ Covered(disk', config', live', rates') => Covered(disk, config, live, rates)'
         /\ Covered(mem', config', live', rates') => Covered(mem, config, live, rates)'
BY DEF Covered, Covers, Retried, Noticed, Lapsed, Released, Served, Speed, BlockedNow

\* A step that leaves the accounts alone
LEMMA AccountsStand ==
  ASSUME IInv, TypeOK', UNCHANGED <<api, hard, expired, elapsed>>,
         disk'.users = disk.users, mem'.users = disk.users, pc' = "idle" => mem' = disk',
         Covered(disk', config', live', rates'), Covered(mem', config', live', rates')
  PROVE  IInv'
<1>1. Agree' /\ Clean(disk, api)'
  BY DEF IInv, Agree, Clean
<1>2. Covered(disk, config, live, rates)' /\ Covered(mem, config, live, rates)'
  BY ClockStands
<1> QED BY <1>1, <1>2 DEF IInv

\* A step that stores an evaluation of the state in memory
LEMMA Evaluated ==
  ASSUME IInv, TypeOK', UNCHANGED <<api, hard, expired, kernel>>, disk' = mem',
         NEW s \in State, Covered(s, config, live, rates), Clean(s, api), Follows(s, mem'),
         \A u \in Flagged : Stage(s.users[u], u) # Stage(mem'.users[u], u) => mem'.rate,
         mem'.burst \/ elapsed' = elapsed
  PROVE  IInv'
<1>1. Agree' /\ Clean(disk, api)'
  BY DEF Agree, Follows, Clean
<1>2. mem' \in State
  BY DEF TypeOK
<1>3. CASE mem'.burst
  BY <1>1, <1>3 DEF IInv, Covered, Covers, Retried
<1>4. CASE elapsed' = elapsed
  <2>1. Covered(mem', config, live, rates)
    BY <1>2, CoveredFollowed DEF Follows
  <2> QED BY <1>1, <1>4, <2>1, ClockStands DEF IInv, kernel
<1> QED BY <1>3, <1>4

\* Where the daemon goes on after it has saved cleared flags
LEMMA AfterSaveSteps ==
  /\ DOMAIN AfterSave = {"confirm", "rateSave", "lastSave"}
  /\ AfterSave["confirm"] = "rate" /\ AfterSave["rateSave"] = "enforce"
BY DEF AfterSave

\* A reset by the operator sets the flags of what it changes
LEMMA ResetFollows ==
  ASSUME disk \in State, api, NEW u \in User, ResetTraffic(u), Clean(disk, api)
  PROVE  /\ Follows(disk, mem')
         /\ \A v \in Flagged : Stage(disk.users[v], v) # Stage(mem'.users[v], v) => mem'.rate
<1> DEFINE a == disk.users[u]
           b == Refreshed(a, u)
           back == ~a.enabled /\ a.reason = "quota" /\ u \notin expired
<1>1. mem' = [disk EXCEPT !.users[u] = b, !.rate = @ \/ Stage(a, u) # 0,
                          !.burst = @ \/ a.blocked \/ back]
  BY DEF ResetTraffic
<1>2. a \in Account
  BY UserType
<1>3. /\ b.used = 0 /\ b.blocked = FALSE /\ b.held = a.held
      /\ b.enabled = (a.enabled \/ back)
  <2> DEFINE enabled == a.enabled \/ (a.reason = "quota" /\ u \notin expired)
             reason == IF a.reason = "quota" /\ u \notin expired THEN "" ELSE a.reason
             bill == IF u \in Billed THEN period[u] ELSE a.billed
  <2>1. b = [a EXCEPT !.used = 0, !.blocked = FALSE, !.enabled = enabled,
               !.reason = reason, !.billed = bill]
    BY DEF Refreshed
  <2>2. enabled = (a.enabled \/ back)
    BY <1>2 DEF Account
  <2> HIDE DEF enabled, reason, bill, a, b, back
  <2> QED BY <1>2, <2>1, <2>2 DEF Account
<1> HIDE DEF a, b, back
<1>4. /\ mem'.users[u] = b /\ \A v \in User \ {u} : mem'.users[v] = disk.users[v]
      /\ mem'.stats = disk.stats
      /\ mem'.burst <=> disk.burst \/ a.blocked \/ back
      /\ mem'.rate <=> disk.rate \/ Stage(a, u) # 0
  BY <1>1 DEF State
<1>5. a.blocked \in BOOLEAN /\ a.enabled \in BOOLEAN
  BY <1>2 DEF Account
<1>6. u \in Flagged => ~(a.enabled /\ OverQuota(a))
  BY DEF Clean, a
<1>7. \A v \in Flagged : mem'.burst \/ Alike(disk.users[v], mem'.users[v])
  BY <1>3, <1>4, <1>5, <1>6 DEF Alike, Flagged, a
<1>8. Clean(disk, api) => Clean(mem', api)
  BY <1>3, <1>4 DEF Clean, OverQuota, Flagged, a
<1>9. \A v \in Flagged : Stage(disk.users[v], v) # Stage(mem'.users[v], v) => mem'.rate
  BY <1>3, <1>4 DEF Stage, Flagged, a
<1> QED BY <1>4, <1>7, <1>8, <1>9 DEF Follows, Carries, FlagsKept

\* A deadline that passes and makes a difference is noticed by the next cycle
LEMMA ClockMoves ==
  ASSUME expired \subseteq expired', elapsed \subseteq elapsed', UNCHANGED <<hard, stores, kernel>>,
         Covered(disk, config, live, rates), Covered(mem, config, live, rates)
  PROVE  Covered(disk, config, live, rates)' /\ Covered(mem, config, live, rates)'
<1> USE DEF stores, kernel
<1>1. \A v \in User : ~Noticed(disk, v)' =>
        ~Noticed(disk, v) /\ (v \in Served(disk)') = (v \in Served(disk))
                          /\ Speed(disk)'[v] = Speed(disk)[v]
  BY DEF Noticed, Lapsed, Released, Served, Speed, BlockedNow
<1>2. \A v \in User : ~Noticed(mem, v)' =>
        ~Noticed(mem, v) /\ (v \in Served(mem)') = (v \in Served(mem))
                         /\ Speed(mem)'[v] = Speed(mem)[v]
  BY DEF Noticed, Lapsed, Released, Served, Speed, BlockedNow
<1>3. Covered(disk, config, live, rates)'
  BY <1>1 DEF Covered, Covers, Retried, Flagged
<1>4. Covered(mem, config, live, rates)'
  BY <1>2 DEF Covered, Covers, Retried, Flagged
<1> QED BY <1>3, <1>4

-------------------------------------------------------------------------------
(* The inductive invariant                                                 *)

\* Initially everybody is served, and nothing is pending
LEMMA IInvInit == Init => IInv
<1> SUFFICES ASSUME Init PROVE IInv
  OBVIOUS
<1>1. ASSUME NEW u \in User
      PROVE  /\ ~disk.users[u].held /\ ~OverQuota(disk.users[u])
             /\ u \in Served(disk) /\ Speed(disk)[u] = 0
  <2> DEFINE fresh == [enabled |-> TRUE, reason |-> "", used |-> 0,
                       blocked |-> FALSE, held |-> FALSE, billed |-> 0]
  <2>1. disk.users[u] = fresh
    BY DEF Init
  <2>2. /\ fresh.enabled = TRUE /\ fresh.held = FALSE /\ fresh.blocked = FALSE
        /\ fresh.used = 0
    OBVIOUS
  <2> HIDE DEF fresh
  <2>3. ~OverQuota(disk.users[u]) /\ Stage(disk.users[u], u) = 0
    BY <2>1, <2>2 DEF OverQuota, Stage
  <2>4. expired = {}
    BY DEF Init
  <2> QED BY <2>1, <2>2, <2>3, <2>4 DEF Served, Speed, BlockedNow
<1>2. Covered(disk, config, live, rates)
  BY <1>1 DEF Init, Covered, Covers, Flagged
<1>3. Clean(disk, api) /\ Agree
  BY <1>1 DEF Init, Clean, Agree, Flagged
<1> QED BY <1>2, <1>3, TypeInit DEF Init, IInv

\* Every step keeps the invariant, if an operator resets traffic only where
\* the stats API measures.
LEMMA IInvStep ==
  ASSUME Resettable \subseteq {TRUE}, IInv, [Next]_vars PROVE IInv'
<1>1. TypeOK' /\ TypeOK /\ mem.users = disk.users /\ disk \in State /\ mem \in State
  BY TypeStep DEF IInv, TypeOK, Agree
<1>2. Covered(disk, config, live, rates) /\ Covered(mem, config, live, rates)
  BY DEF IInv
<1>3. Served(disk) = Served(mem) /\ Speed(disk) = Speed(mem)
  BY <1>1 DEF Served, Speed, BlockedNow
<1>4. FlagsKept(disk, disk) /\ FlagsKept(mem, mem)
  BY DEF FlagsKept
<1>5. Clean(disk, api) /\ Clean(mem, api)
  BY <1>1 DEF IInv, Clean
<1>6. CASE UNCHANGED vars
  BY <1>1, <1>2, <1>6, AccountsStand DEF IInv, Agree, vars, stores, kernel, settings, clock
\* An operation that ends goes back to the stored state
<1>7. ASSUME Return(disk), disk' = disk, UNCHANGED <<settings, clock>>,
             config' \in {config, Served(mem)}, live' \in {live, config},
             rates' \in {rates, Speed(mem), NoTable}
      PROVE  IInv'
  <2>1. Covered(disk, config', live', rates')
    BY <1>2, <1>3, <1>4, <1>7, CoveredKept
  <2> QED BY <1>1, <1>7, <2>1, AccountsStand DEF Return, settings, clock
<1>8. CASE StartCycle
  <2>1. /\ rates' \in {rates, Speed(disk)} /\ pc' # "idle" /\ disk' = disk /\ mem' = mem
        /\ config' = config /\ live' = live /\ UNCHANGED <<settings, clock>>
    BY <1>8 DEF StartCycle, stores
  <2>2. Covered(disk, config, live, rates') /\ Covered(mem, config, live, rates')
    BY <1>2, <1>3, <1>4, <2>1, CoveredKept
  <2> QED BY <1>1, <2>1, <2>2, AccountsStand DEF settings, clock
<1>9. CASE Bill
  <2>1. Follows(mem, Rebilled(mem))
    BY <1>1, RebilledFollows
  <2>2. ASSUME NEW u \in Flagged PROVE Rebilled(mem).users[u] = mem.users[u]
    BY <1>1 DEF Rebilled, State, Flagged, Due
  <2> QED BY <1>1, <1>2, <1>5, <1>9, <2>1, <2>2, Evaluated DEF Bill, settings, clock
<1>10. CASE Judge
  <2>1. PICK sample \in Samples, crowd \in SUBSET Limited, heavy \in SUBSET Protected :
          LET counted == Crowded(Recovered(sample), crowd)
          IN /\ mem' = Queued(mem, BurstJudged(counted, heavy)) /\ disk' = mem'
             /\ elapsed' = elapsed \ Offending(counted, heavy)
    BY <1>10 DEF Judge
  <2> DEFINE recovered == Recovered(sample)
             counted == Crowded(recovered, crowd)
             judged == BurstJudged(counted, heavy)
  <2>2. sample \in State /\ Follows(mem, sample)
    BY <1>1, SampleType, SampleFollows
  <2>3. recovered \in State /\ Follows(sample, recovered)
    BY <2>2, RecoveredType, RecoveredFollows
  <2> HIDE DEF recovered
  <2>4. counted \in State /\ Follows(recovered, counted)
    BY <2>3, CrowdedType, CrowdedFollows
  <2> HIDE DEF counted
  <2>5. judged \in State /\ Follows(counted, judged)
    BY <2>4, BurstJudgedType, BurstJudgedFollows
  <2>6. Offending(counted, heavy) # {} => judged.burst
    BY <2>4 DEF BurstJudged, State
  <2> HIDE DEF judged
  <2>7. mem' = Queued(mem, judged) /\ disk' = mem' /\ elapsed' = elapsed \ Offending(counted, heavy)
    BY <2>1 DEF recovered, counted, judged
  <2>8. Follows(mem, mem')
    BY <2>2, <2>3, <2>4, <2>5, <2>7, QueuedFollows, FollowsTransitive
  <2>9. \A u \in Flagged : Stage(mem.users[u], u) # Stage(mem'.users[u], u) => mem'.rate
    BY <2>5, <2>7 DEF Queued, Restaged, State, Flagged
  <2>10. mem'.burst \/ elapsed' = elapsed
    BY <2>5, <2>6, <2>7 DEF Queued, State
  <2> QED BY <1>1, <1>2, <1>5, <1>10, <2>7, <2>8, <2>9, <2>10, Evaluated DEF Judge, settings
<1>11. CASE EvaluationNotSaved
  BY <1>7, <1>11 DEF EvaluationNotSaved, kernel
<1>12. CASE NothingToApply
  BY <1>1, <1>2, <1>12, AccountsStand DEF NothingToApply, stores, kernel, settings, clock
<1>13. CASE Apply
  <2>1. ASSUME NEW flags, NEW next \in {"confirm", "lastSave"}, Installed(flags, next)
        PROVE  IInv'
    <3>1. mem'.users = mem.users /\ disk' = disk /\ pc' # "idle"
      BY <1>1, <2>1 DEF Installed, State
    <3>2. Covered(disk', config', live', rates') /\ Covered(mem', config', live', rates')
      BY <1>1, <2>1, <3>1, CoveredApplied DEF Installed
    <3> QED BY <1>1, <2>1, <3>1, <3>2, AccountsStand DEF Installed, settings, clock
  <2> QED BY <1>13, <2>1 DEF Apply
<1>14. CASE ApplyFails
  <2>1. CASE pc = "apply"
    <3>1. /\ config' \in {config, Served(mem)} /\ live' = live
          /\ rates' \in {rates, Speed(mem)} /\ mem' = mem /\ disk' = disk /\ pc' = "rate"
      BY <1>14, <2>1 DEF ApplyFails
    <3>2. Covered(disk, config', live', rates') /\ Covered(mem, config', live', rates')
      BY <1>2, <1>3, <1>4, <3>1, CoveredKept
    <3> QED BY <1>1, <1>14, <3>1, <3>2, AccountsStand DEF ApplyFails, settings, clock
  <2>2. CASE pc # "apply"
    BY <1>7, <1>14, <2>2 DEF ApplyFails
  <2> QED BY <2>1, <2>2
<1>15. CASE Confirm
  <2>1. disk' \in {mem, disk} /\ UNCHANGED <<kernel, settings, clock>>
    BY <1>15 DEF Confirm
  <2>2. mem' \in {mem, disk'} /\ (pc' = "idle" => mem' = disk')
    <3>1. pc # "lastSave" => pc' \in {"rate", "enforce"}
      BY <1>15, AfterSaveSteps DEF Confirm
    <3> QED BY <1>15, <3>1 DEF Confirm, Return
  <2> QED BY <1>1, <1>2, <2>1, <2>2, AccountsStand DEF kernel, settings, clock
<1>16. CASE Refresh
  <2>1. /\ rates' = Speed(mem) /\ mem' = [mem EXCEPT !.rate = FALSE] /\ pc' # "idle"
        /\ disk' = disk /\ config' = config /\ live' = live /\ UNCHANGED <<settings, clock>>
    BY <1>16 DEF Refresh
  <2>2. mem'.users = mem.users /\ mem'.stats = mem.stats /\ mem'.burst = mem.burst
    BY <1>1, <2>1 DEF State
  <2>3. Covered(mem', config, live, rates')
    BY <1>2, <2>1, <2>2, CoveredRefreshed
  <2>4. Covered(disk, config, live, rates')
    BY <1>2, <1>3, <2>1, CoveredRefreshed
  <2> QED BY <1>1, <2>1, <2>2, <2>3, <2>4, AccountsStand DEF settings, clock
<1>17. CASE RefreshFails
  <2>1. CASE pc = "rate"
    BY <1>1, <1>2, <1>17, <2>1, AccountsStand DEF RefreshFails, kernel, settings, clock
  <2>2. CASE pc # "rate"
    BY <1>7, <1>17, <2>2 DEF RefreshFails, kernel
  <2> QED BY <2>1, <2>2
<1>18. CASE NoRefresh
  BY <1>1, <1>2, <1>18, AccountsStand DEF NoRefresh, stores, kernel, settings, clock
<1>19. CASE Enforce
  <2>1. CASE mem.stats \/ ~Disabled(disk).stats
    BY <1>7, <1>19, <2>1 DEF Enforce, kernel
  <2>2. CASE ~(mem.stats \/ ~Disabled(disk).stats)
    <3>1. mem' = Disabled(disk) /\ disk' = mem' /\ UNCHANGED <<kernel, settings, clock>>
      BY <1>19, <2>2 DEF Enforce
    <3>2. Follows(disk, mem')
      BY <1>1, <3>1, DisabledFollows
    <3>3. ASSUME NEW u \in User PROVE mem'.users[u].used = disk.users[u].used
      BY <1>1, <3>1, DisabledUser
    <3>4. \A u \in Flagged : Stage(disk.users[u], u) = Stage(mem'.users[u], u)
      BY <3>3 DEF Stage, Flagged
    <3> QED BY <1>1, <1>2, <1>5, <3>1, <3>2, <3>4, Evaluated DEF settings, clock
  <2> QED BY <2>1, <2>2
<1>20. CASE EnforcementNotSaved
  BY <1>7, <1>20 DEF EnforcementNotSaved, kernel
<1>21. CASE RealtimeCycle
  <2>1. mem = disk
    BY <1>21 DEF RealtimeCycle, IInv, Agree
  <2>2. PICK sample \in Samples : mem' = Queued(disk, sample) /\ disk' = mem'
    BY <1>21 DEF RealtimeCycle
  <2>3. sample \in State /\ Follows(mem, sample)
    BY <1>1, SampleType, SampleFollows
  <2>4. Follows(mem, mem')
    BY <2>2, <2>3, QueuedFollows, FollowsTransitive
  <2>5. \A u \in Flagged : Stage(mem.users[u], u) # Stage(mem'.users[u], u) => mem'.rate
    BY <2>1, <2>2, <2>3 DEF Queued, Restaged, State, Flagged
  <2> QED BY <1>1, <1>2, <1>5, <1>21, <2>2, <2>4, <2>5, Evaluated DEF RealtimeCycle, settings, clock
<1>22. CASE ApplyCommand
  BY <1>1, <1>2, <1>22, AccountsStand DEF ApplyCommand, stores, kernel, settings, clock
<1>23. ASSUME NEW u \in User, ResetTraffic(u) PROVE IInv'
  <2>1. api
    BY <1>1, <1>23 DEF ResetTraffic, TypeOK
  <2>2. disk' = mem' /\ UNCHANGED <<kernel, settings, clock>>
    BY <1>23 DEF ResetTraffic
  <2>3. /\ Follows(disk, mem')
        /\ \A v \in Flagged : Stage(disk.users[v], v) # Stage(mem'.users[v], v) => mem'.rate
    BY <1>1, <1>5, <1>23, <2>1, ResetFollows
  <2>4. UNCHANGED <<api, hard, expired, elapsed, kernel>>
    BY <2>2 DEF settings, clock
  <2> QED BY <1>1, <1>2, <1>5, <2>2, <2>3, <2>4, Evaluated
<1>24. ASSUME NEW u \in User, Unblock(u) PROVE IInv'
  <2>1. mem' = [disk EXCEPT !.users[u].blocked = FALSE, !.burst = TRUE] /\ disk' = mem'
    BY <1>24 DEF Unblock
  <2>2. ASSUME NEW v \in User
        PROVE  /\ mem'.users[v].held = disk.users[v].held
               /\ mem'.users[v].enabled = disk.users[v].enabled
               /\ mem'.users[v].used = disk.users[v].used
    <3>1. /\ mem'.users[u] = [disk.users[u] EXCEPT !.blocked = FALSE]
          /\ v # u => mem'.users[v] = disk.users[v]
      BY <1>1, <2>1 DEF State
    <3>2. disk.users[u] \in Account
      BY <1>1, UserType
    <3>3. \A a \in Account : LET b == [a EXCEPT !.blocked = FALSE]
            IN b.held = a.held /\ b.enabled = a.enabled /\ b.used = a.used
      BY DEF Account
    <3> QED BY <3>1, <3>2, <3>3
  <2>3. mem'.burst /\ (disk.stats => mem'.stats) /\ (disk.rate => mem'.rate)
    BY <1>1, <2>1 DEF State
  <2>4. Follows(disk, mem')
    BY <2>2, <2>3 DEF Follows, Carries, FlagsKept, Clean, OverQuota, Flagged
  <2>5. \A v \in Flagged : Stage(disk.users[v], v) = Stage(mem'.users[v], v)
    BY <2>2 DEF Stage, Flagged
  <2> QED BY <1>1, <1>2, <1>5, <1>24, <2>1, <2>4, <2>5, Evaluated DEF Unblock, settings, clock
<1>25. ASSUME NEW u \in User, Expire(u) PROVE IInv'
  <2>1. expired' = expired \cup {u} /\ UNCHANGED <<stores, pc, kernel, settings, elapsed>>
    BY <1>25 DEF Expire
  <2> QED BY <1>1, <1>2, <1>5, <2>1, ClockMoves
          DEF IInv, Agree, Clean, stores, kernel, settings
<1>26. ASSUME NEW u \in User, BlockElapses(u) PROVE IInv'
  <2>1. /\ disk.users[u].blocked /\ elapsed' = elapsed \cup {u}
        /\ UNCHANGED <<stores, pc, kernel, settings, expired>>
    BY <1>26 DEF BlockElapses
  <2> QED BY <1>1, <1>2, <1>5, <2>1, ClockMoves
          DEF IInv, Agree, Clean, stores, kernel, settings
<1>27. ASSUME NEW u \in User, HoldElapses(u) \/ PeriodEnds(u) PROVE IInv'
  BY <1>1, <1>2, <1>27, AccountsStand
     DEF IInv, Agree, HoldElapses, PeriodEnds, stores, kernel, settings
<1>28. CASE Crash
  BY <1>7, <1>28 DEF Crash
<1>29. CASE Reboot
  BY <1>7, <1>29 DEF Reboot
<1> QED BY <1>6, <1>8, <1>9, <1>10, <1>11, <1>12, <1>13, <1>14, <1>15, <1>16, <1>17, <1>18,
           <1>19, <1>20, <1>21, <1>22, <1>23, <1>24, <1>25, <1>26, <1>27, <1>28, <1>29
        DEF Next, CycleStep, Command, Time

\* The strengthened invariant, for the two theorems below
LEMMA IInvCorrect == ASSUME Resettable \subseteq {TRUE} PROVE Spec => []IInv
<1>1. IInv /\ [Next]_vars => IInv'
  BY IInvStep
<1> QED BY <1>1, IInvInit, PTL DEF Spec

\* EligibilityRetried is an invariant: whom sing-box serves and whom the stored
\* state serves never differ without something that makes a later cycle apply,
\* if an operator resets traffic only where the stats API measures.
THEOREM EligibilityIsRetried ==
  ASSUME Resettable \subseteq {TRUE} PROVE Spec => []EligibilityRetried
<1>1. IInv => EligibilityRetried
  BY DEF IInv, Covered, EligibilityRetried
<1> QED BY <1>1, IInvCorrect, PTL

\* RatesRetried is an invariant: the same for the speeds nftables holds.
THEOREM RatesAreRetried ==
  ASSUME Resettable \subseteq {TRUE} PROVE Spec => []RatesRetried
<1>1. IInv => RatesRetried
  BY DEF IInv, Covered, RatesRetried, CoversRates
<1> QED BY <1>1, IInvCorrect, PTL
===============================================================================
