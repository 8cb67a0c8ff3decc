--------------------------- MODULE PolicyDaemonProps ---------------------------
(***************************************************************************)
(* What the daemon promises about the policies it enforces: whatever it    *)
(* decides and stores also takes effect, whichever save, apply or process  *)
(* fails in between.                                                       *)
(***************************************************************************)
EXTENDS PolicyDaemon

\* Type invariant of the stored state, the running operation, the kernel's
\* view and the clock.
TypeOK ==
  /\ disk \in State /\ mem \in State
  /\ pc \in {"idle", "bill", "judge", "apply", "confirm", "rate", "rateSave", "enforce",
             "enforceApply", "fullApply", "fullRate", "unblockApply", "lastSave"}
  /\ due \in BOOLEAN /\ api \in BOOLEAN /\ hard \subseteq Protected
  /\ config \subseteq User /\ live \subseteq User
  /\ rates \in [User -> 0 .. 4]
  /\ {expired, elapsed, calm} \subseteq SUBSET User
  /\ period \in [User -> 0 .. MaxPeriod]
  /\ faults \in 0 .. MaxFaults

\* Users whose policies all set a pending flag with what they decide
Flagged == User \ (Limited \cup Billed)

\* What makes a later cycle apply a state: a flag, or what a cycle finds by
\* looking at it, a user who must be disabled or a block that is over
Noticed(s, u) == u \in Lapsed(s) \cup Released(s)
Retried(s, u) == s.stats \/ s.burst \/ Noticed(s, u)

Covers(s, served) ==
  \A u \in Flagged : (u \in served) # (u \in Served(s)) => Retried(s, u)
CoversRates(s) ==
  \A u \in Flagged : rates[u] \notin {NoTable[u], Speed(s)[u]} => s.rate \/ Retried(s, u)

\* If sing-box serves a user whom the stored state does not, or the reverse,
\* then a stored flag or the state itself makes a later cycle apply it, at
\* every moment at which the process may die (daemonCycleLocked,
\* realtimeCycleLocked, enforceCmdLocked).
EligibilityRetried == Covers(disk, live)

\* The same for the speed nftables holds a user to, unless the table is gone,
\* which each cycle looks for.
RatesRetried == CoversRates(disk)

\* Every pending flag is cleared in the end: a failed apply is retried, a lost
\* confirmation is repeated (daemonCycleLocked).
PendingClears ==
  /\ disk.stats ~> ~disk.stats
  /\ disk.burst ~> ~disk.burst
  /\ disk.rate ~> ~disk.rate

\* A temporary block or hold whose time is over is lifted in the stored state
\* (evaluateBurstPolicies, recoverConnectionBlocks), also if the user is
\* disabled for another reason, or the daemon fails, in the meantime.
PenaltyEnds ==
  \A u \in User : /\ u \in Released(disk) ~> u \notin Released(disk)
                  /\ u \in Recovering(disk) ~> u \notin Recovering(disk)

\* What docs/POLICIES.md:17 says of all that happens automatically: a failed
\* apply is retried, so that sing-box does not differ from the stored state for
\* ever (evaluateBillingCycles, evaluateConnectionPolicies). It does not hold
\* (README, Disagreements).
EveryPenaltyLands ==
  \A u \in User : (u \in live) # (u \in Served(disk)) ~> (u \in live) = (u \in Served(disk))
===============================================================================
