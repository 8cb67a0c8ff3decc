----------------------------- MODULE UsageCounters -----------------------------
(* Traffic accounting: the bytes a node is charged are differences of         *)
(* cumulative counters, kept per rate mark by nftables or, when a statistics  *)
(* API is configured, per auth_user by sing-box (usage.go, stats.go, rate.go).*)
(* The kernel's table is replaced as a whole and put back when an apply       *)
(* fails; marks and names of deleted nodes are given again; the State keeps   *)
(* the last reading of every counter, and never forgets one.                  *)
(*                                                                            *)
(* Commands and the daemon hold the state lock from load to save, so only     *)
(* traffic, the service manager and a crash come between two steps of one.    *)
(* A user is its node, upload and download are one counter, and the counters  *)
(* that nobody reads under the other source are left out.                     *)
EXTENDS Integers, FiniteSets, Functions

CONSTANTS
    Node,
    MaxBytes,     \* bound: bytes carried
    MaxEdits,     \* bound: nodes made or deleted, and resets
    MaxTroubles   \* bound: failures, crashes, restarts and reboots

ASSUME CountersAssumption ==
    IsFiniteSet(Node) /\ Node # {} /\ MaxBytes \in Nat /\ MaxEdits \in Nat /\ MaxTroubles \in Nat

Mark == 1..Cardinality(Node)
Key == Mark \cup Node

VARIABLES
    source,     \* "nft", or "api" when stats_api is set: chosen by init
    mark,       \* the nodes of the State and their marks
    counters,   \* State.Counters: key -> the last reading, 0 if there is none
    used,       \* node -> its usage of this month
    table,      \* the kernel's table: whether it is there, and mark -> bytes
    sing,       \* node -> sing-box's counter, 0 while it has none
    file,       \* the written configuration: served nodes and their marks
    running,    \* the configuration sing-box runs
    proc,       \* the apply in progress
    sent,       \* key -> bytes ever carried under it
    billed,     \* key -> bytes ever charged from it
    since,      \* node -> bytes it carried since it was made or reset
    inherited,  \* nodes whose key was still in use when they were made
    edits, troubles

kernelVars == <<table, sing>>
configVars == <<file, running>>
stateVars == <<mark, counters, used>>
ghostVars == <<sent, billed, since, inherited>>
countersVars == <<source, stateVars, kernelVars, configVars, proc, ghostVars, edits, troubles>>

Present == DOMAIN mark
KeyOf(n) == IF source = "nft" THEN mark[n] ELSE n
NoMarks == [m \in {} |-> 0]
NoTable == [there |-> FALSE, bytes |-> NoMarks]
Idle == [at |-> "idle"]
Zero(S) == [x \in S |-> 0]

CountersInit ==
    /\ source \in {"nft", "api"}
    /\ mark = NoMarks /\ counters = Zero(Key) /\ used = Zero(Node)
    /\ table = NoTable /\ sing = Zero(Node)
    /\ file = NoMarks /\ running = NoMarks /\ proc = Idle
    /\ sent = Zero(Key) /\ billed = Zero(Key) /\ since = Zero(Node) /\ inherited = {}
    /\ edits = 0 /\ troubles = 0

Trouble == troubles < MaxTroubles /\ troubles' = troubles + 1
Edit == proc = Idle /\ edits < MaxEdits /\ edits' = edits + 1

-----------------------------------------------------------------------------
(* Traffic. *)

Total(f) == FoldFunction(+, 0, f)

\* A packet is counted by the rule of its mark, if there is one.
Carry(n) ==
    /\ n \in DOMAIN running /\ Total(sent) < MaxBytes
    /\ LET m == running[n]
           k == IF source = "nft" THEN m ELSE n
       IN  /\ sent' = [sent EXCEPT ![k] = @ + 1]
           /\ IF source = "api" THEN sing' = [sing EXCEPT ![n] = @ + 1] /\ UNCHANGED table
              ELSE /\ UNCHANGED sing
                   /\ table' = IF m \in DOMAIN table.bytes THEN [table EXCEPT !.bytes[m] = @ + 1] ELSE table
    /\ since' = [since EXCEPT ![n] = @ + 1]
    /\ UNCHANGED <<source, stateVars, configVars, proc, billed, inherited, edits, troubles>>

\* The service manager starts sing-box again, with what is written.
RestartService ==
    /\ Trouble /\ running' = file /\ sing' = Zero(Node)
    /\ UNCHANGED <<source, stateVars, table, file, proc, ghostVars, edits>>

Reboot ==
    /\ Trouble /\ running' = file /\ sing' = Zero(Node) /\ table' = NoTable /\ proc' = Idle
    /\ UNCHANGED <<source, stateVars, file, ghostVars, edits>>

-----------------------------------------------------------------------------
(* Sampling. *)

\* The counters that can be read: of rules by their marks, of users that moved
\* a byte since sing-box started.
NftReadings == table.bytes
ApiReadings == [n \in {n \in Node : sing[n] > 0} |-> sing[n]]
Readings == IF source = "nft" THEN NftReadings ELSE ApiReadings
Readable == source = "api" \/ table.there

\* A counter that went back was started again.
Delta(n, current) == IF current < counters[KeyOf(n)] THEN current ELSE current - counters[KeyOf(n)]

Sampled == {n \in Present : KeyOf(n) \in DOMAIN Readings}
Remembered(nodes) ==
    [k \in Key |-> IF \E n \in nodes : KeyOf(n) = k THEN Readings[k] ELSE counters[k]]

Added == [n \in Node |-> IF n \in Sampled THEN Delta(n, Readings[KeyOf(n)]) ELSE 0]

\* The daemon, or the command "sync", adds what was carried and saves.
Sync ==
    /\ proc = Idle /\ Readable
    /\ used' = [n \in Node |-> used[n] + Added[n]]
    /\ billed' = [k \in Key |-> billed[k] + LET of == {n \in Sampled : KeyOf(n) = k}
                                            IN  IF of = {} THEN 0 ELSE Added[CHOOSE n \in of : TRUE]]
    /\ counters' = Remembered(Sampled)
    /\ UNCHANGED <<source, mark, kernelVars, configVars, proc, sent, since, inherited, edits, troubles>>

\* Wrong variant: the readings of the past month are dropped with it.
Forgotten(n) == [counters EXCEPT ![KeyOf(n)] = 0]
\* snapshotUserTrafficCounterBaselines.
Baseline(n) == Remembered(Sampled \cap {n})

ResetTraffic(n) ==
    /\ Edit /\ n \in Present /\ Readable
    /\ counters' = Baseline(n)
    /\ used' = [used EXCEPT ![n] = 0] /\ since' = [since EXCEPT ![n] = 0]
    /\ UNCHANGED <<source, mark, kernelVars, configVars, proc, sent, billed, inherited, troubles>>

-----------------------------------------------------------------------------
(* Nodes. *)

FreeMark == CHOOSE m \in Mark \ Range(mark) : \A l \in Mark \ Range(mark) : m <= l
\* What still counts under the key of a node that is gone.
InUse(n, m) ==
    \/ source = "nft" /\ m \in DOMAIN table.bytes \cup Range(file) \cup Range(running)
    \/ source = "api" /\ (n \in DOMAIN file \cup DOMAIN running \/ sing[n] > 0)

CreateNode(n) ==
    /\ Edit /\ n \notin Present
    /\ mark' = [x \in Present \cup {n} |-> IF x = n THEN FreeMark ELSE mark[x]]
    /\ used' = [used EXCEPT ![n] = 0] /\ since' = [since EXCEPT ![n] = 0]
    /\ inherited' = IF InUse(n, FreeMark) THEN inherited \cup {n} ELSE inherited \ {n}
    /\ UNCHANGED <<source, counters, kernelVars, configVars, proc, sent, billed, troubles>>

\* Wrong variant: the readings go with the node.
KeptOfOthers(n) == [counters EXCEPT ![KeyOf(n)] = 0]
Kept(n) == counters

DeleteNode(n) ==
    /\ Edit /\ n \in Present
    /\ mark' = Restrict(mark, Present \ {n})
    /\ counters' = Kept(n)
    /\ used' = [used EXCEPT ![n] = 0] /\ since' = [since EXCEPT ![n] = 0] /\ inherited' = inherited \ {n}
    /\ UNCHANGED <<source, kernelVars, configVars, proc, sent, billed, troubles>>

-----------------------------------------------------------------------------
(* applyState and applyRateLimits, from the rendered rules on. *)

\* applyState keeps a copy of the table, with its counters. full: with the
\* configuration; otherwise only the rules.
BeginApply(full) ==
    /\ proc = Idle
    /\ proc' = [at |-> "captured", full |-> full, snapshot |-> table]
    /\ UNCHANGED <<source, stateVars, kernelVars, configVars, ghostVars, edits, troubles>>

\* The rules are rendered with the counters of the moment.
ReadCounters ==
    /\ proc.at = "captured"
    /\ proc' = [at |-> "read", full |-> proc.full, snapshot |-> proc.snapshot, live |-> table.bytes]
    /\ UNCHANGED <<source, stateVars, kernelVars, configVars, ghostVars, edits, troubles>>

\* Wrong variant: a rule that was not there starts at nothing.
InitialOfLive(m) == IF m \in DOMAIN proc.live THEN proc.live[m] ELSE 0
InitialCounter(m) == IF m \in DOMAIN proc.live THEN proc.live[m] ELSE counters[m]
Rendered == [there |-> Present # {}, bytes |-> [m \in Range(mark) |-> InitialCounter(m)]]

\* One transaction of nft deletes the table and makes it again.
InstallRules ==
    /\ proc.at = "read"
    /\ table' = Rendered
    /\ proc' = IF proc.full THEN [at |-> "installed", snapshot |-> proc.snapshot] ELSE Idle
    /\ UNCHANGED <<source, stateVars, sing, configVars, ghostVars, edits, troubles>>

InstallFails ==
    /\ proc.at = "read" /\ Trouble
    /\ proc' = IF proc.full THEN [at |-> "restoring", snapshot |-> proc.snapshot, reload |-> FALSE] ELSE Idle
    /\ UNCHANGED <<source, stateVars, kernelVars, configVars, ghostVars, edits>>

WriteConfiguration ==
    /\ proc.at = "installed"
    /\ file' = mark
    /\ proc' = [at |-> "written", snapshot |-> proc.snapshot, old |-> file]
    /\ UNCHANGED <<source, stateVars, kernelVars, running, ghostVars, edits, troubles>>

WriteFails ==
    /\ proc.at = "installed" /\ Trouble
    /\ proc' = [at |-> "restoring", snapshot |-> proc.snapshot, reload |-> FALSE]
    /\ UNCHANGED <<source, stateVars, kernelVars, configVars, ghostVars, edits>>

\* A changed set of marks takes a restart; a reload may keep the counters.
Reload(restarted) ==
    /\ proc.at = "written" /\ (Range(proc.old) # Range(mark) => restarted)
    /\ running' = file /\ proc' = Idle
    /\ sing' = IF restarted THEN Zero(Node) ELSE sing
    /\ UNCHANGED <<source, stateVars, table, file, ghostVars, edits, troubles>>

\* sing-box is down, or the old or the new configuration still runs.
ReloadFails(now) ==
    /\ proc.at = "written" /\ Trouble
    /\ file' = proc.old /\ running' = now /\ sing' = IF now = running THEN sing ELSE Zero(Node)
    /\ proc' = [at |-> "restoring", snapshot |-> proc.snapshot, reload |-> TRUE]
    /\ UNCHANGED <<source, stateVars, table, ghostVars, edits>>

\* restoreNftRateSnapshot; the old configuration is loaded again, or is not.
Restore(restored, up) ==
    /\ proc.at = "restoring"
    /\ (~restored \/ (proc.reload /\ ~up)) => troubles < MaxTroubles
    /\ troubles' = IF restored /\ (up \/ ~proc.reload) THEN troubles ELSE troubles + 1
    /\ table' = IF restored THEN proc.snapshot ELSE table
    /\ running' = IF proc.reload /\ up THEN file ELSE running
    /\ sing' = IF proc.reload /\ up THEN Zero(Node) ELSE sing
    /\ proc' = Idle
    /\ UNCHANGED <<source, stateVars, file, ghostVars, edits>>

Crash ==
    /\ Trouble /\ proc # Idle /\ proc' = Idle
    /\ UNCHANGED <<source, stateVars, kernelVars, configVars, ghostVars, edits>>

\* apply --no-reload.
WriteOnly ==
    /\ proc = Idle /\ file' = mark
    /\ UNCHANGED <<source, stateVars, kernelVars, running, proc, ghostVars, edits, troubles>>

CountersNext ==
    \/ \E n \in Node : Carry(n) \/ ResetTraffic(n) \/ CreateNode(n) \/ DeleteNode(n)
    \/ Sync \/ WriteOnly \/ RestartService \/ Reboot \/ Crash
    \/ \E full \in BOOLEAN : BeginApply(full)
    \/ ReadCounters \/ InstallRules \/ InstallFails \/ WriteConfiguration \/ WriteFails
    \/ \E now \in {NoMarks, running, file} : ReloadFails(now)
    \/ \E restarted \in BOOLEAN : Reload(restarted)
    \/ \E restored, up \in BOOLEAN : Restore(restored, up)

CountersSpec == CountersInit /\ [][CountersNext]_countersVars

-----------------------------------------------------------------------------
(* Properties. *)

\* A byte that crossed a counter is charged at most once, whoever holds its
\* key: over replaced, restored and lost tables, restarts of sing-box, resets
\* of the month, and keys that are given to another node (usage.go:131-134).
ChargedOnce == \A k \in Key : billed[k] <= sent[k]

\* A node pays only for what it carried itself since it was made, or since its
\* usage was reset: the key it was given may have counted a deleted node's bytes
\* before, unless these still counted when it was made (rate.go:171).
PaysItsOwn == \A n \in Present : n \in inherited \/ used[n] <= since[n]

\* A rule never counts from below the State's reading of it: otherwise what
\* it counts until it is past that reading would be charged to nobody
\* (initialNftCounter, restoreNftRateSnapshot).
NeverBehind ==
    source = "nft" => \A n \in Present : mark[n] \in DOMAIN table.bytes => counters[mark[n]] <= table.bytes[mark[n]]
=============================================================================
