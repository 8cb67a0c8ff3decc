-------------------------- MODULE UsageCountersProofs --------------------------
(***************************************************************************)
(* Proofs about the accounting of traffic: for any nodes, and any number   *)
(* of bytes, edits, failures, crashes, restarts and reboots.               *)
(***************************************************************************)
EXTENDS UsageCounters, FiniteSetTheorems, FunctionTheorems, WellFoundedInduction, TLAPS

(***************************************************************************)
(* The inductive invariant                                                 *)
(***************************************************************************)
Stages == {"idle", "captured", "read", "installed", "written", "restoring"}
IsBytes(b) == DOMAIN b \subseteq Mark /\ \A m \in DOMAIN b : b[m] \in Nat
IsTable(t) == {"there", "bytes"} \subseteq DOMAIN t /\ IsBytes(t.bytes)
IsConfig(c) == DOMAIN c \subseteq Node /\ \A n \in DOMAIN c : c[n] \in Mark

Types ==
  /\ source \in {"nft", "api"}
  /\ mark \in [Present -> Mark] /\ IsConfig(mark)
  /\ counters \in [Key -> Nat] /\ sent \in [Key -> Nat] /\ billed \in [Key -> Nat]
  /\ used \in [Node -> Nat] /\ since \in [Node -> Nat]
  /\ sing \in [Node -> Nat] /\ IsTable(table)
  /\ IsConfig(file) /\ IsConfig(running)

\* An apply remembers the table it may have to put back, the counters it
\* renders, the file it may have to restore.
ProcShape ==
  /\ "at" \in DOMAIN proc /\ proc.at \in Stages /\ (proc.at = "idle" => proc = Idle)
  /\ proc.at # "idle" => "snapshot" \in DOMAIN proc /\ IsTable(proc.snapshot)
  /\ proc.at \in {"captured", "read"} => "full" \in DOMAIN proc
  /\ proc.at = "read" => "live" \in DOMAIN proc /\ IsBytes(proc.live)
  /\ proc.at = "written" => "old" \in DOMAIN proc /\ IsConfig(proc.old)

\* No two nodes of the State have one mark.
MarksDiffer == \A n, o \in Present : mark[n] = mark[o] => n = o

\* The bytes of all marks that are counted or may come to be again: in the
\* table, in the copy to put back, in the rules being rendered.
Tables ==
  {table.bytes} \cup (IF proc.at # "idle" THEN {proc.snapshot.bytes} ELSE {})
    \cup (IF proc.at = "read" THEN {proc.live} ELSE {})
\* The configurations that run or may come to run without another apply.
Configs == {file, running} \cup (IF proc.at = "written" THEN {proc.old} ELSE {})

\* What is still to be charged of counter k if it is read as c.
Due(k, c) == IF c < counters[k] THEN c ELSE c - counters[k]

\* All that was charged and all that would be were carried; and a rule is
\* never behind what the State has read of it.
FitsTable(b) == \A m \in DOMAIN b : counters[m] <= b[m] /\ billed[m] + Due(m, b[m]) <= sent[m]
Fits ==
  /\ \A k \in Key : billed[k] <= sent[k]
  /\ source = "nft" => \A b \in Tables : FitsTable(b)
  /\ source = "api" => \A n \in Node : billed[n] + Due(n, sing[n]) <= sent[n]

\* The same for each node whose key nobody used any more when it was made.
Heirless == Present \ inherited
OwnsTable(b) ==
  \A n \in Heirless : mark[n] \in DOMAIN b => used[n] + Due(mark[n], b[mark[n]]) <= since[n]
Owns ==
  /\ \A n \in Heirless : used[n] <= since[n]
  /\ source = "nft" => \A b \in Tables : OwnsTable(b)
  /\ source = "api" => \A n \in Heirless : used[n] + Due(n, sing[n]) <= since[n]

\* Nobody else carries bytes under the mark of such a node.
Sole(c) == \A n \in Heirless : \A o \in DOMAIN c : c[o] = mark[n] => o = n
SoleMarks == source = "nft" => \A c \in Configs : Sole(c)

IInv == Types /\ ProcShape /\ MarksDiffer /\ Fits /\ Owns /\ SoleMarks

LEMMA NodesCounted == Cardinality(Node) \in Nat /\ IsFiniteSet(Mark) /\ Cardinality(Mark) = Cardinality(Node)
<1>1. Cardinality(Node) \in Nat
  BY CountersAssumption, FS_CardinalityType
<1> QED BY <1>1, FS_Interval DEF Mark

LEMMA InitInv == CountersInit => IInv
<1> SUFFICES ASSUME CountersInit PROVE IInv
  OBVIOUS
<1> USE DEF CountersInit, Zero, NoMarks, NoTable, Idle, Present
<1>1. Types
  BY NodesCounted DEF Types, IsConfig, IsTable, IsBytes
<1>2. ProcShape /\ MarksDiffer
  BY DEF ProcShape, Stages, MarksDiffer
<1>3. Fits /\ Owns /\ SoleMarks
  BY DEF Fits, FitsTable, Owns, OwnsTable, SoleMarks, Sole, Tables, Configs, Heirless, Due, Key
<1> QED BY <1>1, <1>2, <1>3 DEF IInv

(***************************************************************************)
(* Every value is of its type                                              *)
(***************************************************************************)
\* There is a mark for every node of the State, and the least free one is free.
LEMMA FreeMarkIsFree ==
  ASSUME Types, NEW n \in Node, n \notin Present
  PROVE  FreeMark \in Mark /\ \A o \in Present : mark[o] # FreeMark
<1> DEFINE Free == Mark \ Range(mark)
<1>1. Free # {}
  <2>1. Range(mark) \subseteq Mark /\ mark \in Surjection(Present, Range(mark))
    BY Fun_RangeProperties DEF Types
  <2>2. /\ IsFiniteSet(Node \ {n}) /\ Cardinality(Node \ {n}) = Cardinality(Node) - 1
    BY CountersAssumption, FS_RemoveElement
  <2>3. Present \subseteq Node \ {n}
    BY DEF Types, IsConfig, Present
  <2>4. IsFiniteSet(Present) /\ Cardinality(Present) <= Cardinality(Node) - 1
    BY <2>2, <2>3, FS_Subset
  <2>5. Cardinality(Range(mark)) <= Cardinality(Present) /\ IsFiniteSet(Range(mark))
    BY <2>1, <2>4, FS_Surjection
  <2>6. Cardinality(Present) \in Nat /\ Cardinality(Range(mark)) \in Nat
    BY <2>4, <2>5, FS_CardinalityType
  <2>7. Range(mark) # Mark
    BY <2>4, <2>5, <2>6, NodesCounted
  <2> QED BY <2>1, <2>7
<1>2. Free \subseteq Nat
  BY NodesCounted DEF Mark
<1>3. PICK m \in Free : \A l \in Free : <<l, m>> \notin OpToRel(<, Nat)
  BY <1>1, <1>2, WFMin, NatLessThanWellFounded
<1>4. \A l \in Free : m <= l
  <2>1. OpToRel(<, Nat) = {p \in Nat \X Nat : p[1] < p[2]}
    BY DEF OpToRel
  <2>2. \A l \in Free : ~(l < m)
    BY <1>2, <1>3, <2>1
  <2> QED BY <1>2, <2>2
<1>5. FreeMark \in Free
  BY <1>4 DEF FreeMark
<1> QED BY <1>5 DEF Range, Present

LEMMA RenderedIsTable ==
  ASSUME IInv, proc.at = "read" PROVE IsTable(Rendered)
<1>1. Range(mark) \subseteq Mark
  BY DEF IInv, Types, Range, Present
<1>2. \A m \in Mark : InitialCounter(m) \in Nat
  BY DEF IInv, Types, ProcShape, IsBytes, InitialCounter, Key
<1> QED BY <1>1, <1>2 DEF Rendered, IsTable, IsBytes

LEMMA DueIsNat ==
  ASSUME Types, NEW k \in Key, NEW c \in Nat PROVE Due(k, c) \in Nat
BY DEF Types, Due

LEMMA TypesKept == ASSUME IInv, [CountersNext]_countersVars PROVE Types'
<1> USE DEF IInv, Types, stateVars, kernelVars, configVars, ghostVars
<1>1. ASSUME NEW n \in Node, Carry(n) PROVE Types'
  <2>1. /\ UNCHANGED <<source, stateVars, configVars, billed>> /\ since' \in [Node -> Nat]
    BY <1>1 DEF Carry
  <2>2. running[n] \in Key /\ n \in Key
    BY <1>1 DEF Carry, IsConfig, Key
  <2>3. sent' \in [Key -> Nat]
    BY <1>1, <2>2 DEF Carry
  <2>4. sing' \in [Node -> Nat]
    BY <1>1 DEF Carry
  <2>5. IsTable(table')
    <3>1. CASE table' = table
      BY <3>1
    <3>2. CASE running[n] \in DOMAIN table.bytes /\ table' = [table EXCEPT !.bytes[running[n]] = @ + 1]
      BY <3>2 DEF IsTable, IsBytes
    <3> QED BY <1>1, <3>1, <3>2 DEF Carry
  <2> QED BY <2>1, <2>3, <2>4, <2>5 DEF Present
<1>2. CASE Sync
  <2>1. \A n \in Sampled : KeyOf(n) \in Key /\ Readings[KeyOf(n)] \in Nat
    BY DEF Sampled, KeyOf, Key, Readings, NftReadings, ApiReadings, IsTable, IsBytes, Present
  <2>2. Added \in [Node -> Nat]
    BY <2>1 DEF Added, Delta
  <2>3. Remembered(Sampled) \in [Key -> Nat]
    BY <2>1 DEF Remembered
  <2>4. used' \in [Node -> Nat] /\ counters' \in [Key -> Nat]
    BY <1>2, <2>2, <2>3 DEF Sync
  <2>5. billed' \in [Key -> Nat]
    <3>1. ASSUME NEW k \in Key
          PROVE LET of == {n \in Sampled : KeyOf(n) = k}
                IN  (IF of = {} THEN 0 ELSE Added[CHOOSE n \in of : TRUE]) \in Nat
      BY <2>2 DEF Sampled, Present, IsConfig
    <3> QED BY <1>2, <3>1 DEF Sync
  <2> QED BY <1>2, <2>4, <2>5 DEF Sync, Present
<1>3. ASSUME NEW n \in Node, ResetTraffic(n) PROVE Types'
  <2>1. \A o \in Sampled : KeyOf(o) \in Key /\ Readings[KeyOf(o)] \in Nat
    BY DEF Sampled, KeyOf, Key, Readings, NftReadings, ApiReadings, IsTable, IsBytes, Present
  <2>2. counters' \in [Key -> Nat]
    BY <1>3, <2>1 DEF ResetTraffic, Baseline, Remembered
  <2> QED BY <1>3, <2>2 DEF ResetTraffic, Present
<1>4. ASSUME NEW n \in Node, CreateNode(n) PROVE Types'
  <2>1. FreeMark \in Mark
    BY <1>4, FreeMarkIsFree DEF CreateNode
  <2>2. mark' \in [Present' -> Mark] /\ IsConfig(mark')
    BY <1>4, <2>1 DEF CreateNode, Present, IsConfig
  <2> QED BY <1>4, <2>2 DEF CreateNode
<1>5. ASSUME NEW n \in Node, DeleteNode(n) PROVE Types'
  <2>1. mark' \in [Present' -> Mark] /\ IsConfig(mark')
    BY <1>5 DEF DeleteNode, Present, IsConfig, Restrict
  <2> QED BY <1>5, <2>1 DEF DeleteNode, Kept
<1>6. CASE InstallRules
  BY <1>6, RenderedIsTable DEF InstallRules, Present
<1>7. CASE WriteOnly \/ RestartService \/ Reboot \/ Crash
  BY <1>7 DEF WriteOnly, RestartService, Reboot, Crash, Present, Zero, NoTable, NoMarks, IsTable, IsBytes
<1>8. CASE ReadCounters \/ InstallFails \/ WriteConfiguration \/ WriteFails
  BY <1>8 DEF ReadCounters, InstallFails, WriteConfiguration, WriteFails, Present
<1>9. ASSUME NEW full \in BOOLEAN, BeginApply(full) PROVE Types'
  BY <1>9 DEF BeginApply, Present
<1>10. ASSUME NEW now \in {NoMarks, running, file}, ReloadFails(now) PROVE Types'
  <2>1. IsConfig(NoMarks)
    BY DEF IsConfig, NoMarks
  <2> QED BY <1>10, <2>1 DEF ReloadFails, Present, Zero, ProcShape
<1>11. ASSUME NEW restarted \in BOOLEAN, Reload(restarted) PROVE Types'
  BY <1>11 DEF Reload, Present, Zero
<1>12. ASSUME NEW restored \in BOOLEAN, NEW up \in BOOLEAN, Restore(restored, up) PROVE Types'
  BY <1>12 DEF Restore, Present, Zero, ProcShape
<1>13. CASE UNCHANGED countersVars
  BY <1>13 DEF countersVars, Present
<1> QED BY <1>1, <1>2, <1>3, <1>4, <1>5, <1>6, <1>7, <1>8, <1>9, <1>10, <1>11, <1>12, <1>13
    DEF CountersNext

LEMMA ProcShapeKept == ASSUME IInv, [CountersNext]_countersVars PROVE ProcShape'
<1> USE DEF IInv, Types, ProcShape, Stages, Idle
<1>1. ASSUME UNCHANGED proc PROVE ProcShape'
  BY <1>1
<1>2. ASSUME proc' = Idle PROVE ProcShape'
  BY <1>2
<1>3. ASSUME NEW full \in BOOLEAN, BeginApply(full) PROVE ProcShape'
  BY <1>3 DEF BeginApply
<1>4. CASE ReadCounters
  BY <1>4 DEF ReadCounters, IsTable
<1>5. CASE InstallRules
  BY <1>5 DEF InstallRules
<1>6. CASE InstallFails \/ WriteFails
  BY <1>6 DEF InstallFails, WriteFails
<1>7. CASE WriteConfiguration
  BY <1>7 DEF WriteConfiguration
<1>8. ASSUME NEW now, ReloadFails(now) PROVE ProcShape'
  BY <1>8 DEF ReloadFails
<1>9. ASSUME NEW n \in Node, Carry(n) \/ ResetTraffic(n) \/ CreateNode(n) \/ DeleteNode(n)
      PROVE  UNCHANGED proc
  BY <1>9 DEF Carry, ResetTraffic, CreateNode, DeleteNode
<1>10. ASSUME Sync \/ WriteOnly \/ RestartService PROVE UNCHANGED proc
  BY <1>10 DEF Sync, WriteOnly, RestartService
<1>11. ASSUME Reboot \/ Crash \/ (\E restarted \in BOOLEAN : Reload(restarted))
         \/ (\E restored, up \in BOOLEAN : Restore(restored, up))
       PROVE  proc' = Idle
  BY <1>11 DEF Reboot, Crash, Reload, Restore
<1>12. CASE UNCHANGED countersVars
  BY <1>12 DEF countersVars
<1> QED BY <1>1, <1>2, <1>3, <1>4, <1>5, <1>6, <1>7, <1>8, <1>9, <1>10, <1>11, <1>12
    DEF CountersNext

(***************************************************************************)
(* What is charged was carried                                             *)
(***************************************************************************)
Ledger == MarksDiffer /\ Fits /\ Owns /\ SoleMarks

\* Rules rendered from the live counters, or where there are none from what the
\* State remembers, count from where the last reading was.
LEMMA RenderedContinues ==
  ASSUME IInv, proc.at = "read", source = "nft"
  PROVE  FitsTable(Rendered.bytes) /\ OwnsTable(Rendered.bytes)
<1> USE DEF IInv, Types, Fits, Owns, FitsTable, OwnsTable, Due, InitialCounter
<1>1. proc.live \in Tables
  BY DEF Tables
<1>2. /\ DOMAIN Rendered.bytes = Range(mark) /\ Range(mark) \subseteq Mark
      /\ \A m \in Range(mark) : Rendered.bytes[m] = InitialCounter(m)
  BY DEF Rendered, Range, Present
<1>3. FitsTable(Rendered.bytes)
  BY <1>1, <1>2 DEF Key
<1>4. OwnsTable(Rendered.bytes)
  BY <1>1, <1>2 DEF Key, Heirless, Present, IsConfig
<1> QED BY <1>3, <1>4

\* A step that leaves the State and its readings alone, and counts from one of
\* the tables an apply remembers, from rendered rules, or from no rule at all;
\* sing-box goes on counting or starts again.
LEMMA QuietStep ==
  ASSUME IInv, UNCHANGED <<source, stateVars, ghostVars>>,
         \A b \in Tables' : \/ b \in Tables \cup {NoMarks}
                            \/ proc.at = "read" /\ b = Rendered.bytes,
         Configs' \subseteq Configs \cup {mark, NoMarks},
         sing' = sing \/ sing' = Zero(Node)
  PROVE  Ledger'
<1> USE DEF IInv, stateVars, ghostVars, Present, Heirless
<1>1. MarksDiffer'
  BY DEF MarksDiffer
<1>2. ASSUME source = "nft", NEW b \in Tables' PROVE FitsTable(b)' /\ OwnsTable(b)'
  <2>1. FitsTable(b) /\ OwnsTable(b)
    <3>1. CASE b = NoMarks
      BY <3>1 DEF NoMarks, FitsTable, OwnsTable
    <3> QED BY <1>2, <3>1, RenderedContinues DEF Fits, Owns
  <2> QED BY <2>1 DEF FitsTable, OwnsTable, Due
<1>3. \A n \in Node : Due(n, sing[n])' \in {Due(n, sing[n]), 0}
  BY DEF Due, Zero, Types, Key
<1>4. Fits'
  BY <1>2, <1>3 DEF Fits, Types, Key
<1>5. Owns'
  BY <1>2, <1>3 DEF Owns, Types, Key, IsConfig
<1>6. SoleMarks'
  <2>1. Sole(mark) /\ Sole(NoMarks)
    BY DEF Sole, MarksDiffer, NoMarks
  <2>2. source = "nft" => \A c \in Configs' : Sole(c)
    BY <2>1 DEF SoleMarks
  <2> QED BY <2>2 DEF SoleMarks, Sole
<1> QED BY <1>1, <1>4, <1>5, <1>6 DEF Ledger

LEMMA LedgerQuiet ==
  ASSUME IInv,
         \/ WriteOnly \/ RestartService \/ Reboot \/ Crash
         \/ \E full \in BOOLEAN : BeginApply(full)
         \/ ReadCounters \/ InstallRules \/ InstallFails \/ WriteConfiguration \/ WriteFails
         \/ \E now \in {NoMarks, running, file} : ReloadFails(now)
         \/ \E restarted \in BOOLEAN : Reload(restarted)
         \/ \E restored, up \in BOOLEAN : Restore(restored, up)
  PROVE  Ledger'
<1> USE DEF IInv, ProcShape, Idle, Tables, Configs, kernelVars, configVars
<1>1. CASE WriteOnly \/ RestartService
  BY <1>1, QuietStep DEF WriteOnly, RestartService
<1>2. CASE Reboot
  BY <1>2, QuietStep DEF Reboot, NoTable
<1>3. CASE Crash
  BY <1>3, QuietStep DEF Crash
<1>4. ASSUME NEW full \in BOOLEAN, BeginApply(full) PROVE Ledger'
  BY <1>4, QuietStep DEF BeginApply
<1>5. CASE ReadCounters
  BY <1>5, QuietStep DEF ReadCounters
<1>6. CASE InstallRules
  BY <1>6, QuietStep DEF InstallRules
<1>7. CASE InstallFails
  BY <1>7, QuietStep DEF InstallFails
<1>8. CASE WriteConfiguration
  BY <1>8, QuietStep DEF WriteConfiguration
<1>9. CASE WriteFails
  BY <1>9, QuietStep DEF WriteFails
<1>10. ASSUME NEW now \in {NoMarks, running, file}, ReloadFails(now) PROVE Ledger'
  BY <1>10, QuietStep DEF ReloadFails
<1>11. ASSUME NEW restarted \in BOOLEAN, Reload(restarted) PROVE Ledger'
  BY <1>11, QuietStep DEF Reload
<1>12. ASSUME NEW restored \in BOOLEAN, NEW up \in BOOLEAN, Restore(restored, up) PROVE Ledger'
  BY <1>12, QuietStep DEF Restore
<1> QED BY <1>1, <1>2, <1>3, <1>4, <1>5, <1>6, <1>7, <1>8, <1>9, <1>10, <1>11, <1>12

\* A byte is counted once under its key, and by its own node's share.
LEMMA LedgerCarry ==
  ASSUME IInv, NEW n \in Node, Carry(n) PROVE Ledger'
<1> USE DEF IInv, Types, stateVars, configVars, Heirless, Present
<1> DEFINE m == running[n]
           k == IF source = "nft" THEN m ELSE n
<1>1. /\ n \in DOMAIN running /\ m \in Mark /\ m \in Key /\ n \in Key /\ k \in Key
      /\ UNCHANGED <<source, mark, counters, used, proc, billed, inherited, file, running>>
      /\ sent' = [sent EXCEPT ![k] = @ + 1] /\ since' = [since EXCEPT ![n] = @ + 1]
  BY DEF Carry, IsConfig, Key
<1>2. MarksDiffer' /\ SoleMarks'
  BY <1>1 DEF MarksDiffer, SoleMarks, Sole, Configs
<1>3. \A j \in Key : sent[j] <= sent'[j] /\ sent'[j] \in Nat
  BY <1>1
<1>4. \A o \in Node : since[o] <= since'[o] /\ since'[o] \in Nat
  BY <1>1
<1>5. CASE source = "nft"
  <2>1. ASSUME NEW b \in Tables', b \in Tables PROVE FitsTable(b)' /\ OwnsTable(b)'
    <3>1. FitsTable(b) /\ OwnsTable(b) /\ IsBytes(b)
      BY <1>5, <2>1 DEF Fits, Owns, Tables, ProcShape, IsTable
    <3>2. FitsTable(b)'
      <4>1. \A l \in DOMAIN b : l \in Key /\ b[l] \in Nat
        BY <3>1 DEF IsBytes, Key
      <4> QED BY <1>1, <1>3, <3>1, <4>1, DueIsNat DEF FitsTable, Due
    <3>3. OwnsTable(b)'
      BY <1>1, <1>4, <3>1 DEF OwnsTable, Due, IsBytes, IsConfig, Key
    <3> QED BY <3>2, <3>3
  <2>2. ASSUME m \in DOMAIN table.bytes, table' = [table EXCEPT !.bytes[m] = @ + 1]
        PROVE  FitsTable(table.bytes)' /\ OwnsTable(table.bytes)'
    <3>1. FitsTable(table.bytes) /\ OwnsTable(table.bytes) /\ IsBytes(table.bytes)
      BY <1>5 DEF Fits, Owns, Tables, IsTable
    <3>2. /\ DOMAIN table'.bytes = DOMAIN table.bytes
          /\ \A l \in DOMAIN table.bytes :
               table'.bytes[l] = IF l = m THEN table.bytes[l] + 1 ELSE table.bytes[l]
      BY <2>2 DEF IsTable
    <3>3. \A l \in DOMAIN table.bytes :
            /\ table.bytes[l] \in Nat /\ counters[l] \in Nat /\ counters'[l] = counters[l]
            /\ l \in Key /\ sent'[l] = IF l = m THEN sent[l] + 1 ELSE sent[l]
      BY <1>1, <1>5, <3>1 DEF IsBytes, Key
    <3>4. FitsTable(table.bytes)'
      <4>1. SUFFICES ASSUME NEW l \in DOMAIN table.bytes
                     PROVE  counters[l] <= table'.bytes[l] /\ billed[l] + Due(l, table'.bytes[l]) <= sent'[l]
        BY <1>1, <3>2 DEF FitsTable, Due
      <4>2. counters[l] <= table.bytes[l] /\ billed[l] + Due(l, table.bytes[l]) <= sent[l]
        BY <3>1 DEF FitsTable
      <4>3. billed[l] \in Nat /\ sent[l] \in Nat
        BY <3>3
      <4> QED BY <3>2, <3>3, <4>2, <4>3 DEF Due
    <3>5. OwnsTable(table.bytes)'
      <4>1. SUFFICES ASSUME NEW o \in Heirless, mark[o] \in DOMAIN table.bytes
                     PROVE  used[o] + Due(mark[o], table'.bytes[mark[o]]) <= since'[o]
        BY <1>1, <3>2 DEF OwnsTable, Due
      <4>2. used[o] + Due(mark[o], table.bytes[mark[o]]) <= since[o]
        BY <3>1, <4>1 DEF OwnsTable
      <4>3. mark[o] = m => o = n
        BY <1>1, <1>5 DEF SoleMarks, Sole, Configs
      <4>4. o \in Node /\ used[o] \in Nat /\ since[o] \in Nat
        BY DEF IsConfig
      <4>5. counters[mark[o]] <= table.bytes[mark[o]]
        BY <3>1, <4>1 DEF FitsTable
      <4>6. CASE mark[o] = m
        BY <1>1, <3>2, <3>3, <4>1, <4>2, <4>3, <4>4, <4>5, <4>6 DEF Due
      <4>7. CASE mark[o] # m
        BY <1>4, <3>2, <3>3, <4>1, <4>2, <4>4, <4>7 DEF Due
      <4> QED BY <4>6, <4>7
    <3> QED BY <3>4, <3>5
  <2>3. \A b \in Tables' : b \in Tables \/ b = table'.bytes
    BY <1>1 DEF Tables
  <2>4. table' = table \/ (m \in DOMAIN table.bytes /\ table' = [table EXCEPT !.bytes[m] = @ + 1])
    BY <1>5 DEF Carry
  <2>5. \A b \in Tables' : FitsTable(b)' /\ OwnsTable(b)'
    <3>1. CASE table' = table
      BY <2>1, <2>3, <3>1 DEF Tables
    <3>2. CASE m \in DOMAIN table.bytes /\ table' = [table EXCEPT !.bytes[m] = @ + 1]
      BY <2>1, <2>2, <2>3, <3>2
    <3> QED BY <2>4, <3>1, <3>2
  <2>6. Fits'
    BY <1>1, <1>3, <1>5, <2>5 DEF Fits
  <2>7. Owns'
    BY <1>1, <1>4, <1>5, <2>5 DEF Owns, IsConfig
  <2> QED BY <1>2, <2>6, <2>7 DEF Ledger
<1>6. CASE source = "api"
  <2>1. sing' = [sing EXCEPT ![n] = @ + 1] /\ k = n
    BY <1>6 DEF Carry
  <2>2. ASSUME NEW o \in Node
        PROVE  /\ Due(o, sing[o])' <= Due(o, sing[o]) + (IF o = n THEN 1 ELSE 0)
               /\ Due(o, sing[o]) \in Nat /\ Due(o, sing[o])' \in Nat
    <3>1. counters[o] \in Nat /\ sing[o] \in Nat /\ counters' = counters
          /\ sing'[o] = IF o = n THEN sing[o] + 1 ELSE sing[o]
      BY <1>1, <2>1 DEF Key
    <3> QED BY <3>1 DEF Due
  <2>3. Fits'
    <3>1. ASSUME NEW o \in Node PROVE (billed[o] + Due(o, sing[o]) <= sent[o])'
      <4>1. billed[o] + Due(o, sing[o]) <= sent[o] /\ billed[o] \in Nat /\ sent[o] \in Nat
        BY <1>6 DEF Fits, Key
      <4>2. sent'[o] = IF o = n THEN sent[o] + 1 ELSE sent[o]
        BY <1>1, <2>1 DEF Key
      <4> QED BY <1>1, <2>2, <4>1, <4>2
    <3> QED BY <1>1, <1>3, <1>6, <3>1 DEF Fits
  <2>4. Owns'
    <3>1. ASSUME NEW o \in Heirless PROVE (used[o] + Due(o, sing[o]) <= since[o])'
      <4>1. /\ o \in Node /\ used[o] + Due(o, sing[o]) <= since[o]
            /\ used[o] \in Nat /\ since[o] \in Nat
        BY <1>6 DEF Owns, IsConfig
      <4>2. since'[o] = IF o = n THEN since[o] + 1 ELSE since[o]
        BY <1>1, <4>1
      <4> QED BY <1>1, <2>2, <4>1, <4>2
    <3> QED BY <1>1, <1>4, <1>6, <3>1 DEF Owns, IsConfig
  <2> QED BY <1>2, <2>3, <2>4 DEF Ledger
<1> QED BY <1>5, <1>6

\* Between two operations the kernel's table is all that counts.
LEMMA IdleTables ==
  ASSUME ProcShape, proc = Idle PROVE Tables = {table.bytes} /\ Configs = {file, running}
BY DEF Tables, Configs, Idle

\* What a reading would charge, or leave uncharged, is what is due.
LEMMA ReadingsOfIdle ==
  ASSUME IInv, proc = Idle, NEW n \in Sampled
  PROVE  /\ n \in Node /\ n \in Present /\ KeyOf(n) \in Key /\ Readings[KeyOf(n)] \in Nat
         /\ Added[n] = Due(KeyOf(n), Readings[KeyOf(n)])
         /\ source = "nft" => KeyOf(n) = mark[n] /\ mark[n] \in DOMAIN table.bytes
                              /\ Readings[mark[n]] = table.bytes[mark[n]]
         /\ source = "api" => KeyOf(n) = n /\ Readings[n] = sing[n] /\ sing[n] > 0
         /\ billed[KeyOf(n)] + Added[n] <= sent[KeyOf(n)]
         /\ n \notin inherited => used[n] + Added[n] <= since[n]
<1> USE DEF IInv, Types, Present
<1>1. /\ n \in Node /\ n \in Present /\ KeyOf(n) \in Key /\ Readings[KeyOf(n)] \in Nat
      /\ source = "nft" => KeyOf(n) = mark[n] /\ mark[n] \in DOMAIN table.bytes
                           /\ Readings[mark[n]] = table.bytes[mark[n]]
      /\ source = "api" => KeyOf(n) = n /\ Readings[n] = sing[n] /\ sing[n] > 0
  BY DEF Sampled, KeyOf, Key, Readings, NftReadings, ApiReadings, IsTable, IsBytes, IsConfig
<1>2. Added[n] = Due(KeyOf(n), Readings[KeyOf(n)])
  BY <1>1 DEF Added, Delta, Due
<1>3. billed[KeyOf(n)] + Added[n] <= sent[KeyOf(n)]
  BY <1>1, <1>2, IdleTables DEF Fits, FitsTable
<1>4. n \notin inherited => used[n] + Added[n] <= since[n]
  BY <1>1, <1>2, IdleTables DEF Owns, OwnsTable, Heirless
<1> QED BY <1>1, <1>2, <1>3, <1>4

\* After a reading is remembered nothing is due of it.
LEMMA Settled ==
  ASSUME IInv, proc = Idle, NEW S \in SUBSET Sampled,
         source' = source, mark' = mark, counters' = Remembered(S)
  PROVE  /\ \A n \in S : counters'[KeyOf(n)] = Readings[KeyOf(n)]
         /\ \A k \in Key : (\A n \in S : KeyOf(n) # k) => counters'[k] = counters[k]
BY ReadingsOfIdle DEF Remembered

LEMMA LedgerSync ==
  ASSUME IInv, Sync PROVE Ledger'
<1> USE DEF IInv, Types, kernelVars, configVars, Heirless, Present
<1>1. /\ proc = Idle /\ counters' = Remembered(Sampled)
      /\ UNCHANGED <<source, mark, table, sing, file, running, proc, sent, since, inherited>>
      /\ used' = [n \in Node |-> used[n] + Added[n]]
  BY DEF Sync
<1>2. MarksDiffer' /\ SoleMarks'
  BY <1>1 DEF MarksDiffer, SoleMarks, Sole, Configs
<1>3. /\ \A n \in Sampled : counters'[KeyOf(n)] = Readings[KeyOf(n)]
      /\ \A k \in Key : (\A n \in Sampled : KeyOf(n) # k) => counters'[k] = counters[k]
  BY <1>1, Settled
<1>4. /\ \A n \in Sampled : billed'[KeyOf(n)] = billed[KeyOf(n)] + Added[n]
      /\ \A k \in Key : (\A n \in Sampled : KeyOf(n) # k) => billed'[k] = billed[k]
  <2>1. ASSUME NEW k \in Key, NEW n \in Sampled, KeyOf(n) = k PROVE billed'[k] = billed[k] + Added[n]
    <3> DEFINE of == {o \in Sampled : KeyOf(o) = k}
    <3>1. n \in of /\ (CHOOSE o \in of : TRUE) \in of
      BY <2>1
    <3>2. Added[CHOOSE o \in of : TRUE] = Added[n]
      BY <1>1, <2>1, <3>1, ReadingsOfIdle
    <3>3. billed'[k] = billed[k] + IF of = {} THEN 0 ELSE Added[CHOOSE o \in of : TRUE]
      BY DEF Sync
    <3> QED BY <3>1, <3>2, <3>3
  <2>2. ASSUME NEW k \in Key, \A n \in Sampled : KeyOf(n) # k PROVE billed'[k] = billed[k]
    <3>1. {o \in Sampled : KeyOf(o) = k} = {}
      BY <2>2
    <3> QED BY <3>1 DEF Sync
  <2> QED BY <1>1, <2>1, <2>2, ReadingsOfIdle
<1>5. \A n \in Present : n \notin Sampled => used'[n] = used[n]
  BY <1>1 DEF Added, IsConfig
<1>6. Tables' = {table.bytes} /\ Tables = {table.bytes}
  BY <1>1, IdleTables DEF Tables, Idle
<1>7. \A k \in Key : billed'[k] <= sent'[k]
  BY <1>1, <1>4, ReadingsOfIdle DEF Fits
<1>8. \A n \in Heirless : used'[n] <= since'[n]
  <2>1. \A n \in Heirless \cap Sampled : used'[n] = used[n] + Added[n]
    BY <1>1, ReadingsOfIdle
  <2> QED BY <1>1, <1>5, <2>1, ReadingsOfIdle DEF Owns
<1>9. CASE source = "nft"
  <2>1. ASSUME NEW m \in DOMAIN table.bytes
        PROVE  counters'[m] <= table.bytes[m] /\ billed'[m] + Due(m, table.bytes[m])' <= sent'[m]
    <3>1. m \in Key /\ table.bytes[m] \in Nat /\ counters[m] <= table.bytes[m]
          /\ billed[m] + Due(m, table.bytes[m]) <= sent[m]
      BY <1>6, <1>9 DEF IsTable, IsBytes, Key, Fits, FitsTable
    <3>2. CASE \A n \in Sampled : KeyOf(n) # m
      BY <1>1, <1>3, <1>4, <3>1, <3>2 DEF Due
    <3>3. ASSUME NEW n \in Sampled, KeyOf(n) = m
          PROVE  counters'[m] <= table.bytes[m] /\ billed'[m] + Due(m, table.bytes[m])' <= sent'[m]
      <4>1. counters'[m] = table.bytes[m] /\ billed'[m] = billed[m] + Added[n] /\ billed[m] + Added[n] <= sent[m]
        BY <1>1, <1>3, <1>4, <1>9, <3>3, ReadingsOfIdle
      <4>2. Due(m, table.bytes[m])' = 0 /\ billed'[m] <= sent'[m]
        BY <1>1, <1>7, <3>1, <4>1 DEF Due
      <4>3. billed'[m] \in Nat
        BY <3>1, <1>1, <4>1, <3>3, ReadingsOfIdle, DueIsNat
      <4> QED BY <3>1, <4>1, <4>2, <4>3
    <3> QED BY <3>2, <3>3
  <2>2. ASSUME NEW n \in Heirless, mark[n] \in DOMAIN table.bytes
        PROVE  used'[n] + Due(mark[n], table.bytes[mark[n]])' <= since'[n]
    <3>1. n \in Sampled /\ KeyOf(n) = mark[n] /\ n \in Node
      BY <1>9, <2>2 DEF Sampled, KeyOf, Readings, NftReadings, IsConfig
    <3>2. counters'[mark[n]] = table.bytes[mark[n]] /\ table.bytes[mark[n]] \in Nat
      BY <1>1, <1>3, <1>9, <3>1, ReadingsOfIdle
    <3>3. Due(mark[n], table.bytes[mark[n]])' = 0
      BY <1>1, <3>2 DEF Due
    <3>4. used'[n] \in Nat
      BY <1>1, <3>1, ReadingsOfIdle, DueIsNat
    <3> QED BY <1>8, <2>2, <3>3, <3>4
  <2>3. FitsTable(table.bytes)' /\ OwnsTable(table.bytes)'
    BY <1>1, <2>1, <2>2 DEF FitsTable, OwnsTable, Due
  <2> QED BY <1>1, <1>2, <1>6, <1>7, <1>8, <1>9, <2>3 DEF Ledger, Fits, Owns
<1>10. CASE source = "api"
  <2>1. ASSUME NEW n \in Node
        PROVE  /\ billed'[n] + Due(n, sing[n])' <= sent'[n]
               /\ n \in Heirless => used'[n] + Due(n, sing[n])' <= since'[n]
    <3>1. n \in Key /\ sing[n] \in Nat /\ billed[n] + Due(n, sing[n]) <= sent[n]
          /\ (n \in Heirless => used[n] + Due(n, sing[n]) <= since[n])
      BY <1>10 DEF Key, Fits, Owns
    <3>2. CASE n \notin Sampled
      <4>1. \A o \in Sampled : KeyOf(o) # n
        BY <1>1, <1>10, <3>2, ReadingsOfIdle
      <4>2. counters'[n] = counters[n] /\ billed'[n] = billed[n]
        BY <1>3, <1>4, <3>1, <4>1
      <4> QED BY <1>1, <1>5, <3>1, <3>2, <4>2 DEF Due
    <3>3. CASE n \in Sampled
      <4>1. counters'[n] = sing[n] /\ KeyOf(n) = n
        BY <1>1, <1>3, <1>10, <3>3, ReadingsOfIdle
      <4>2. Due(n, sing[n])' = 0
        BY <1>1, <3>1, <4>1 DEF Due
      <4>3. billed'[n] \in Nat /\ used'[n] \in Nat
        BY <1>1, <1>4, <3>1, <3>3, <4>1, ReadingsOfIdle, DueIsNat
      <4> QED BY <1>7, <1>8, <3>1, <4>2, <4>3
    <3> QED BY <3>2, <3>3
  <2> QED BY <1>1, <1>2, <1>7, <1>8, <1>10, <2>1 DEF Ledger, Fits, Owns, IsConfig
<1> QED BY <1>9, <1>10


\* A reset takes the present reading as the new beginning, and charges nothing.
LEMMA LedgerReset ==
  ASSUME IInv, NEW n \in Node, ResetTraffic(n) PROVE Ledger'
<1> USE DEF IInv, Types, kernelVars, configVars, Heirless, Present
<1>1. /\ proc = Idle /\ n \in Present /\ counters' = Remembered(Sampled \cap {n})
      /\ UNCHANGED <<source, mark, table, sing, file, running, proc, sent, billed, inherited>>
      /\ used' = [used EXCEPT ![n] = 0] /\ since' = [since EXCEPT ![n] = 0]
  BY DEF ResetTraffic, Edit, Baseline
<1>2. MarksDiffer' /\ SoleMarks'
  BY <1>1 DEF MarksDiffer, SoleMarks, Sole, Configs
<1>3. /\ n \in Sampled => counters'[KeyOf(n)] = Readings[KeyOf(n)]
      /\ n \notin Sampled => \A k \in Key : counters'[k] = counters[k]
      /\ \A k \in Key : KeyOf(n) # k => counters'[k] = counters[k]
  <2> DEFINE S == Sampled \cap {n}
  <2>1. /\ \A o \in S : counters'[KeyOf(o)] = Readings[KeyOf(o)]
        /\ \A k \in Key : (\A o \in S : KeyOf(o) # k) => counters'[k] = counters[k]
    <3> S \in SUBSET Sampled
      OBVIOUS
    <3> HIDE DEF S
    <3>1. source' = source /\ mark' = mark /\ counters' = Remembered(S)
      BY <1>1 DEF S
    <3> QED BY <1>1, <3>1, Settled
  <2>2. S \subseteq {n} /\ (n \in Sampled <=> n \in S)
    OBVIOUS
  <2> HIDE DEF S
  <2>3. \A k \in Key : KeyOf(n) # k => counters'[k] = counters[k]
    <3> SUFFICES ASSUME NEW k \in Key, KeyOf(n) # k PROVE counters'[k] = counters[k]
      OBVIOUS
    <3>1. \A o \in S : o = n
      BY <2>2
    <3>2. \A o \in S : KeyOf(o) # k
      BY <3>1
    <3> QED BY <2>1, <3>2
  <2>4. n \notin Sampled => S = {}
    BY <2>2
  <2> QED BY <2>1, <2>2, <2>3, <2>4
<1>4. Tables' = {table.bytes} /\ Tables = {table.bytes}
  BY <1>1, IdleTables DEF Tables, Idle
<1>5. used'[n] = 0 /\ since'[n] = 0
      /\ \A o \in Node : o # n => used'[o] = used[o] /\ since'[o] = since[o]
  BY <1>1
<1>6. \A k \in Key : billed'[k] <= sent'[k] /\ billed'[k] \in Nat /\ sent'[k] \in Nat
  BY <1>1 DEF Fits
<1>7. \A o \in Heirless : o \in Node /\ used'[o] <= since'[o]
  BY <1>1, <1>5 DEF Owns, IsConfig
<1>8. CASE source = "nft"
  <2>1. KeyOf(n) = mark[n] /\ (n \in Sampled <=> mark[n] \in DOMAIN table.bytes)
    BY <1>1, <1>8 DEF KeyOf, Sampled, Readings, NftReadings
  <2>2. ASSUME NEW m \in DOMAIN table.bytes
        PROVE  counters'[m] <= table.bytes[m] /\ billed'[m] + Due(m, table.bytes[m])' <= sent'[m]
    <3>1. m \in Key /\ table.bytes[m] \in Nat /\ counters[m] <= table.bytes[m]
          /\ billed[m] + Due(m, table.bytes[m]) <= sent[m]
      BY <1>4, <1>8 DEF IsTable, IsBytes, Key, Fits, FitsTable
    <3>2. CASE counters'[m] = counters[m]
      BY <1>1, <3>1, <3>2 DEF Due
    <3>3. CASE counters'[m] # counters[m]
      <4>1. KeyOf(n) = m /\ mark[n] = m /\ n \in Sampled
        BY <1>3, <2>1, <3>1, <3>3
      <4>2. Readings[m] = table.bytes[m]
        BY <1>1, <1>8, <4>1, ReadingsOfIdle
      <4>3. counters'[m] = table.bytes[m]
        BY <1>3, <4>1, <4>2
      <4>4. Due(m, table.bytes[m])' = 0
        BY <1>1, <3>1, <4>3 DEF Due
      <4> QED BY <1>6, <3>1, <4>3, <4>4
    <3> QED BY <3>2, <3>3
  <2>3. ASSUME NEW o \in Heirless, mark[o] \in DOMAIN table.bytes
        PROVE  used'[o] + Due(mark[o], table.bytes[mark[o]])' <= since'[o]
    <3>1. o \in Node /\ mark[o] \in Key /\ table.bytes[mark[o]] \in Nat
          /\ used[o] + Due(mark[o], table.bytes[mark[o]]) <= since[o]
      BY <1>4, <1>8, <2>3 DEF IsConfig, IsTable, IsBytes, Key, Owns, OwnsTable
    <3>2. CASE o # n
      <4>1. mark[o] # mark[n]
        BY <1>1, <3>2 DEF MarksDiffer
      <4>2. counters'[mark[o]] = counters[mark[o]]
        BY <1>3, <2>1, <3>1, <4>1
      <4> QED BY <1>1, <1>5, <3>1, <3>2, <4>2 DEF Due
    <3>3. CASE o = n
      <4>1. counters'[mark[o]] = table.bytes[mark[o]]
        BY <1>1, <1>3, <1>8, <2>1, <2>3, <3>3, ReadingsOfIdle
      <4>2. Due(mark[o], table.bytes[mark[o]])' = 0
        BY <1>1, <3>1, <4>1 DEF Due
      <4> QED BY <1>5, <3>3, <4>2
    <3> QED BY <3>2, <3>3
  <2>4. FitsTable(table.bytes)' /\ OwnsTable(table.bytes)'
    BY <1>1, <2>2, <2>3 DEF FitsTable, OwnsTable, Due
  <2> QED BY <1>1, <1>2, <1>4, <1>6, <1>7, <1>8, <2>4 DEF Ledger, Fits, Owns
<1>9. CASE source = "api"
  <2>1. ASSUME NEW o \in Node
        PROVE  /\ billed'[o] + Due(o, sing[o])' <= sent'[o]
               /\ o \in Heirless => used'[o] + Due(o, sing[o])' <= since'[o]
    <3>1. o \in Key /\ sing[o] \in Nat /\ billed[o] + Due(o, sing[o]) <= sent[o]
          /\ (o \in Heirless => used[o] + Due(o, sing[o]) <= since[o])
      BY <1>9 DEF Key, Fits, Owns
    <3>2. KeyOf(n) = n /\ (n \in Sampled <=> sing[n] > 0)
      BY <1>1, <1>9 DEF KeyOf, Sampled, Readings, ApiReadings
    <3>3. CASE o # n
      <4>1. counters'[o] = counters[o]
        BY <1>3, <3>1, <3>2, <3>3
      <4> QED BY <1>1, <1>5, <3>1, <3>3, <4>1 DEF Due
    <3>4. CASE o = n
      <4>1. Due(n, sing[n])' = 0
        <5>1. CASE n \in Sampled
          <6>1. counters'[n] = sing[n]
            BY <1>1, <1>3, <1>9, <3>2, <5>1, ReadingsOfIdle
          <6> QED BY <1>1, <3>1, <3>4, <6>1 DEF Due
        <5>2. CASE n \notin Sampled
          <6>1. sing[n] = 0 /\ counters'[n] = counters[n] /\ counters[n] \in Nat
            BY <1>3, <3>1, <3>2, <3>4, <5>2
          <6> QED BY <1>1, <6>1 DEF Due
        <5> QED BY <5>1, <5>2
      <4> QED BY <1>5, <1>6, <3>1, <3>4, <4>1
    <3> QED BY <3>3, <3>4
  <2> QED BY <1>1, <1>2, <1>6, <1>7, <1>9, <2>1 DEF Ledger, Fits, Owns, Due
<1> QED BY <1>8, <1>9

\* A node that is made owes nothing: its mark is counted nowhere, or it is
\* noted as an heir.
LEMMA LedgerCreate ==
  ASSUME IInv, NEW n \in Node, CreateNode(n) PROVE Ledger'
<1> USE DEF IInv, Types, kernelVars, configVars
<1>1. /\ proc = Idle /\ n \notin Present
      /\ mark' = [x \in Present \cup {n} |-> IF x = n THEN FreeMark ELSE mark[x]]
      /\ used' = [used EXCEPT ![n] = 0] /\ since' = [since EXCEPT ![n] = 0]
      /\ UNCHANGED <<source, counters, table, sing, file, running, proc, sent, billed>>
      /\ inherited' = IF InUse(n, FreeMark) THEN inherited \cup {n} ELSE inherited \ {n}
  BY DEF CreateNode, Edit
<1>2. FreeMark \in Mark /\ \A o \in Present : mark[o] # FreeMark
  BY <1>1, FreeMarkIsFree
<1>3. Present' = Present \cup {n} /\ mark'[n] = FreeMark /\ \A o \in Present : mark'[o] = mark[o]
  BY <1>1 DEF Present
<1>4. MarksDiffer'
  BY <1>1, <1>2, <1>3 DEF MarksDiffer
<1>5. /\ \A o \in Heirless' : o \in Node /\ (o # n => o \in Heirless)
      /\ n \in Heirless' => ~InUse(n, FreeMark)
  BY <1>1, <1>3 DEF Heirless, IsConfig, Present
<1>6. used'[n] = 0 /\ since'[n] = 0
      /\ \A o \in Node : o # n => used'[o] = used[o] /\ since'[o] = since[o]
  BY <1>1
<1>7. Tables' = {table.bytes} /\ Tables = {table.bytes} /\ Configs' = {file, running} /\ Configs = {file, running}
  BY <1>1, IdleTables DEF Tables, Configs, Idle
<1>8. \A o \in Heirless : o \in Present
  BY DEF Heirless
<1>9. \A k \in Key, c \in Nat : Due(k, c)' = Due(k, c)
  BY <1>1 DEF Due
<1>10. SoleMarks'
  <2>1. SUFFICES ASSUME source = "nft", NEW c \in {file, running}, NEW o \in Heirless',
                        NEW p \in DOMAIN c, c[p] = mark'[o]
                 PROVE  p = o
    BY <1>1, <1>7 DEF SoleMarks, Sole
  <2>2. CASE o = n
    BY <1>3, <1>5, <2>1, <2>2 DEF InUse, Range
  <2>3. CASE o # n
    BY <1>3, <1>5, <1>7, <1>8, <2>1, <2>3 DEF SoleMarks, Sole
  <2> QED BY <2>2, <2>3
<1>11. FitsTable(table.bytes) => FitsTable(table.bytes)'
  BY <1>1 DEF FitsTable, Due
<1>12. Fits'
  BY <1>1, <1>7, <1>11 DEF Fits, Due
<1>13. ASSUME source = "nft" PROVE OwnsTable(table.bytes)'
  <2>1. SUFFICES ASSUME NEW o \in Heirless', mark'[o] \in DOMAIN table.bytes
                 PROVE  used'[o] + Due(mark'[o], table.bytes[mark'[o]]) <= since'[o]
    <3>1. counters' = counters /\ table' = table
      BY <1>1
    <3> QED BY <3>1, Zenon DEF OwnsTable, Due
  <2>2. o # n
    BY <1>3, <1>5, <1>13, <2>1 DEF InUse
  <2>3. /\ o \in Heirless /\ o \in Node /\ mark'[o] = mark[o] /\ mark[o] \in Key
        /\ table.bytes[mark[o]] \in Nat
    BY <1>3, <1>5, <1>8, <2>1, <2>2 DEF IsConfig, Key, IsTable, IsBytes
  <2>4. used[o] + Due(mark[o], table.bytes[mark[o]]) <= since[o]
    BY <1>7, <1>13, <2>1, <2>3 DEF Owns, OwnsTable
  <2> QED BY <1>6, <2>2, <2>3, <2>4
<1>14. ASSUME source = "api", NEW o \in Heirless' PROVE (used[o] + Due(o, sing[o]) <= since[o])'
  <2>1. CASE o # n
    BY <1>1, <1>5, <1>6, <1>14, <2>1 DEF Owns, Due
  <2>2. CASE o = n
    <3>1. n \in Key /\ sing[n] \in Nat /\ ~(sing[n] > 0) /\ counters[n] \in Nat
      BY <1>5, <1>14, <2>2 DEF InUse, Key
    <3> QED BY <1>1, <1>6, <2>2, <3>1 DEF Due
  <2> QED BY <2>1, <2>2
<1>15. \A o \in Heirless' : used'[o] <= since'[o]
  BY <1>5, <1>6 DEF Owns
<1>16. Owns'
  BY <1>1, <1>7, <1>13, <1>14, <1>15 DEF Owns
<1> QED BY <1>4, <1>10, <1>12, <1>16 DEF Ledger

\* What is left of a deleted node is its counters, and they are kept.
LEMMA LedgerDelete ==
  ASSUME IInv, NEW n \in Node, DeleteNode(n) PROVE Ledger'
<1> USE DEF IInv, Types, kernelVars, configVars, Present
<1>1. /\ proc = Idle /\ mark' = Restrict(mark, Present \ {n})
      /\ used' = [used EXCEPT ![n] = 0] /\ since' = [since EXCEPT ![n] = 0]
      /\ UNCHANGED <<source, counters, table, sing, file, running, proc, sent, billed>>
      /\ inherited' = inherited \ {n}
  BY DEF DeleteNode, Edit, Kept
<1>2. Present' = Present \ {n} /\ \A o \in Present' : mark'[o] = mark[o]
  BY <1>1 DEF Restrict
<1>3. \A o \in Heirless' : /\ o \in Heirless /\ o \in Node /\ o \in Present' /\ mark'[o] = mark[o]
                           /\ used'[o] = used[o] /\ since'[o] = since[o]
  BY <1>1, <1>2 DEF Heirless, IsConfig
<1>4. Tables' = {table.bytes} /\ Tables = {table.bytes} /\ Configs' = {file, running} /\ Configs = {file, running}
  BY <1>1, IdleTables DEF Tables, Configs, Idle
<1>5. MarksDiffer'
  BY <1>2 DEF MarksDiffer
<1>6. SoleMarks'
  BY <1>1, <1>3, <1>4 DEF SoleMarks, Sole
<1>7. FitsTable(table.bytes) => FitsTable(table.bytes)'
  BY <1>1 DEF FitsTable, Due
<1>8. Fits'
  BY <1>1, <1>4, <1>7 DEF Fits, Due
<1>9. OwnsTable(table.bytes) => OwnsTable(table.bytes)'
  BY <1>1, <1>3 DEF OwnsTable, Due
<1>10. Owns'
  BY <1>1, <1>3, <1>4, <1>9 DEF Owns, Due
<1> QED BY <1>5, <1>6, <1>8, <1>10 DEF Ledger

LEMMA LedgerStutter ==
  ASSUME IInv, UNCHANGED countersVars PROVE Ledger'
BY QuietStep DEF IInv, countersVars, kernelVars, configVars, stateVars, Tables, Configs

LEMMA StepInv == IInv /\ [CountersNext]_countersVars => IInv'
<1> SUFFICES ASSUME IInv, [CountersNext]_countersVars PROVE Ledger'
  BY TypesKept, ProcShapeKept DEF IInv, Ledger
<1>1. ASSUME NEW n \in Node, Carry(n) \/ ResetTraffic(n) \/ CreateNode(n) \/ DeleteNode(n) PROVE Ledger'
  BY <1>1, LedgerCarry, LedgerReset, LedgerCreate, LedgerDelete
<1>2. CASE Sync
  BY <1>2, LedgerSync
<1>3. CASE UNCHANGED countersVars
  BY <1>3, LedgerStutter
<1>4. CASE \/ WriteOnly \/ RestartService \/ Reboot \/ Crash
           \/ \E full \in BOOLEAN : BeginApply(full)
           \/ ReadCounters \/ InstallRules \/ InstallFails \/ WriteConfiguration \/ WriteFails
           \/ \E now \in {NoMarks, running, file} : ReloadFails(now)
           \/ \E restarted \in BOOLEAN : Reload(restarted)
           \/ \E restored, up \in BOOLEAN : Restore(restored, up)
  BY <1>4, LedgerQuiet
<1> QED BY <1>1, <1>2, <1>3, <1>4 DEF CountersNext

(***************************************************************************)
(* The theorems                                                            *)
(***************************************************************************)
\* In every reachable state the ledger of bytes is as above: what was charged
\* and what every counter that may come back would charge were carried
\* (usage.go, rate.go, stats.go).
THEOREM Invariant == CountersSpec => []IInv
<1>1. CountersInit => IInv
  BY InitInv
<1>2. IInv /\ [CountersNext]_countersVars => IInv'
  BY StepInv
<1> QED BY <1>1, <1>2, PTL DEF CountersSpec

\* A byte that crossed a counter is charged at most once, over replaced,
\* restored and lost tables, restarts of sing-box, resets of the month and keys
\* given to another node (usage.go:131-134).
THEOREM BytesAreChargedOnce == CountersSpec => []ChargedOnce
<1>1. IInv => ChargedOnce
  BY DEF IInv, Fits, ChargedOnce
<1> QED BY <1>1, Invariant, PTL

\* A node pays only for bytes it carried since it was made or its usage reset,
\* unless its key was still being counted when it was made (rate.go:171).
THEOREM NodesPayTheirOwn == CountersSpec => []PaysItsOwn
<1>1. IInv => PaysItsOwn
  BY DEF IInv, Owns, Heirless, PaysItsOwn
<1> QED BY <1>1, Invariant, PTL

\* A rule of the kernel's table never counts from below the State's reading of
\* it, so that no byte is carried unseen (initialNftCounter, restoreNftRateSnapshot).
THEOREM RulesAreNeverBehind == CountersSpec => []NeverBehind
<1>1. IInv => NeverBehind
  BY DEF IInv, Fits, FitsTable, Tables, NeverBehind
<1> QED BY <1>1, Invariant, PTL
=============================================================================
