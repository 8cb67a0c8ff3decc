---------------------------- MODULE StateStoreProofs ----------------------------
(***************************************************************************)
(* Proofs about the files around state.db: for any number of contents,     *)
(* files, backups and days, and any number of crashes.                     *)
(***************************************************************************)
EXTENDS StateStore, TLAPS

(***************************************************************************)
(* The inductive invariant                                                 *)
(***************************************************************************)
writer == pc["writer"]

\* The stages of a restore from the guard on, and those in which the old family
\* may be in two places; the stages of an import that has decided to import.
Moves == {"main", "install", "verify", "putback", "putwal"}
Guarding == Moves \cup {"aside"}
Saving == {"previous", "daily", "commit"}
Importing == {"mark", "link"}
Loading == {"load", "open", "import"} \cup Importing
Steps ==
  {"idle", "edit", "copy", "companion", "clean", "guard", "replace", "create", "fill"}
    \cup Loading \cup Saving \cup Guarding

Types ==
  /\ db \in File /\ main \in File /\ previous \in File /\ old \in File /\ new \in File
  /\ live \in Content \cup {NoFile}
  /\ moved \in Family /\ aside \subseteq Family /\ loose \subseteq Family
  /\ pc \in [Process -> Steps]
  /\ daily \in [1..MaxDay -> File] /\ today \in 1..MaxDay
  /\ manual \in [1..MaxManual -> File] /\ companion \in [1..MaxManual -> Nat]
  /\ made \in Nat /\ files \in Nat
  /\ wanted \in 0..files /\ recorded \subseteq 0..files

\* Generations are drawn one after the other.
Drawn ==
  /\ db \in Content => db.generation <= files
  /\ moved.db \in Content => moved.db.generation <= files
  /\ new \in Content => new.generation <= files
  /\ live \in Content => live.generation <= files

\* A main file belongs to what it yields with its WAL, and only the last content
\* left can be in a WAL alone.
Paired(f, m) ==
  /\ f = NoFile <=> m = NoFile
  /\ m \in Content => f \in Content /\ f.generation = m.generation
Pending(f, m) == f # m => f = live \/ InJson(live)
OneFile == Paired(db, main) /\ Pending(db, main)

\* What the writer has read is what state.db still holds.
WriterKnows ==
  /\ writer \in Loading => old = NoFile
  /\ writer \in {"edit"} \cup Saving => db \in Content /\ old = db
  /\ writer \in Saving => new \in Content /\ new.generation = db.generation
  /\ task = "restore" => new \in Content

\* The copy of what a change of settings replaces is made before the change.
CopiedFirst == writer \in {"daily", "commit"} /\ new.control # db.control => previous = db

\* The backup that waits for its companion is the newest and of these identities.
AwaitsCompanion ==
  writer = "companion" =>
    /\ db \in Content
    /\ \E i \in 1..MaxManual : /\ manual[i] \in Content /\ manual[i].generation = db.generation
                               /\ companion[i] = 0 /\ \A j \in i + 1..MaxManual : manual[j] = NoFile

\* A restore holds the history's lock, has history of the old family kept, and
\* puts in place a generation that nobody has seen.
Guarded ==
  /\ writer \in Guarding \cup {"guard"} => task = "restore"
  /\ writer \in Guarding =>
       /\ historyLock = "writer"
       /\ moved.db \in Content /\ moved.db.generation \in recorded => moved.db.generation \in history
  /\ writer \in {"aside", "main", "install", "verify"} => new.generation \notin recorded
  /\ writer = "verify" => db = new

\* While the WAL of the old family is in one place and its main file in another,
\* the main file is what it was.
Moving ==
  /\ Paired(moved.db, moved.main) /\ Pending(moved.db, moved.main)
  /\ moved.db # NoFile => writer \in Moves
  /\ writer = "main" => db = main
  /\ writer \in {"main", "putwal"} /\ moved.db # NoFile => db = moved.main /\ main = moved.main
  /\ \A q \in loose : q.main # NoFile

\* Before anything else takes the place of the old family, or of a file that
\* init could not fill, what was left last does not depend on that place.
Elsewhere ==
  \/ \E q \in aside : q.db = live
  \/ \E q \in loose, r \in aside : q.db = live /\ r.main = q.main
  \/ InJson(live)
Held == writer \in {"install", "verify", "putback", "fill"} /\ live # NoFile => Elsewhere

\* init fills the file that it has created.
Filling == writer = "fill" => db = Blank /\ new \in Content /\ new.generation \notin recorded

\* The identities cannot change while the history's user holds its lock.
Locked == historyLock = "history" => db \in Content /\ wanted = db.generation

\* As long as state.json may be imported there is no State anywhere else.
Untouched ==
  /\ \A p \in Process : pc[p] \in Importing => json
  /\ json /\ ~marker =>
       /\ ~everLive /\ db \notin Content /\ task # "restore"
       /\ previous \notin Content /\ \A d \in 1..MaxDay : daily[d] \notin Content
       /\ \A i \in 1..MaxManual : manual[i] \notin Content
       /\ \A p \in Process : pc[p] # "link"
       /\ writer \notin {"edit", "create", "fill"} \cup Saving

IInv ==
  /\ Types /\ Drawn /\ OneFile /\ WriterKnows /\ CopiedFirst /\ AwaitsCompanion /\ Guarded /\ Moving
  /\ Held /\ Filling /\ Locked /\ Untouched /\ Recoverable /\ CompanionMatches /\ HistoryKept

\* Nothing is a family without files.
LEMMA NothingIs == Nothing \in Family /\ Nothing.db = NoFile /\ Nothing.main = NoFile
BY DEF Nothing, WithWal, Family, File

LEMMA InitInv == StoreInit => IInv
<1> SUFFICES ASSUME StoreInit PROVE IInv
  OBVIOUS
<1> USE StoreAssumption DEF StoreInit, Process, writer, File, Readable
<1>1. Types /\ Drawn /\ OneFile /\ Moving
  BY NothingIs DEF Types, Drawn, Steps, OneFile, Moving, Paired, Pending
<1>2. WriterKnows /\ CopiedFirst /\ AwaitsCompanion /\ Guarded /\ Held /\ Filling /\ Locked
  BY DEF WriterKnows, CopiedFirst, AwaitsCompanion, Guarded, Guarding, Moves, Held, Filling, Locked,
         Loading, Importing, Saving
<1>3. Untouched
  BY DEF Untouched, Importing, Saving
<1>4. Recoverable /\ CompanionMatches /\ HistoryKept
  BY DEF Recoverable, CompanionMatches, HistoryKept
<1> QED BY <1>1, <1>2, <1>3, <1>4 DEF IInv

LEMMA ContentIs == \A f \in Content : f.number \in Nat /\ f.control \in Nat /\ f.generation \in Nat
BY DEF Content

\* Where a backup is only the first part of a command.
LEMMA AfterCopyIs ==
  /\ AfterCopy \in {"guard", "replace", "idle"}
  /\ AfterCopy = "guard" <=> task = "restore"
<1>1. CASE task = "restore"
  BY <1>1 DEF AfterCopy
<1>2. CASE task = "force"
  BY <1>2 DEF AfterCopy
<1>3. CASE task \notin {"restore", "force"}
  BY <1>3 DEF AfterCopy
<1> QED BY <1>1, <1>2, <1>3

\* The name of a new backup is of no file, and no backup has a later one.
LEMMA CopyIs ==
  ASSUME Types, Copy
  PROVE  /\ writer = "copy" /\ pc' = [pc EXCEPT !["writer"] = writer']
         /\ \/ writer' = "idle" /\ UNCHANGED manual
            \/ /\ db \in Content /\ writer' \in {"companion", AfterCopy}
               /\ \E i \in 1..MaxManual : /\ manual' = [manual EXCEPT ![i] = db] /\ companion[i] = 0
                                          /\ \A j \in i + 1..MaxManual : manual[j] = NoFile
         /\ UNCHANGED <<database, previous, daily, today, companion, quarantine,
                        writerVars, legacyVars, historyVars, counts, ghosts>>
<1>1. /\ writer = "copy" /\ pc' = [pc EXCEPT !["writer"] = writer']
      /\ UNCHANGED <<database, previous, daily, today, companion, quarantine,
                     writerVars, legacyVars, historyVars, counts, ghosts>>
  BY DEF Copy, Go, Types, Process, writer
<1>2. CASE Go("writer", "idle") /\ UNCHANGED manual
  BY <1>1, <1>2 DEF Go, Types, Process, writer
<1>3. ASSUME NEW i \in Names, Readable(db), manual' = [manual EXCEPT ![i] = db],
             Go("writer", IF history # {} THEN "companion" ELSE AfterCopy)
      PROVE  /\ db \in Content /\ writer' \in {"companion", AfterCopy}
             /\ i \in 1..MaxManual /\ companion[i] = 0 /\ \A j \in i + 1..MaxManual : manual[j] = NoFile
  BY <1>3 DEF Go, Types, Process, writer, Names, Readable, File
<1> QED BY <1>1, <1>2, <1>3 DEF Copy

\* The companion is the one of the newest backup.
LEMMA CompanionIs ==
  ASSUME Types, AwaitsCompanion, Companion
  PROVE  /\ writer = "companion" /\ pc' = [pc EXCEPT !["writer"] = writer']
         /\ writer' \in {"idle", AfterCopy}
         /\ \E i \in 1..MaxManual :
              /\ manual[i] \in Content /\ manual[i].generation = db.generation /\ companion[i] = 0
              /\ \/ companion' = [companion EXCEPT ![i] = db.generation] /\ UNCHANGED manual
                    /\ history' = history \cap {db.generation}
                 \/ manual' = [manual EXCEPT ![i] = NoFile] /\ UNCHANGED <<companion, history>>
         /\ UNCHANGED <<database, previous, daily, today, quarantine,
                        writerVars, legacyVars, historyLock, wanted, recorded, counts, ghosts>>
<1>1. writer = "companion" /\ pc' = [pc EXCEPT !["writer"] = writer'] /\ writer' \in {"idle", AfterCopy}
  BY DEF Companion, Go, Types, Process, writer
<1>2. PICK i \in 1..MaxManual : /\ manual[i] \in Content /\ manual[i].generation = db.generation
                                /\ companion[i] = 0 /\ \A j \in i + 1..MaxManual : manual[j] = NoFile
  BY <1>1 DEF AwaitsCompanion
<1>3. Newest = i
  <2>1. MaxManual \in Nat /\ manual[i] # NoFile
    BY <1>2, StoreAssumption
  <2>2. ASSUME NEW k \in 1..MaxManual, manual[k] # NoFile, \A j \in k + 1..MaxManual : manual[j] = NoFile
        PROVE  k = i
    BY <1>2, <2>1, <2>2
  <2> QED BY <1>2, <2>1, <2>2 DEF Newest
<1> QED BY <1>1, <1>2, <1>3 DEF Companion, Reconciled

\* What is written next has the generation of what was read; a change that is
\* not of settings has its control version too.
LEMMA EditIs ==
  ASSUME Types, WriterKnows, Edit
  PROVE  /\ writer = "edit" /\ pc' = [pc EXCEPT !["writer"] = writer']
         /\ db \in Content /\ old = db /\ new' \in Content /\ new'.generation = db.generation
         /\ made' = made + 1
         /\ \/ writer' = "daily" /\ new'.control = db.control
            \/ writer' = "previous"
         /\ UNCHANGED <<database, copies, quarantine, task, old, moved, legacyVars, historyVars, files, ghosts>>
<1>1. writer = "edit" /\ db \in Content /\ old = db
  BY DEF Edit, WriterKnows, writer
<1>2. made' = made + 1 /\ made' \in Nat
  BY DEF Edit, Types
<1>3. ASSUME NEW n \in Nat
      PROVE  /\ [old EXCEPT !.number = n] \in Content
             /\ [old EXCEPT !.number = n].generation = old.generation
             /\ [old EXCEPT !.number = n].control = old.control
             /\ [old EXCEPT !.number = n, !.control = n] \in Content
             /\ [old EXCEPT !.number = n, !.control = n].generation = old.generation
  BY <1>1 DEF Content
<1>4. writer' \in {"daily", "previous"} /\ pc' = [pc EXCEPT !["writer"] = writer']
  <2>1. pc' = [pc EXCEPT !["writer"] = "daily"] \/ pc' = [pc EXCEPT !["writer"] = "previous"]
    BY DEF Edit, Go
  <2>2. "writer" \in Process /\ pc \in [Process -> Steps]
    BY DEF Types, Process
  <2> QED BY <2>1, <2>2 DEF writer
<1>5. CASE Go("writer", "daily") /\ new' = [old EXCEPT !.number = made + 1]
  BY <1>1, <1>2, <1>3, <1>4, <1>5 DEF Edit, Go, Types, Process, writer
<1>6. CASE Go("writer", "previous") /\ new' = [old EXCEPT !.number = made + 1, !.control = made + 1]
  BY <1>1, <1>2, <1>3, <1>4, <1>6 DEF Edit, Go, Types, Process, writer
<1> QED BY <1>5, <1>6 DEF Edit

LEMMA RestoreBeginIs ==
  ASSUME Types, RestoreBegin
  PROVE  /\ writer = "idle" /\ pc' = [pc EXCEPT !["writer"] = "load"] /\ task' = "restore" /\ old' = NoFile
         /\ moved' = Nothing
         /\ new' \in Content /\ new'.generation = 0
         /\ \/ previous \in Content
            \/ \E d \in 1..MaxDay : daily[d] \in Content
            \/ \E i \in 1..MaxManual : manual[i] \in Content
         /\ UNCHANGED <<database, copies, quarantine, legacyVars, historyVars, counts, ghosts>>
<1>1. PICK b \in Backups : Start("restore", [b EXCEPT !.generation = 0]) /\ Go("writer", "load")
  BY DEF RestoreBegin
<1>2. b \in Content /\ \/ previous \in Content
                       \/ \E d \in 1..MaxDay : daily[d] \in Content
                       \/ \E i \in 1..MaxManual : manual[i] \in Content
  BY DEF Backups, Readable, File, Types
<1>3. [b EXCEPT !.generation = 0] \in Content /\ [b EXCEPT !.generation = 0].generation = 0
  BY <1>2 DEF Content
<1> QED BY <1>1, <1>2, <1>3 DEF Start, Go, writer

LEMMA RestoreGuardIs ==
  ASSUME Types, WriterKnows, Guarded, RestoreGuard
  PROVE  /\ writer = "guard" /\ pc' = [pc EXCEPT !["writer"] = "aside"]
         /\ files' = files + 1 /\ new' \in Content /\ new'.generation = files + 1
         /\ historyLock = "none" /\ historyLock' = "writer"
         /\ UNCHANGED <<database, copies, quarantine, task, old, moved, legacyVars, history, wanted,
                        recorded, made, ghosts>>
<1>1. writer = "guard" /\ task = "restore" /\ new \in Content
  BY DEF RestoreGuard, Guarded, WriterKnows, writer
<1>2. files + 1 \in Nat
  BY DEF Types
<1>3. [new EXCEPT !.generation = files + 1] \in Content
      /\ [new EXCEPT !.generation = files + 1].generation = files + 1
  BY <1>1, <1>2 DEF Content
<1> QED BY <1>1, <1>3 DEF RestoreGuard, Go, writer

LEMMA CreateIs ==
  ASSUME Types, Create
  PROVE  /\ writer = "create" /\ pc' = [pc EXCEPT !["writer"] = writer'] /\ made' = made + 1
         /\ \/ /\ db = NoFile /\ db' = Blank /\ main' = Blank /\ writer' = "fill" /\ files' = files + 1 /\ UNCHANGED old
               /\ new' \in Content /\ new'.generation = files + 1
            \/ /\ db \in Content /\ old' = db /\ writer' = "previous" /\ UNCHANGED <<database, files>>
               /\ new' \in Content /\ new'.generation = db.generation
            \/ db = Blank /\ writer' = "idle" /\ UNCHANGED <<database, files, new, old>>
         /\ UNCHANGED <<copies, quarantine, task, moved, legacyVars, historyVars, ghosts>>
<1>1. writer = "create" /\ made' = made + 1 /\ made + 1 \in Nat /\ files + 1 \in Nat
  BY DEF Create, Types, writer
<1>2. Readable(db) => db \in Content /\ db.generation \in Nat
  BY DEF Types, File, Readable, Content
<1>3. \A g \in Nat : [number |-> made + 1, control |-> made + 1, generation |-> g] \in Content
  BY <1>1 DEF Content
<1> QED BY <1>1, <1>2, <1>3 DEF Create, Go, database, Types, Process, writer

\* What a restore moves aside is the family, or the file that came up in between.
LEMMA MoveWalIs ==
  ASSUME Types, MoveWal
  PROVE  /\ writer = "aside" /\ pc' = [pc EXCEPT !["writer"] = "main"]
         /\ moved' \in Family /\ moved'.db = db /\ moved'.main = main
         /\ db' = main /\ (db = main => loose' = loose) /\ (db # main => loose' = loose \cup {moved'})
         /\ UNCHANGED <<main, copies, aside, task, old, new, legacyVars, historyVars, counts, ghosts>>
BY DEF MoveWal, Go, writer, WithWal, Family, Types

LEMMA MoveMainIs ==
  ASSUME Types, MoveMain
  PROVE  /\ writer = "main" /\ pc' = [pc EXCEPT !["writer"] = "install"]
         /\ moved' \in Family
         /\ moved.db = NoFile => moved'.db = db /\ moved'.main = main
         /\ moved.db # NoFile => moved' = moved
         /\ db' = NoFile /\ main' = NoFile /\ loose' = loose \ {moved'}
         /\ (db = NoFile => aside' = aside) /\ (db # NoFile => aside' = aside \cup {moved'})
         /\ UNCHANGED <<copies, task, old, new, legacyVars, historyVars, counts, ghosts>>
BY DEF MoveMain, Go, writer, WithWal, Family, Types

\* What an import publishes has a generation of its own.
LEMMA LegacyIs == ASSUME Types PROVE Legacy \in Content /\ Legacy.generation = files + 1 /\ Legacy.number = 0
BY DEF Types, Legacy, Content

\* An import publishes a State of a new generation, or finds one and ends.
Imported == UNCHANGED <<copies, quarantine, writerVars, json, marker, historyVars, made>>
Published(p) ==
  /\ pc[p] = "link" /\ pc' = [pc EXCEPT ![p] = "open"] /\ Imported
  /\ db = NoFile /\ db' \in Content /\ db'.generation = files + 1 /\ db'.number = 0
  /\ main' = db' /\ live' = db' /\ files' = files + 1
Refused(p) ==
  /\ pc[p] = "link" /\ Imported /\ UNCHANGED <<db, main, files, live, everLive>>
  /\ \/ pc' = [pc EXCEPT ![p] = "idle"]
     \/ p = "writer" /\ task = "restore" /\ pc' = [pc EXCEPT ![p] = "guard"]
LEMMA ImportLinkIs ==
  ASSUME Types, NEW p \in Process, ImportLink(p) PROVE Published(p) \/ Refused(p)
<1>1. CASE db # NoFile
  BY <1>1 DEF ImportLink, AfterFailure, Go, database, counts, ghosts, Refused, Imported
<1>2. CASE db = NoFile /\ db' = Legacy
  BY <1>2, LegacyIs DEF ImportLink, Go, counts, ghosts, Published, Imported
<1> QED BY <1>1, <1>2 DEF ImportLink

\* Every value is of its type.
LEMMA TypesKept ==
  ASSUME IInv, [StoreNext]_storeVars PROVE Types'
<1> USE StoreAssumption, ContentIs, NothingIs DEF IInv, Types, writer, Go, Process, Readable,
    File, Family, database, copies, quarantine, writerVars, legacyVars, historyVars, counts, ghosts, Steps, Loading,
    Importing, Saving, Guarding, Moves
<1>1. ASSUME UNCHANGED <<database, quarantine, previous, old, new, moved, live, pc, daily, today, manual,
    companion, made, files, wanted, recorded>>
      PROVE Types'
  BY <1>1
<1>2. ASSUME NEW p \in Process, Stat(p) PROVE Types'
  BY <1>2 DEF Stat
<1>3. ASSUME NEW p \in Process, Open(p) PROVE Types'
  BY <1>3 DEF Open, AfterLoad, AfterFailure
<1>4. ASSUME NEW p \in Process, ImportBegin(p) PROVE Types'
  BY <1>4 DEF ImportBegin, AfterFailure
<1>5. ASSUME NEW p \in Process, ImportMark(p) PROVE Types'
  BY <1>5 DEF ImportMark
<1>6. ASSUME NEW p \in Process, ImportLink(p) PROVE Types'
  <2>1. CASE Published(p)
    BY <2>1 DEF Published, Imported
  <2>2. CASE Refused(p)
    BY <2>2 DEF Refused, Imported
  <2> QED BY <1>6, <2>1, <2>2, ImportLinkIs
<1>7. ASSUME NEW p \in Process, Crash(p) PROVE Types'
  BY <1>7 DEF Crash, Forget
<1>8. CASE SaveBegin
  BY <1>8 DEF SaveBegin, Start
<1>9. CASE Edit
  <2>1. /\ pc' = [pc EXCEPT !["writer"] = writer'] /\ writer' \in {"daily", "previous"}
        /\ new' \in Content /\ made' = made + 1
        /\ UNCHANGED <<database, copies, quarantine, old, moved, wanted, recorded, files, live>>
    BY <1>9, EditIs
  <2> QED BY <2>1
<1>10. CASE WritePrevious
  BY <1>10 DEF WritePrevious
<1>11. CASE WriteDaily
  BY <1>11 DEF WriteDaily
<1>12. CASE Commit
  BY <1>12 DEF Commit, Done, Forget, Drawn, WriterKnows, Guarded, Filling
<1>13. CASE SaveFails
  BY <1>13 DEF SaveFails, Done, Forget
<1>14. CASE NextDay
  BY <1>14 DEF NextDay
<1>15. CASE Checkpoint
  BY <1>15 DEF Checkpoint
<1>16. CASE BackupBegin
  BY <1>16 DEF BackupBegin, Start
<1>17. CASE Copy
  <2>1. /\ pc' = [pc EXCEPT !["writer"] = writer'] /\ writer' \in Steps
        /\ UNCHANGED <<database, previous, daily, today, companion, quarantine, old, new, moved, wanted,
                       recorded, counts, live>>
    BY <1>17, CopyIs, AfterCopyIs
  <2>2. manual' \in [1..MaxManual -> File]
    BY <1>17, CopyIs
  <2> QED BY <2>1, <2>2
<1>18. CASE Companion
  <2>1. /\ pc' = [pc EXCEPT !["writer"] = writer'] /\ writer' \in Steps
        /\ UNCHANGED <<database, previous, daily, today, quarantine, old, new, moved, wanted, recorded, counts, live>>
    BY <1>18, CompanionIs, AfterCopyIs
  <2>2. manual' \in [1..MaxManual -> File] /\ companion' \in [1..MaxManual -> Nat]
    BY <1>18, CompanionIs DEF AwaitsCompanion
  <2> QED BY <2>1, <2>2
<1>19. CASE BusinessBackup
  BY <1>19 DEF BusinessBackup, Done, Forget
<1>20. CASE CleanupBegin
  BY <1>20 DEF CleanupBegin, Start
<1>21. CASE CleanupEnd
  BY <1>21 DEF CleanupEnd, Done, Forget
<1>22. ASSUME NEW i \in 1..MaxManual, CleanCompanion(i) PROVE Types'
  BY <1>22 DEF CleanCompanion, Expired
<1>23. ASSUME NEW i \in 1..MaxManual, CleanManual(i) PROVE Types'
  BY <1>23 DEF CleanManual, Expired
<1>24. ASSUME NEW d \in 1..MaxDay, CleanDaily(d) PROVE Types'
  BY <1>24 DEF CleanDaily
<1>25. CASE RestoreBegin
  <2>1. /\ pc' = [pc EXCEPT !["writer"] = "load"] /\ new' \in Content /\ old' = NoFile
        /\ UNCHANGED <<database, copies, quarantine, wanted, recorded, counts, live>> /\ moved' = Nothing
    BY <1>25, RestoreBeginIs
  <2> QED BY <2>1
<1>26. CASE RestoreGuard
  <2>1. /\ pc' = [pc EXCEPT !["writer"] = "aside"] /\ new' \in Content /\ files' = files + 1
        /\ UNCHANGED <<database, copies, quarantine, old, moved, wanted, recorded, made, live>>
    BY <1>26, RestoreGuardIs
  <2> QED BY <2>1
<1>27. CASE MoveWal
  <2>1. /\ pc' = [pc EXCEPT !["writer"] = "main"] /\ moved' \in Family /\ db' \in File
        /\ UNCHANGED <<main, copies, aside, old, new, wanted, recorded, counts, live>>
    BY <1>27, MoveWalIs
  <2>2. loose' \subseteq Family
    <3>1. loose' = loose \/ loose' = loose \cup {moved'}
      BY <1>27, MoveWalIs
    <3> QED BY <2>1, <3>1
  <2> QED BY <2>1, <2>2
<1>28. CASE MoveMain
  <2>1. /\ pc' = [pc EXCEPT !["writer"] = "install"] /\ moved' \in Family /\ db' \in File /\ main' \in File
        /\ UNCHANGED <<copies, old, new, wanted, recorded, counts, live>>
    BY <1>28, MoveMainIs
  <2>2. loose' \subseteq Family /\ aside' \subseteq Family
    <3>1. loose' = loose \ {moved'} /\ (aside' = aside \/ aside' = aside \cup {moved'})
      BY <1>28, MoveMainIs
    <3> QED BY <2>1, <3>1
  <2> QED BY <2>1, <2>2
<1>29. CASE MoveFails
  BY <1>29 DEF MoveFails
<1>30. CASE Install
  BY <1>30 DEF Install
<1>31. CASE Settle
  BY <1>31 DEF Settle, Done, Forget, LetGo, Drawn, WriterKnows, Guarded, Filling
<1>32. CASE Undo
  BY <1>32 DEF Undo
<1>33. CASE PutMain
  BY <1>33 DEF PutMain
<1>34. CASE PutWal
  BY <1>34 DEF PutWal, Done, Forget, LetGo
<1>35. CASE StaysAside
  BY <1>35 DEF StaysAside, Done, Forget, LetGo
<1>36. CASE InitBegin
  BY <1>36 DEF InitBegin, Start
<1>37. CASE ForceBegin
  BY <1>37 DEF ForceBegin, Start
<1>38. CASE Replace
  BY <1>38 DEF Replace
<1>39. CASE Create
  <2>1. /\ pc' = [pc EXCEPT !["writer"] = writer'] /\ writer' \in Steps
        /\ new' \in File /\ old' \in File /\ db' \in File /\ main' \in File
        /\ files' \in {files, files + 1} /\ made' = made + 1
        /\ UNCHANGED <<copies, quarantine, moved, wanted, recorded, live>>
    BY <1>39, CreateIs
  <2> QED BY <2>1
<1>40. CASE Fill
  BY <1>40 DEF Fill, Done, Forget, Drawn, WriterKnows, Guarded, Filling
<1>41. CASE ReaderBegin
  BY <1>41 DEF ReaderBegin
<1>42. CASE HistoryOpen
  BY <1>42 DEF HistoryOpen, Drawn, WriterKnows, Guarded, Filling
<1>43. CASE HistoryWrite
  BY <1>43 DEF HistoryWrite, Reconciled
<1>44. CASE UNCHANGED storeVars
  BY <1>44 DEF storeVars
<1> QED BY <1>1, <1>2, <1>3, <1>4, <1>5, <1>6, <1>7, <1>8, <1>9, <1>10, <1>11, <1>12,
    <1>13, <1>14, <1>15, <1>16, <1>17, <1>18, <1>19, <1>20, <1>21, <1>22, <1>23, <1>24,
    <1>25, <1>26, <1>27, <1>28, <1>29, <1>30, <1>31, <1>32, <1>33, <1>34, <1>35, <1>36,
    <1>37, <1>38, <1>39, <1>40, <1>41, <1>42, <1>43, <1>44 DEF StoreNext, Load, Cleanup

\* Nothing holds a generation that was not drawn.
LEMMA DrawnKept ==
  ASSUME IInv, [StoreNext]_storeVars PROVE Drawn'
<1> USE StoreAssumption, ContentIs, NothingIs DEF IInv, Types, writer, Go, Process, Readable,
    File, Family, database, copies, quarantine, writerVars, legacyVars, historyVars, counts, ghosts, Drawn, Content
<1>1. ASSUME UNCHANGED <<db, moved, new, live, files>> PROVE Drawn'
  BY <1>1
<1>2. ASSUME NEW p \in Process, Open(p) PROVE Drawn'
  BY <1>2 DEF Open, AfterLoad, AfterFailure
<1>3. ASSUME NEW p \in Process, ImportLink(p) PROVE Drawn'
  <2>1. CASE Published(p)
    BY <2>1 DEF Published, Imported
  <2>2. CASE Refused(p)
    BY <2>2 DEF Refused, Imported
  <2> QED BY <1>3, <2>1, <2>2, ImportLinkIs
<1>4. ASSUME NEW p \in Process, Crash(p) PROVE Drawn'
  BY <1>4 DEF Crash, Forget
<1>5. CASE SaveBegin \/ BackupBegin \/ CleanupBegin \/ InitBegin \/ ForceBegin
  BY <1>5 DEF SaveBegin, BackupBegin, CleanupBegin, InitBegin, ForceBegin, Start
<1>6. CASE Edit
  BY <1>6, EditIs
<1>7. CASE Commit
  BY <1>7 DEF Commit, Done, Forget
<1>8. CASE SaveFails \/ BusinessBackup \/ CleanupEnd
  BY <1>8 DEF SaveFails, BusinessBackup, CleanupEnd, Done, Forget
<1>9. CASE RestoreBegin
  <2>1. UNCHANGED <<db, files, live>> /\ moved' = Nothing /\ new'.generation = 0
    BY <1>9, RestoreBeginIs
  <2> QED BY <2>1
<1>10. CASE RestoreGuard
  <2>1. UNCHANGED <<db, moved, live>> /\ new'.generation = files + 1 /\ files' = files + 1
    BY <1>10, RestoreGuardIs
  <2> QED BY <2>1
<1>11. CASE MoveWal
  <2>1. /\ UNCHANGED <<new, live, files>> /\ moved'.db = db /\ db' = main
        /\ main \in Content => db \in Content /\ db.generation = main.generation
    BY <1>11, MoveWalIs DEF OneFile, Paired
  <2> QED BY <2>1
<1>12. CASE MoveMain
  BY <1>12, MoveMainIs
<1>13. CASE MoveFails
  BY <1>13 DEF MoveFails
<1>14. CASE Install
  BY <1>14 DEF Install
<1>15. CASE Settle
  BY <1>15 DEF Settle, Done, Forget, LetGo
<1>16. CASE Undo
  BY <1>16 DEF Undo
<1>17. CASE PutMain
  BY <1>17 DEF PutMain, Moving, Paired
<1>18. CASE PutWal
  BY <1>18 DEF PutWal, Done, Forget, LetGo
<1>19. CASE StaysAside
  BY <1>19 DEF StaysAside, Done, Forget, LetGo
<1>20. CASE Create
  <2>1. UNCHANGED <<live, moved>>
    BY <1>20, CreateIs
  <2>2. CASE db' = Blank /\ new'.generation = files + 1 /\ files' = files + 1
    <3>1. files \in Nat /\ db' \notin Content
      BY <2>2
    <3> QED BY <2>1, <2>2, <3>1
  <2>3. CASE db \in Content /\ new'.generation = db.generation /\ UNCHANGED <<db, files>>
    BY <2>1, <2>3
  <2>4. CASE UNCHANGED <<db, files, new>>
    BY <2>1, <2>4
  <2> QED BY <1>20, <2>2, <2>3, <2>4, CreateIs
<1>21. CASE Fill
  BY <1>21 DEF Fill, Done, Forget
<1>22. ASSUME (\E p \in Process : Stat(p)) \/ (\E p \in Process : ImportBegin(p)) \/ (\E p \in
    Process : ImportMark(p)) \/ WritePrevious \/ WriteDaily \/ Checkpoint \/ NextDay \/ Copy \/
    Companion \/ (\E i \in 1..MaxManual : CleanCompanion(i)) \/ (\E i \in 1..MaxManual
    : CleanManual(i)) \/ (\E d \in 1..MaxDay : CleanDaily(d)) \/ Replace \/ ReaderBegin
    \/ HistoryOpen \/ HistoryWrite
      PROVE  UNCHANGED <<db, moved, new, live, files>>
  BY <1>22 DEF Stat, ImportBegin, ImportMark, WritePrevious, WriteDaily, Checkpoint, NextDay, Copy,
      Companion, CleanCompanion, CleanManual, CleanDaily, Replace, ReaderBegin,
      HistoryOpen, HistoryWrite, AfterFailure, Expired, Reconciled
<1>23. CASE UNCHANGED storeVars
  BY <1>23 DEF storeVars
<1> QED BY <1>1, <1>2, <1>3, <1>4, <1>5, <1>6, <1>7, <1>8, <1>9, <1>10, <1>11, <1>12,
    <1>13, <1>14, <1>15, <1>16, <1>17, <1>18, <1>19, <1>20, <1>21, <1>22, <1>23 DEF
    StoreNext, Load, Cleanup

\* A main file stays with its WAL, or is what its WAL was checkpointed into.
LEMMA OneFileKept ==
  ASSUME IInv, [StoreNext]_storeVars PROVE OneFile'
<1> USE StoreAssumption, ContentIs, NothingIs DEF IInv, Types, writer, Go, Process, Readable,
    File, database, copies, quarantine, writerVars, legacyVars, historyVars, counts, ghosts,
    OneFile, Paired, Pending, InJson, WriterKnows, Saving, Guarded, Guarding,
    Moves, Moving, Filling, Untouched, Importing
<1>1. ASSUME UNCHANGED <<live, database, json>> PROVE OneFile'
  BY <1>1
<1>2. ASSUME NEW p \in Process, Open(p) PROVE OneFile'
  BY <1>2 DEF Open, AfterLoad, AfterFailure
<1>3. ASSUME NEW p \in Process, ImportLink(p) PROVE OneFile'
  <2>1. CASE Published(p)
    BY <2>1 DEF Published, Imported
  <2>2. CASE Refused(p)
    BY <2>2 DEF Refused, Imported
  <2> QED BY <1>3, <2>1, <2>2, ImportLinkIs
<1>4. CASE Commit
  BY <1>4 DEF Commit, Done, Forget
<1>5. CASE Checkpoint
  BY <1>5 DEF Checkpoint
<1>6. CASE MoveWal
  BY <1>6, MoveWalIs
<1>7. CASE MoveMain
  BY <1>7, MoveMainIs
<1>8. CASE MoveFails
  BY <1>8 DEF MoveFails
<1>9. CASE Install
  BY <1>9 DEF Install
<1>10. CASE Settle
  BY <1>10 DEF Settle, Done, Forget, LetGo
<1>11. CASE Undo
  BY <1>11 DEF Undo
<1>12. CASE PutMain
  BY <1>12 DEF PutMain
<1>13. CASE PutWal
  BY <1>13 DEF PutWal, Done, Forget, LetGo
<1>14. CASE StaysAside
  BY <1>14 DEF StaysAside, Done, Forget, LetGo
<1>15. CASE Create
  BY <1>15, CreateIs
<1>16. CASE Fill
  BY <1>16 DEF Fill, Done, Forget
<1>17. ASSUME (\E p \in Process : Stat(p)) \/ (\E p \in Process : ImportBegin(p)) \/ (\E p \in
    Process : ImportMark(p)) \/ (\E p \in Process : Crash(p)) \/ SaveBegin \/ Edit \/
    WritePrevious \/ WriteDaily \/ SaveFails \/ NextDay \/ BackupBegin \/ Copy \/
    Companion \/ BusinessBackup \/ CleanupBegin \/ CleanupEnd \/ (\E i \in 1..MaxManual
    : CleanCompanion(i)) \/ (\E i \in 1..MaxManual : CleanManual(i)) \/ (\E d \in
    1..MaxDay : CleanDaily(d)) \/ RestoreBegin \/ RestoreGuard \/ InitBegin \/
    ForceBegin \/ Replace \/ ReaderBegin \/ HistoryOpen \/ HistoryWrite
      PROVE  UNCHANGED <<live, database, json>>
  BY <1>17 DEF Stat, ImportBegin, ImportMark, Crash, SaveBegin, Edit, WritePrevious,
      WriteDaily, SaveFails, NextDay, BackupBegin, Copy, Companion, BusinessBackup,
      CleanupBegin, CleanupEnd, CleanCompanion, CleanManual, CleanDaily, RestoreBegin,
      RestoreGuard, InitBegin, ForceBegin, Replace, ReaderBegin, HistoryOpen,
      HistoryWrite, AfterFailure, Forget, Start, Done, Expired, Backups, Reconciled
<1>18. CASE UNCHANGED storeVars
  BY <1>18 DEF storeVars
<1> QED BY <1>1, <1>2, <1>3, <1>4, <1>5, <1>6, <1>7, <1>8, <1>9, <1>10, <1>11, <1>12,
    <1>13, <1>14, <1>15, <1>16, <1>17, <1>18 DEF StoreNext, Load, Cleanup

\* What the writer has read stays true while it holds the state lock: the reader
\* can only put a State where there is none.
LEMMA WriterKnowsKept ==
  ASSUME IInv, [StoreNext]_storeVars PROVE WriterKnows'
<1> USE StoreAssumption, ContentIs, NothingIs DEF IInv, Types, writer, Go, Process, Readable,
    File, database, copies, quarantine, writerVars, legacyVars, historyVars, counts, ghosts, WriterKnows,
    Loading, Importing, Saving, Guarded, Guarding, Moves
<1>1. ASSUME UNCHANGED <<pc, db, old, new, task>> PROVE WriterKnows'
  BY <1>1
<1>2. ASSUME NEW p \in Process, Stat(p) PROVE WriterKnows'
  BY <1>2 DEF Stat
<1>3. ASSUME NEW p \in Process, Open(p) PROVE WriterKnows'
  BY <1>3 DEF Open, AfterLoad, AfterFailure
<1>4. ASSUME NEW p \in Process, ImportBegin(p) PROVE WriterKnows'
  BY <1>4 DEF ImportBegin, AfterFailure
<1>5. ASSUME NEW p \in Process, ImportMark(p) PROVE WriterKnows'
  BY <1>5 DEF ImportMark
<1>6. ASSUME NEW p \in Process, ImportLink(p) PROVE WriterKnows'
  <2>1. CASE Published(p)
    BY <2>1 DEF Published, Imported
  <2>2. CASE Refused(p)
    BY <2>2 DEF Refused, Imported
  <2> QED BY <1>6, <2>1, <2>2, ImportLinkIs
<1>7. ASSUME NEW p \in Process, Crash(p) PROVE WriterKnows'
  BY <1>7 DEF Crash, Forget
<1>8. CASE SaveBegin \/ BackupBegin \/ CleanupBegin \/ InitBegin \/ ForceBegin
  BY <1>8 DEF SaveBegin, BackupBegin, CleanupBegin, InitBegin, ForceBegin, Start
<1>9. CASE Edit
  BY <1>9, EditIs
<1>10. CASE WritePrevious
  BY <1>10 DEF WritePrevious
<1>11. CASE WriteDaily
  BY <1>11 DEF WriteDaily
<1>12. CASE Commit
  BY <1>12 DEF Commit, Done, Forget
<1>13. CASE SaveFails \/ BusinessBackup \/ CleanupEnd
  BY <1>13 DEF SaveFails, BusinessBackup, CleanupEnd, Done, Forget
<1>14. CASE Copy
  BY <1>14, CopyIs, AfterCopyIs
<1>15. CASE Companion
  BY <1>15, CompanionIs, AfterCopyIs
<1>16. CASE RestoreBegin
  BY <1>16, RestoreBeginIs
<1>17. CASE RestoreGuard
  BY <1>17, RestoreGuardIs
<1>18. CASE MoveWal
  BY <1>18, MoveWalIs
<1>19. CASE MoveMain
  BY <1>19, MoveMainIs
<1>20. CASE MoveFails
  BY <1>20 DEF MoveFails
<1>21. CASE Install
  BY <1>21 DEF Install
<1>22. CASE Settle
  BY <1>22 DEF Settle, Done, Forget, LetGo
<1>23. CASE Undo
  BY <1>23 DEF Undo
<1>24. CASE PutMain
  BY <1>24 DEF PutMain
<1>25. CASE PutWal
  BY <1>25 DEF PutWal, Done, Forget, LetGo
<1>26. CASE StaysAside
  BY <1>26 DEF StaysAside, Done, Forget, LetGo
<1>27. CASE Replace
  BY <1>27 DEF Replace
<1>28. CASE Create
  BY <1>28, CreateIs
<1>29. CASE Fill
  BY <1>29 DEF Fill, Done, Forget
<1>30. CASE ReaderBegin
  BY <1>30 DEF ReaderBegin
<1>31. ASSUME Checkpoint \/ NextDay \/ (\E i \in 1..MaxManual : CleanCompanion(i)) \/ (\E i \in 1..MaxManual
    : CleanManual(i)) \/ (\E d \in 1..MaxDay : CleanDaily(d)) \/ HistoryOpen \/
    HistoryWrite
      PROVE  UNCHANGED <<pc, db, old, new, task>>
  BY <1>31 DEF Checkpoint, NextDay, CleanCompanion, CleanManual, CleanDaily, HistoryOpen,
      HistoryWrite, Expired, Reconciled
<1>32. CASE UNCHANGED storeVars
  BY <1>32 DEF storeVars
<1> QED BY <1>1, <1>2, <1>3, <1>4, <1>5, <1>6, <1>7, <1>8, <1>9, <1>10, <1>11, <1>12,
    <1>13, <1>14, <1>15, <1>16, <1>17, <1>18, <1>19, <1>20, <1>21, <1>22, <1>23, <1>24,
    <1>25, <1>26, <1>27, <1>28, <1>29, <1>30, <1>31, <1>32 DEF StoreNext, Load, Cleanup

\* A change of settings comes with its copy of what it replaces.
LEMMA CopiedFirstKept ==
  ASSUME IInv, [StoreNext]_storeVars PROVE CopiedFirst'
<1> USE StoreAssumption, ContentIs, NothingIs DEF IInv, Types, writer, Go, Process, Readable,
    File, database, copies, quarantine, writerVars, legacyVars, historyVars, counts, ghosts, WriterKnows,
    CopiedFirst, Saving, Importing, Loading
<1>1. ASSUME UNCHANGED <<pc, db, new, previous>> PROVE CopiedFirst'
  BY <1>1
<1>2. ASSUME NEW p \in Process, Stat(p) \/ ImportBegin(p) PROVE CopiedFirst'
  BY <1>2 DEF Stat, ImportBegin, AfterFailure
<1>3. ASSUME NEW p \in Process, Open(p) PROVE CopiedFirst'
  BY <1>3 DEF Open, AfterLoad, AfterFailure
<1>4. ASSUME NEW p \in Process, ImportMark(p) PROVE CopiedFirst'
  BY <1>4 DEF ImportMark
<1>5. ASSUME NEW p \in Process, ImportLink(p) PROVE CopiedFirst'
  <2>1. CASE Published(p)
    BY <2>1 DEF Published, Imported
  <2>2. CASE Refused(p)
    BY <2>2 DEF Refused, Imported
  <2> QED BY <1>5, <2>1, <2>2, ImportLinkIs
<1>6. ASSUME NEW p \in Process, Crash(p) PROVE CopiedFirst'
  BY <1>6 DEF Crash, Forget
<1>7. CASE SaveBegin \/ BackupBegin \/ CleanupBegin \/ InitBegin \/ ForceBegin
  BY <1>7 DEF SaveBegin, BackupBegin, CleanupBegin, InitBegin, ForceBegin, Start
<1>8. CASE Edit
  BY <1>8, EditIs
<1>9. CASE WritePrevious
  BY <1>9 DEF WritePrevious
<1>10. CASE WriteDaily
  BY <1>10 DEF WriteDaily
<1>11. CASE Commit
  BY <1>11 DEF Commit, Done, Forget
<1>12. CASE SaveFails \/ BusinessBackup \/ CleanupEnd
  BY <1>12 DEF SaveFails, BusinessBackup, CleanupEnd, Done, Forget
<1>13. CASE Copy
  BY <1>13, CopyIs, AfterCopyIs
<1>14. CASE Companion
  BY <1>14, CompanionIs, AfterCopyIs
<1>15. CASE RestoreBegin
  BY <1>15, RestoreBeginIs
<1>16. CASE RestoreGuard
  BY <1>16, RestoreGuardIs
<1>17. CASE MoveWal
  BY <1>17, MoveWalIs
<1>18. CASE MoveMain
  BY <1>18, MoveMainIs
<1>19. CASE MoveFails
  BY <1>19 DEF MoveFails
<1>20. CASE Install
  BY <1>20 DEF Install
<1>21. CASE Settle
  BY <1>21 DEF Settle, Done, Forget, LetGo
<1>22. CASE Undo
  BY <1>22 DEF Undo
<1>23. CASE PutMain
  BY <1>23 DEF PutMain
<1>24. CASE PutWal
  BY <1>24 DEF PutWal, Done, Forget, LetGo
<1>25. CASE StaysAside
  BY <1>25 DEF StaysAside, Done, Forget, LetGo
<1>26. CASE Replace
  BY <1>26 DEF Replace
<1>27. CASE Create
  BY <1>27, CreateIs
<1>28. CASE Fill
  BY <1>28 DEF Fill, Done, Forget
<1>29. CASE ReaderBegin
  BY <1>29 DEF ReaderBegin
<1>30. ASSUME Checkpoint \/ NextDay \/ (\E i \in 1..MaxManual : CleanCompanion(i)) \/ (\E i \in 1..MaxManual
    : CleanManual(i)) \/ (\E d \in 1..MaxDay : CleanDaily(d)) \/ HistoryOpen \/
    HistoryWrite
      PROVE  UNCHANGED <<pc, db, new, previous>>
  BY <1>30 DEF Checkpoint, NextDay, CleanCompanion, CleanManual, CleanDaily, HistoryOpen,
      HistoryWrite, Expired, Reconciled
<1>31. CASE UNCHANGED storeVars
  BY <1>31 DEF storeVars
<1> QED BY <1>1, <1>2, <1>3, <1>4, <1>5, <1>6, <1>7, <1>8, <1>9, <1>10, <1>11, <1>12,
    <1>13, <1>14, <1>15, <1>16, <1>17, <1>18, <1>19, <1>20, <1>21, <1>22, <1>23, <1>24,
    <1>25, <1>26, <1>27, <1>28, <1>29, <1>30, <1>31 DEF StoreNext, Load, Cleanup

\* The backup that was made stays the newest until its companion is there.
LEMMA AwaitsCompanionKept ==
  ASSUME IInv, [StoreNext]_storeVars PROVE AwaitsCompanion'
<1> USE StoreAssumption, ContentIs, NothingIs DEF IInv, Types, writer, Go, Process, Readable,
    File, database, copies, quarantine, writerVars, legacyVars, historyVars, counts, ghosts, AwaitsCompanion
<1>1. ASSUME UNCHANGED <<pc, db, manual, companion>> PROVE AwaitsCompanion'
  BY <1>1
<1>2. ASSUME NEW p \in Process, Stat(p) \/ ImportBegin(p) PROVE AwaitsCompanion'
  BY <1>2 DEF Stat, ImportBegin, AfterFailure
<1>3. ASSUME NEW p \in Process, Open(p) PROVE AwaitsCompanion'
  BY <1>3 DEF Open, AfterLoad, AfterFailure
<1>4. ASSUME NEW p \in Process, ImportMark(p) PROVE AwaitsCompanion'
  BY <1>4 DEF ImportMark
<1>5. ASSUME NEW p \in Process, ImportLink(p) PROVE AwaitsCompanion'
  <2>1. CASE Published(p)
    BY <2>1 DEF Published, Imported
  <2>2. CASE Refused(p)
    BY <2>2 DEF Refused, Imported
  <2> QED BY <1>5, <2>1, <2>2, ImportLinkIs
<1>6. ASSUME NEW p \in Process, Crash(p) PROVE AwaitsCompanion'
  BY <1>6 DEF Crash, Forget
<1>7. CASE SaveBegin \/ BackupBegin \/ CleanupBegin \/ InitBegin \/ ForceBegin
  BY <1>7 DEF SaveBegin, BackupBegin, CleanupBegin, InitBegin, ForceBegin, Start
<1>8. CASE Edit
  BY <1>8, EditIs
<1>9. CASE WritePrevious
  BY <1>9 DEF WritePrevious
<1>10. CASE WriteDaily
  BY <1>10 DEF WriteDaily
<1>11. CASE Commit
  BY <1>11 DEF Commit, Done, Forget
<1>12. CASE SaveFails \/ BusinessBackup \/ CleanupEnd
  BY <1>12 DEF SaveFails, BusinessBackup, CleanupEnd, Done, Forget
<1>13. CASE Copy
  <2>1. UNCHANGED <<db, companion>> /\ writer' \in {"companion", "idle", AfterCopy}
    BY <1>13, CopyIs
  <2>2. CASE writer' = "companion"
    <3>1. PICK i \in 1..MaxManual : /\ manual' = [manual EXCEPT ![i] = db] /\ companion[i] = 0
                                    /\ \A j \in i + 1..MaxManual : manual[j] = NoFile
      BY <1>13, <2>2, CopyIs
    <3>2. db \in Content
      BY <1>13, <2>2, CopyIs
    <3>3. manual'[i] = db /\ \A j \in i + 1..MaxManual : manual'[j] = NoFile
      BY <3>1
    <3> QED BY <2>1, <3>1, <3>2, <3>3
  <2> QED BY <2>1, <2>2
<1>14. CASE Companion
  BY <1>14, CompanionIs, AfterCopyIs
<1>15. ASSUME NEW i \in 1..MaxManual, CleanCompanion(i) PROVE AwaitsCompanion'
  BY <1>15 DEF CleanCompanion, Expired
<1>16. ASSUME NEW i \in 1..MaxManual, CleanManual(i) PROVE AwaitsCompanion'
  BY <1>16 DEF CleanManual, Expired
<1>17. CASE RestoreBegin
  BY <1>17, RestoreBeginIs
<1>18. CASE RestoreGuard
  BY <1>18, RestoreGuardIs
<1>19. CASE MoveWal
  BY <1>19, MoveWalIs
<1>20. CASE MoveMain
  BY <1>20, MoveMainIs
<1>21. CASE MoveFails
  BY <1>21 DEF MoveFails
<1>22. CASE Install
  BY <1>22 DEF Install
<1>23. CASE Settle
  BY <1>23 DEF Settle, Done, Forget, LetGo
<1>24. CASE Undo
  BY <1>24 DEF Undo
<1>25. CASE PutMain
  BY <1>25 DEF PutMain
<1>26. CASE PutWal
  BY <1>26 DEF PutWal, Done, Forget, LetGo
<1>27. CASE StaysAside
  BY <1>27 DEF StaysAside, Done, Forget, LetGo
<1>28. CASE Replace
  BY <1>28 DEF Replace
<1>29. CASE Create
  BY <1>29, CreateIs
<1>30. CASE Fill
  BY <1>30 DEF Fill, Done, Forget
<1>31. CASE ReaderBegin
  BY <1>31 DEF ReaderBegin
<1>32. ASSUME Checkpoint \/ NextDay \/ (\E d \in 1..MaxDay : CleanDaily(d)) \/ HistoryOpen \/ HistoryWrite
      PROVE  UNCHANGED <<pc, db, manual, companion>>
  BY <1>32 DEF Checkpoint, NextDay, CleanDaily, HistoryOpen, HistoryWrite, Reconciled
<1>33. CASE UNCHANGED storeVars
  BY <1>33 DEF storeVars
<1> QED BY <1>1, <1>2, <1>3, <1>4, <1>5, <1>6, <1>7, <1>8, <1>9, <1>10, <1>11, <1>12,
    <1>13, <1>14, <1>15, <1>16, <1>17, <1>18, <1>19, <1>20, <1>21, <1>22, <1>23, <1>24,
    <1>25, <1>26, <1>27, <1>28, <1>29, <1>30, <1>31, <1>32, <1>33 DEF StoreNext, Load,
    Cleanup

\* Nothing is recorded, or deleted from the history, during the second half of a restore.
LEMMA GuardedKept ==
  ASSUME IInv, [StoreNext]_storeVars PROVE Guarded'
<1> USE StoreAssumption, ContentIs, NothingIs DEF IInv, Types, writer, Go, Process, Readable,
    File, database, copies, quarantine, writerVars, legacyVars, historyVars, counts, ghosts, Drawn,
    WriterKnows, Guarded, Guarding, Moves, Loading, Importing, Saving, HistoryKept, Moving
<1>1. ASSUME UNCHANGED <<pc, task, historyLock, moved, new, history, recorded, db>>
      PROVE Guarded'
  BY <1>1
<1>2. ASSUME NEW p \in Process, Stat(p) PROVE Guarded'
  BY <1>2 DEF Stat
<1>3. ASSUME NEW p \in Process, Open(p) PROVE Guarded'
  BY <1>3 DEF Open, AfterLoad, AfterFailure
<1>4. ASSUME NEW p \in Process, ImportBegin(p) PROVE Guarded'
  BY <1>4 DEF ImportBegin, AfterFailure
<1>5. ASSUME NEW p \in Process, ImportMark(p) PROVE Guarded'
  BY <1>5 DEF ImportMark
<1>6. ASSUME NEW p \in Process, ImportLink(p) PROVE Guarded'
  <2>1. CASE Published(p)
    BY <2>1 DEF Published, Imported
  <2>2. CASE Refused(p)
    BY <2>2 DEF Refused, Imported
  <2> QED BY <1>6, <2>1, <2>2, ImportLinkIs
<1>7. ASSUME NEW p \in Process, Crash(p) PROVE Guarded'
  BY <1>7 DEF Crash, Forget
<1>8. CASE SaveBegin
  BY <1>8 DEF SaveBegin, Start
<1>9. CASE Edit
  BY <1>9, EditIs
<1>10. CASE WritePrevious
  BY <1>10 DEF WritePrevious
<1>11. CASE WriteDaily
  BY <1>11 DEF WriteDaily
<1>12. CASE Commit
  BY <1>12 DEF Commit, Done, Forget
<1>13. CASE SaveFails
  BY <1>13 DEF SaveFails, Done, Forget
<1>14. CASE BackupBegin
  BY <1>14 DEF BackupBegin, Start
<1>15. CASE Copy
  BY <1>15, CopyIs, AfterCopyIs
<1>16. CASE Companion
  BY <1>16, CompanionIs, AfterCopyIs
<1>17. CASE BusinessBackup
  BY <1>17 DEF BusinessBackup, Done, Forget
<1>18. CASE CleanupBegin
  BY <1>18 DEF CleanupBegin, Start
<1>19. CASE CleanupEnd
  BY <1>19 DEF CleanupEnd, Done, Forget
<1>20. CASE RestoreBegin
  BY <1>20, RestoreBeginIs
<1>21. CASE RestoreGuard
  <2>1. /\ writer' = "aside" /\ new'.generation = files + 1 /\ historyLock' = "writer"
        /\ writer = "guard" /\ task = "restore" /\ UNCHANGED <<db, moved, task, recorded, history>>
    BY <1>21, RestoreGuardIs
  <2>2. moved.db = NoFile
    BY <2>1
  <2> QED BY <2>1, <2>2
<1>22. CASE MoveWal
  BY <1>22, MoveWalIs
<1>23. CASE MoveMain
  BY <1>23, MoveMainIs
<1>24. CASE MoveFails
  BY <1>24 DEF MoveFails
<1>25. CASE Install
  BY <1>25 DEF Install
<1>26. CASE Settle
  BY <1>26 DEF Settle, Done, Forget, LetGo
<1>27. CASE Undo
  BY <1>27 DEF Undo
<1>28. CASE PutMain
  BY <1>28 DEF PutMain
<1>29. CASE PutWal
  BY <1>29 DEF PutWal, Done, Forget, LetGo
<1>30. CASE StaysAside
  BY <1>30 DEF StaysAside, Done, Forget, LetGo
<1>31. CASE InitBegin
  BY <1>31 DEF InitBegin, Start
<1>32. CASE ForceBegin
  BY <1>32 DEF ForceBegin, Start
<1>33. CASE Replace
  BY <1>33 DEF Replace
<1>34. CASE Create
  BY <1>34, CreateIs
<1>35. CASE Fill
  BY <1>35 DEF Fill, Done, Forget
<1>36. CASE ReaderBegin
  BY <1>36 DEF ReaderBegin
<1>37. CASE HistoryOpen
  BY <1>37 DEF HistoryOpen
<1>38. CASE HistoryWrite
  BY <1>38 DEF HistoryWrite, Reconciled
<1>39. ASSUME Checkpoint \/ NextDay \/ (\E i \in 1..MaxManual : CleanCompanion(i)) \/ (\E i \in 1..MaxManual
    : CleanManual(i)) \/ (\E d \in 1..MaxDay : CleanDaily(d))
      PROVE  UNCHANGED <<pc, task, historyLock, moved, new, history, recorded, db>>
  BY <1>39 DEF Checkpoint, NextDay, CleanCompanion, CleanManual, CleanDaily, Expired
<1>40. CASE UNCHANGED storeVars
  BY <1>40 DEF storeVars
<1> QED BY <1>1, <1>2, <1>3, <1>4, <1>5, <1>6, <1>7, <1>8, <1>9, <1>10, <1>11, <1>12,
    <1>13, <1>14, <1>15, <1>16, <1>17, <1>18, <1>19, <1>20, <1>21, <1>22, <1>23, <1>24,
    <1>25, <1>26, <1>27, <1>28, <1>29, <1>30, <1>31, <1>32, <1>33, <1>34, <1>35, <1>36,
    <1>37, <1>38, <1>39, <1>40 DEF StoreNext, Load, Cleanup

\* Nobody changes the old family while a restore is moving it.
LEMMA MovingKept ==
  ASSUME IInv, [StoreNext]_storeVars PROVE Moving'
<1> USE StoreAssumption, ContentIs, NothingIs DEF IInv, Types, writer, Go, Process, Readable,
    File, database, copies, quarantine, writerVars, legacyVars, historyVars, counts, ghosts,
    Moving, Paired, Pending, InJson, OneFile, Guarded, Guarding, Moves,
    Untouched, Importing
<1>1. ASSUME UNCHANGED <<pc, database, loose, moved, live, json>> PROVE Moving'
  BY <1>1
<1>2. ASSUME NEW p \in Process, Stat(p) \/ ImportBegin(p) PROVE Moving'
  BY <1>2 DEF Stat, ImportBegin, AfterFailure
<1>3. ASSUME NEW p \in Process, Open(p) PROVE Moving'
  BY <1>3 DEF Open, AfterLoad, AfterFailure
<1>4. ASSUME NEW p \in Process, ImportMark(p) PROVE Moving'
  BY <1>4 DEF ImportMark
<1>5. ASSUME NEW p \in Process, ImportLink(p) PROVE Moving'
  <2>1. CASE Published(p)
    BY <2>1 DEF Published, Imported
  <2>2. CASE Refused(p)
    BY <2>2 DEF Refused, Imported
  <2> QED BY <1>5, <2>1, <2>2, ImportLinkIs
<1>6. ASSUME NEW p \in Process, Crash(p) PROVE Moving'
  BY <1>6 DEF Crash, Forget
<1>7. CASE SaveBegin \/ BackupBegin \/ CleanupBegin \/ InitBegin \/ ForceBegin
  BY <1>7 DEF SaveBegin, BackupBegin, CleanupBegin, InitBegin, ForceBegin, Start
<1>8. CASE Edit
  BY <1>8, EditIs
<1>9. CASE WritePrevious
  BY <1>9 DEF WritePrevious
<1>10. CASE WriteDaily
  BY <1>10 DEF WriteDaily
<1>11. CASE Commit
  BY <1>11 DEF Commit, Done, Forget
<1>12. CASE Checkpoint
  BY <1>12 DEF Checkpoint
<1>13. CASE SaveFails \/ BusinessBackup \/ CleanupEnd
  BY <1>13 DEF SaveFails, BusinessBackup, CleanupEnd, Done, Forget
<1>14. CASE Copy
  BY <1>14, CopyIs, AfterCopyIs
<1>15. CASE Companion
  BY <1>15, CompanionIs, AfterCopyIs
<1>16. CASE RestoreBegin
  BY <1>16, RestoreBeginIs
<1>17. CASE RestoreGuard
  BY <1>17, RestoreGuardIs
<1>18. CASE MoveWal
  BY <1>18, MoveWalIs
<1>19. CASE MoveMain
  BY <1>19, MoveMainIs
<1>20. CASE MoveFails
  BY <1>20 DEF MoveFails
<1>21. CASE Install
  BY <1>21 DEF Install
<1>22. CASE Settle
  BY <1>22 DEF Settle, Done, Forget, LetGo
<1>23. CASE Undo
  BY <1>23 DEF Undo
<1>24. CASE PutMain
  BY <1>24 DEF PutMain
<1>25. CASE PutWal
  BY <1>25 DEF PutWal, Done, Forget, LetGo
<1>26. CASE StaysAside
  BY <1>26 DEF StaysAside, Done, Forget, LetGo
<1>27. CASE Replace
  BY <1>27 DEF Replace
<1>28. CASE Create
  BY <1>28, CreateIs
<1>29. CASE Fill
  BY <1>29 DEF Fill, Done, Forget
<1>30. CASE ReaderBegin
  BY <1>30 DEF ReaderBegin
<1>31. ASSUME NextDay \/ (\E i \in 1..MaxManual : CleanCompanion(i)) \/ (\E i \in 1..MaxManual
    : CleanManual(i)) \/ (\E d \in 1..MaxDay : CleanDaily(d)) \/ HistoryOpen \/
    HistoryWrite
      PROVE  UNCHANGED <<pc, database, loose, moved, live, json>>
  BY <1>31 DEF NextDay, CleanCompanion, CleanManual, CleanDaily, HistoryOpen,
      HistoryWrite, Expired, Reconciled
<1>32. CASE UNCHANGED storeVars
  BY <1>32 DEF storeVars
<1> QED BY <1>1, <1>2, <1>3, <1>4, <1>5, <1>6, <1>7, <1>8, <1>9, <1>10, <1>11, <1>12,
    <1>13, <1>14, <1>15, <1>16, <1>17, <1>18, <1>19, <1>20, <1>21, <1>22, <1>23, <1>24,
    <1>25, <1>26, <1>27, <1>28, <1>29, <1>30, <1>31, <1>32 DEF StoreNext, Load, Cleanup

\* What is moved aside stays there while it may be put back.
LEMMA HeldKept ==
  ASSUME IInv, [StoreNext]_storeVars PROVE Held'
<1> USE StoreAssumption, ContentIs, NothingIs DEF IInv, Types, writer, Go, Process, Readable,
    File, database, copies, quarantine, writerVars, legacyVars, historyVars, counts, ghosts,
    Held, Elsewhere, Recoverable, Kept, InPieces, InJson, Moving, Paired,
    Pending, OneFile, Guarded, Guarding, Moves, Untouched, Importing
<1>1. ASSUME UNCHANGED <<pc, quarantine, live, json>> PROVE Held'
  BY <1>1
<1>2. ASSUME NEW p \in Process, Stat(p) \/ ImportBegin(p) PROVE Held'
  BY <1>2 DEF Stat, ImportBegin, AfterFailure
<1>3. ASSUME NEW p \in Process, Open(p) PROVE Held'
  BY <1>3 DEF Open, AfterLoad, AfterFailure
<1>4. ASSUME NEW p \in Process, ImportMark(p) PROVE Held'
  BY <1>4 DEF ImportMark
<1>5. ASSUME NEW p \in Process, ImportLink(p) PROVE Held'
  <2>1. CASE Published(p)
    BY <2>1 DEF Published, Imported
  <2>2. CASE Refused(p)
    BY <2>2 DEF Refused, Imported
  <2> QED BY <1>5, <2>1, <2>2, ImportLinkIs
<1>6. ASSUME NEW p \in Process, Crash(p) PROVE Held'
  BY <1>6 DEF Crash, Forget
<1>7. CASE SaveBegin \/ BackupBegin \/ CleanupBegin \/ InitBegin \/ ForceBegin
  BY <1>7 DEF SaveBegin, BackupBegin, CleanupBegin, InitBegin, ForceBegin, Start
<1>8. CASE Edit
  BY <1>8, EditIs
<1>9. CASE WritePrevious
  BY <1>9 DEF WritePrevious
<1>10. CASE WriteDaily
  BY <1>10 DEF WriteDaily
<1>11. CASE Commit
  BY <1>11 DEF Commit, Done, Forget
<1>12. CASE Checkpoint
  BY <1>12 DEF Checkpoint
<1>13. CASE SaveFails \/ BusinessBackup \/ CleanupEnd
  BY <1>13 DEF SaveFails, BusinessBackup, CleanupEnd, Done, Forget
<1>14. CASE Copy
  BY <1>14, CopyIs, AfterCopyIs
<1>15. CASE Companion
  BY <1>15, CompanionIs, AfterCopyIs
<1>16. CASE RestoreBegin
  BY <1>16, RestoreBeginIs
<1>17. CASE RestoreGuard
  BY <1>17, RestoreGuardIs
<1>18. CASE MoveWal
  BY <1>18, MoveWalIs
<1>19. CASE MoveMain
  <2>1. /\ writer = "main" /\ db = main /\ UNCHANGED <<live, json>> /\ loose' = loose \ {moved'}
        /\ aside \subseteq aside'
    BY <1>19, MoveMainIs
  <2>2. db # NoFile => /\ moved' \in aside' /\ moved'.main = main
                       /\ moved'.db = moved'.main \/ moved'.db = live \/ InJson(live)
    BY <1>19, <2>1, MoveMainIs
  <2>3. CASE live = NoFile \/ InJson(live)
    BY <2>1, <2>3
  <2>4. ASSUME live # NoFile, ~InJson(live), live = db PROVE Elsewhere'
    BY <2>1, <2>2, <2>4
  <2>5. ASSUME NEW q \in aside, q.db = live PROVE Elsewhere'
    BY <2>1, <2>5
  <2>6. ASSUME live # NoFile, NEW q \in loose, q.db = live, q.main = main \/ \E r \in aside : r.main = q.main
        PROVE  Elsewhere'
    <3>1. \E r \in aside' : r.main = q.main
      BY <2>1, <2>2, <2>6
    <3>2. CASE q = moved'
      <4>1. moved' \in aside'
        BY <1>19, <2>1, <2>2, <2>6, <3>2, MoveMainIs
      <4> QED BY <2>1, <2>6, <3>2, <4>1
    <3>3. CASE q # moved'
      BY <2>1, <2>6, <3>1, <3>3
    <3> QED BY <3>2, <3>3
  <2> QED BY <2>1, <2>3, <2>4, <2>5, <2>6
<1>20. CASE MoveFails
  BY <1>20 DEF MoveFails
<1>21. CASE Install
  BY <1>21 DEF Install
<1>22. CASE Settle
  BY <1>22 DEF Settle, Done, Forget, LetGo
<1>23. CASE Undo
  BY <1>23 DEF Undo
<1>24. CASE PutMain
  BY <1>24 DEF PutMain
<1>25. CASE PutWal
  BY <1>25 DEF PutWal, Done, Forget, LetGo
<1>26. CASE StaysAside
  BY <1>26 DEF StaysAside, Done, Forget, LetGo
<1>27. CASE Replace
  BY <1>27 DEF Replace
<1>28. CASE Create
  BY <1>28, CreateIs
<1>29. CASE Fill
  BY <1>29 DEF Fill, Done, Forget
<1>30. CASE ReaderBegin
  BY <1>30 DEF ReaderBegin
<1>31. ASSUME NextDay \/ (\E i \in 1..MaxManual : CleanCompanion(i)) \/ (\E i \in 1..MaxManual
    : CleanManual(i)) \/ (\E d \in 1..MaxDay : CleanDaily(d)) \/ HistoryOpen \/
    HistoryWrite
      PROVE  UNCHANGED <<pc, quarantine, live, json>>
  BY <1>31 DEF NextDay, CleanCompanion, CleanManual, CleanDaily, HistoryOpen,
      HistoryWrite, Expired, Reconciled
<1>32. CASE UNCHANGED storeVars
  BY <1>32 DEF storeVars
<1> QED BY <1>1, <1>2, <1>3, <1>4, <1>5, <1>6, <1>7, <1>8, <1>9, <1>10, <1>11, <1>12,
    <1>13, <1>14, <1>15, <1>16, <1>17, <1>18, <1>19, <1>20, <1>21, <1>22, <1>23, <1>24,
    <1>25, <1>26, <1>27, <1>28, <1>29, <1>30, <1>31, <1>32 DEF StoreNext, Load, Cleanup

\* Nobody touches the file that init is filling.
LEMMA FillingKept ==
  ASSUME IInv, [StoreNext]_storeVars PROVE Filling'
<1> USE StoreAssumption, ContentIs, NothingIs DEF IInv, Types, writer, Go, Process, Readable,
    File, database, copies, quarantine, writerVars, legacyVars, historyVars, counts, ghosts, Filling, Locked,
    Guarded, Guarding, Moves
<1>1. ASSUME UNCHANGED <<pc, db, new, recorded>> PROVE Filling'
  BY <1>1
<1>2. ASSUME NEW p \in Process, Stat(p) \/ ImportBegin(p) PROVE Filling'
  BY <1>2 DEF Stat, ImportBegin, AfterFailure
<1>3. ASSUME NEW p \in Process, Open(p) PROVE Filling'
  BY <1>3 DEF Open, AfterLoad, AfterFailure
<1>4. ASSUME NEW p \in Process, ImportMark(p) PROVE Filling'
  BY <1>4 DEF ImportMark
<1>5. ASSUME NEW p \in Process, ImportLink(p) PROVE Filling'
  <2>1. CASE Published(p)
    BY <2>1 DEF Published, Imported
  <2>2. CASE Refused(p)
    BY <2>2 DEF Refused, Imported
  <2> QED BY <1>5, <2>1, <2>2, ImportLinkIs
<1>6. ASSUME NEW p \in Process, Crash(p) PROVE Filling'
  BY <1>6 DEF Crash, Forget
<1>7. CASE SaveBegin \/ BackupBegin \/ CleanupBegin \/ InitBegin \/ ForceBegin
  BY <1>7 DEF SaveBegin, BackupBegin, CleanupBegin, InitBegin, ForceBegin, Start
<1>8. CASE Edit
  BY <1>8, EditIs
<1>9. CASE WritePrevious
  BY <1>9 DEF WritePrevious
<1>10. CASE WriteDaily
  BY <1>10 DEF WriteDaily
<1>11. CASE Commit
  BY <1>11 DEF Commit, Done, Forget
<1>12. CASE SaveFails \/ BusinessBackup \/ CleanupEnd
  BY <1>12 DEF SaveFails, BusinessBackup, CleanupEnd, Done, Forget
<1>13. CASE Copy
  BY <1>13, CopyIs, AfterCopyIs
<1>14. CASE Companion
  BY <1>14, CompanionIs, AfterCopyIs
<1>15. CASE RestoreBegin
  BY <1>15, RestoreBeginIs
<1>16. CASE RestoreGuard
  BY <1>16, RestoreGuardIs
<1>17. CASE MoveWal
  BY <1>17, MoveWalIs
<1>18. CASE MoveMain
  BY <1>18, MoveMainIs
<1>19. CASE MoveFails
  BY <1>19 DEF MoveFails
<1>20. CASE Install
  BY <1>20 DEF Install
<1>21. CASE Settle
  BY <1>21 DEF Settle, Done, Forget, LetGo
<1>22. CASE Undo
  BY <1>22 DEF Undo
<1>23. CASE PutMain
  BY <1>23 DEF PutMain
<1>24. CASE PutWal
  BY <1>24 DEF PutWal, Done, Forget, LetGo
<1>25. CASE StaysAside
  BY <1>25 DEF StaysAside, Done, Forget, LetGo
<1>26. CASE Replace
  BY <1>26 DEF Replace
<1>27. CASE Create
  BY <1>27, CreateIs
<1>28. CASE Fill
  BY <1>28 DEF Fill, Done, Forget
<1>29. CASE ReaderBegin
  BY <1>29 DEF ReaderBegin
<1>30. CASE HistoryWrite
  BY <1>30 DEF HistoryWrite, Reconciled
<1>31. ASSUME Checkpoint \/ NextDay \/ (\E i \in 1..MaxManual : CleanCompanion(i)) \/ (\E i \in 1..MaxManual
    : CleanManual(i)) \/ (\E d \in 1..MaxDay : CleanDaily(d)) \/ HistoryOpen
      PROVE  UNCHANGED <<pc, db, new, recorded>>
  BY <1>31 DEF Checkpoint, NextDay, CleanCompanion, CleanManual, CleanDaily, HistoryOpen, Expired
<1>32. CASE UNCHANGED storeVars
  BY <1>32 DEF storeVars
<1> QED BY <1>1, <1>2, <1>3, <1>4, <1>5, <1>6, <1>7, <1>8, <1>9, <1>10, <1>11, <1>12,
    <1>13, <1>14, <1>15, <1>16, <1>17, <1>18, <1>19, <1>20, <1>21, <1>22, <1>23, <1>24,
    <1>25, <1>26, <1>27, <1>28, <1>29, <1>30, <1>31, <1>32 DEF StoreNext, Load, Cleanup

\* No other generation comes in while the history is in use.
LEMMA LockedKept ==
  ASSUME IInv, [StoreNext]_storeVars PROVE Locked'
<1> USE StoreAssumption, ContentIs, NothingIs DEF IInv, Types, writer, Go, Process, Readable,
    File, database, copies, quarantine, writerVars, legacyVars, historyVars, counts, ghosts, Locked, Guarded,
    Guarding, Moves, WriterKnows, Saving, Filling
<1>1. ASSUME UNCHANGED <<historyLock, db, wanted>> PROVE Locked'
  BY <1>1
<1>2. ASSUME NEW p \in Process, Open(p) PROVE Locked'
  BY <1>2 DEF Open, AfterLoad, AfterFailure
<1>3. ASSUME NEW p \in Process, ImportLink(p) PROVE Locked'
  <2>1. CASE Published(p)
    BY <2>1 DEF Published, Imported
  <2>2. CASE Refused(p)
    BY <2>2 DEF Refused, Imported
  <2> QED BY <1>3, <2>1, <2>2, ImportLinkIs
<1>4. ASSUME NEW p \in Process, Crash(p) PROVE Locked'
  BY <1>4 DEF Crash, Forget
<1>5. CASE Commit
  BY <1>5 DEF Commit, Done, Forget
<1>6. CASE RestoreGuard
  BY <1>6, RestoreGuardIs
<1>7. CASE MoveWal
  BY <1>7, MoveWalIs
<1>8. CASE MoveMain
  BY <1>8, MoveMainIs
<1>9. CASE MoveFails
  BY <1>9 DEF MoveFails
<1>10. CASE Install
  BY <1>10 DEF Install
<1>11. CASE Settle
  BY <1>11 DEF Settle, Done, Forget, LetGo
<1>12. CASE Undo
  BY <1>12 DEF Undo
<1>13. CASE PutMain
  BY <1>13 DEF PutMain
<1>14. CASE PutWal
  BY <1>14 DEF PutWal, Done, Forget, LetGo
<1>15. CASE StaysAside
  BY <1>15 DEF StaysAside, Done, Forget, LetGo
<1>16. CASE Create
  BY <1>16, CreateIs
<1>17. CASE Fill
  BY <1>17 DEF Fill, Done, Forget
<1>18. CASE HistoryOpen
  BY <1>18 DEF HistoryOpen
<1>19. CASE HistoryWrite
  BY <1>19 DEF HistoryWrite, Reconciled
<1>20. ASSUME (\E p \in Process : Stat(p)) \/ (\E p \in Process : ImportBegin(p)) \/ (\E p \in
    Process : ImportMark(p)) \/ SaveBegin \/ Edit \/ WritePrevious \/ WriteDaily \/
    SaveFails \/ Checkpoint \/ NextDay \/ BackupBegin \/ Copy \/ Companion \/ BusinessBackup \/
    CleanupBegin \/ CleanupEnd \/ (\E i \in 1..MaxManual : CleanCompanion(i)) \/ (\E i
    \in 1..MaxManual : CleanManual(i)) \/ (\E d \in 1..MaxDay : CleanDaily(d)) \/
    RestoreBegin \/ InitBegin \/ ForceBegin \/ Replace \/ ReaderBegin
      PROVE  UNCHANGED <<historyLock, db, wanted>>
  BY <1>20 DEF Stat, ImportBegin, ImportMark, SaveBegin, Edit, WritePrevious,
      WriteDaily, SaveFails, Checkpoint, NextDay, BackupBegin, Copy, Companion, BusinessBackup,
      CleanupBegin, CleanupEnd, CleanCompanion, CleanManual, CleanDaily, RestoreBegin,
      InitBegin, ForceBegin, Replace, ReaderBegin, AfterFailure, Start, Done, Forget,
      Expired, Backups
<1>21. CASE UNCHANGED storeVars
  BY <1>21 DEF storeVars
<1> QED BY <1>1, <1>2, <1>3, <1>4, <1>5, <1>6, <1>7, <1>8, <1>9, <1>10, <1>11, <1>12,
    <1>13, <1>14, <1>15, <1>16, <1>17, <1>18, <1>19, <1>20, <1>21 DEF StoreNext, Load,
    Cleanup

\* The first database there ever is comes with the marker, if there is a state.json.
LEMMA UntouchedKept ==
  ASSUME IInv, [StoreNext]_storeVars PROVE Untouched'
<1> USE StoreAssumption, ContentIs, NothingIs DEF IInv, Types, writer, Go, Process, Readable,
    File, database, copies, quarantine, writerVars, legacyVars, historyVars, counts, ghosts, Untouched,
    Importing, Guarded, Guarding, Moves, WriterKnows, Saving
<1>1. ASSUME UNCHANGED <<pc, json, marker, everLive, db, task, previous, daily, manual>>
      PROVE Untouched'
  BY <1>1
<1>2. ASSUME NEW p \in Process, Stat(p) PROVE Untouched'
  BY <1>2 DEF Stat
<1>3. ASSUME NEW p \in Process, Open(p) PROVE Untouched'
  BY <1>3 DEF Open, AfterLoad, AfterFailure
<1>4. ASSUME NEW p \in Process, ImportBegin(p) PROVE Untouched'
  BY <1>4 DEF ImportBegin, AfterFailure
<1>5. ASSUME NEW p \in Process, ImportMark(p) PROVE Untouched'
  BY <1>5 DEF ImportMark
<1>6. ASSUME NEW p \in Process, ImportLink(p) PROVE Untouched'
  <2>1. CASE Published(p)
    BY <2>1 DEF Published, Imported
  <2>2. CASE Refused(p)
    BY <2>2 DEF Refused, Imported
  <2> QED BY <1>6, <2>1, <2>2, ImportLinkIs
<1>7. ASSUME NEW p \in Process, Crash(p) PROVE Untouched'
  BY <1>7 DEF Crash, Forget
<1>8. CASE SaveBegin
  BY <1>8 DEF SaveBegin, Start
<1>9. CASE Edit
  <2>1. /\ ~(json /\ ~marker) /\ UNCHANGED <<json, marker>>
        /\ \A p \in Process : pc'[p] \in Importing \cup {"link"} => pc'[p] = pc[p]
    BY <1>9, EditIs
  <2> QED BY <2>1
<1>10. CASE WritePrevious
  BY <1>10 DEF WritePrevious
<1>11. CASE WriteDaily
  BY <1>11 DEF WriteDaily
<1>12. CASE Commit
  BY <1>12 DEF Commit, Done, Forget
<1>13. CASE SaveFails
  BY <1>13 DEF SaveFails, Done, Forget
<1>14. CASE BackupBegin
  BY <1>14 DEF BackupBegin, Start
<1>15. CASE Copy
  <2>1. /\ UNCHANGED <<json, marker, everLive, db, task, previous, daily>>
        /\ \A p \in Process : pc'[p] \in Importing \cup {"link"} => pc'[p] = pc[p]
        /\ writer' \in {"idle", "companion", AfterCopy}
    BY <1>15, CopyIs, AfterCopyIs
  <2>2. json /\ ~marker => UNCHANGED manual
    BY <1>15, CopyIs
  <2> QED BY <2>1, <2>2, AfterCopyIs
<1>16. CASE Companion
  <2>1. /\ ~(json /\ ~marker) /\ UNCHANGED <<json, marker>>
        /\ \A p \in Process : pc'[p] \in Importing \cup {"link"} => pc'[p] = pc[p]
    BY <1>16, CompanionIs, AfterCopyIs DEF AwaitsCompanion
  <2> QED BY <2>1
<1>17. CASE BusinessBackup
  BY <1>17 DEF BusinessBackup, Done, Forget
<1>18. CASE CleanupBegin
  BY <1>18 DEF CleanupBegin, Start
<1>19. CASE CleanupEnd
  BY <1>19 DEF CleanupEnd, Done, Forget
<1>20. ASSUME NEW i \in 1..MaxManual, CleanManual(i) PROVE Untouched'
  BY <1>20 DEF CleanManual, Expired
<1>21. ASSUME NEW d \in 1..MaxDay, CleanDaily(d) PROVE Untouched'
  BY <1>21 DEF CleanDaily
<1>22. CASE RestoreBegin
  BY <1>22, RestoreBeginIs
<1>23. CASE RestoreGuard
  <2>1. /\ ~(json /\ ~marker) /\ UNCHANGED <<json, marker>>
        /\ \A p \in Process : pc'[p] \in Importing \cup {"link"} => pc'[p] = pc[p]
    BY <1>23, RestoreGuardIs
  <2> QED BY <2>1
<1>24. CASE MoveWal
  BY <1>24, MoveWalIs
<1>25. CASE MoveMain
  BY <1>25, MoveMainIs
<1>26. CASE MoveFails
  BY <1>26 DEF MoveFails
<1>27. CASE Install
  BY <1>27 DEF Install
<1>28. CASE Settle
  BY <1>28 DEF Settle, Done, Forget, LetGo
<1>29. CASE Undo
  BY <1>29 DEF Undo
<1>30. CASE PutMain
  BY <1>30 DEF PutMain
<1>31. CASE PutWal
  BY <1>31 DEF PutWal, Done, Forget, LetGo
<1>32. CASE StaysAside
  BY <1>32 DEF StaysAside, Done, Forget, LetGo
<1>33. CASE InitBegin
  BY <1>33 DEF InitBegin, Start
<1>34. CASE ForceBegin
  BY <1>34 DEF ForceBegin, Start
<1>35. CASE Replace
  BY <1>35 DEF Replace
<1>36. CASE Create
  <2>1. /\ ~(json /\ ~marker) /\ UNCHANGED <<json, marker>>
        /\ \A p \in Process : pc'[p] \in Importing \cup {"link"} => pc'[p] = pc[p]
    BY <1>36, CreateIs
  <2> QED BY <2>1
<1>37. CASE Fill
  BY <1>37 DEF Fill, Done, Forget
<1>38. CASE ReaderBegin
  BY <1>38 DEF ReaderBegin
<1>39. ASSUME Checkpoint \/ NextDay \/ (\E i \in 1..MaxManual : CleanCompanion(i)) \/ HistoryOpen \/
    HistoryWrite
      PROVE  UNCHANGED <<pc, json, marker, everLive, db, task, previous, daily, manual>>
  BY <1>39 DEF Checkpoint, NextDay, CleanCompanion, HistoryOpen, HistoryWrite, Expired, Reconciled
<1>40. CASE UNCHANGED storeVars
  BY <1>40 DEF storeVars
<1> QED BY <1>1, <1>2, <1>3, <1>4, <1>5, <1>6, <1>7, <1>8, <1>9, <1>10, <1>11, <1>12,
    <1>13, <1>14, <1>15, <1>16, <1>17, <1>18, <1>19, <1>20, <1>21, <1>22, <1>23, <1>24,
    <1>25, <1>26, <1>27, <1>28, <1>29, <1>30, <1>31, <1>32, <1>33, <1>34, <1>35, <1>36,
    <1>37, <1>38, <1>39, <1>40 DEF StoreNext, Load, Cleanup

\* The last content left is moved, never dropped.
LEMMA RecoverableKept ==
  ASSUME IInv, [StoreNext]_storeVars PROVE Recoverable'
<1> USE StoreAssumption, ContentIs, NothingIs DEF IInv, Types, writer, Go, Process, Readable,
    File, database, copies, quarantine, writerVars, legacyVars, historyVars, counts, ghosts,
    Recoverable, Kept, InPieces, InJson, OneFile, Paired, Pending, Guarded,
    Guarding, Moves, Moving, Held, Elsewhere, Filling, Untouched, Importing
<1>1. ASSUME UNCHANGED <<live, database, quarantine, json>> PROVE Recoverable'
  BY <1>1
<1>2. ASSUME NEW p \in Process, Open(p) PROVE Recoverable'
  BY <1>2 DEF Open, AfterLoad, AfterFailure
<1>3. ASSUME NEW p \in Process, ImportLink(p) PROVE Recoverable'
  <2>1. CASE Published(p)
    BY <2>1 DEF Published, Imported
  <2>2. CASE Refused(p)
    BY <2>2 DEF Refused, Imported
  <2> QED BY <1>3, <2>1, <2>2, ImportLinkIs
<1>4. CASE Commit
  BY <1>4 DEF Commit, Done, Forget
<1>5. CASE Checkpoint
  BY <1>5 DEF Checkpoint
<1>6. CASE MoveWal
  BY <1>6, MoveWalIs
<1>7. CASE MoveMain
  BY <1>7, MoveMainIs
<1>8. CASE MoveFails
  BY <1>8 DEF MoveFails
<1>9. CASE Install
  BY <1>9 DEF Install
<1>10. CASE Settle
  BY <1>10 DEF Settle, Done, Forget, LetGo
<1>11. CASE Undo
  BY <1>11 DEF Undo
<1>12. CASE PutMain
  BY <1>12 DEF PutMain
<1>13. CASE PutWal
  BY <1>13 DEF PutWal, Done, Forget, LetGo
<1>14. CASE StaysAside
  BY <1>14 DEF StaysAside, Done, Forget, LetGo
<1>15. CASE Create
  BY <1>15, CreateIs
<1>16. CASE Fill
  BY <1>16 DEF Fill, Done, Forget
<1>17. ASSUME (\E p \in Process : Stat(p)) \/ (\E p \in Process : ImportBegin(p)) \/ (\E p \in
    Process : ImportMark(p)) \/ (\E p \in Process : Crash(p)) \/ SaveBegin \/ Edit \/
    WritePrevious \/ WriteDaily \/ SaveFails \/ NextDay \/ BackupBegin \/ Copy \/
    Companion \/ BusinessBackup \/ CleanupBegin \/ CleanupEnd \/ (\E i \in 1..MaxManual
    : CleanCompanion(i)) \/ (\E i \in 1..MaxManual : CleanManual(i)) \/ (\E d \in
    1..MaxDay : CleanDaily(d)) \/ RestoreBegin \/ RestoreGuard \/ InitBegin \/
    ForceBegin \/ Replace \/ ReaderBegin \/ HistoryOpen \/ HistoryWrite
      PROVE  UNCHANGED <<live, database, quarantine, json>>
  BY <1>17 DEF Stat, ImportBegin, ImportMark, Crash, SaveBegin, Edit, WritePrevious,
      WriteDaily, SaveFails, NextDay, BackupBegin, Copy, Companion, BusinessBackup,
      CleanupBegin, CleanupEnd, CleanCompanion, CleanManual, CleanDaily, RestoreBegin,
      RestoreGuard, InitBegin, ForceBegin, Replace, ReaderBegin, HistoryOpen,
      HistoryWrite, AfterFailure, Forget, Start, Done, Expired, Backups, Reconciled
<1>18. CASE UNCHANGED storeVars
  BY <1>18 DEF storeVars
<1> QED BY <1>1, <1>2, <1>3, <1>4, <1>5, <1>6, <1>7, <1>8, <1>9, <1>10, <1>11, <1>12,
    <1>13, <1>14, <1>15, <1>16, <1>17, <1>18 DEF StoreNext, Load, Cleanup

\* Companions come after their backup and go before it.
LEMMA CompanionMatchesKept ==
  ASSUME IInv, [StoreNext]_storeVars PROVE CompanionMatches'
<1> USE StoreAssumption, ContentIs, NothingIs DEF IInv, Types, writer, Go, Process, Readable,
    File, database, copies, quarantine, writerVars, legacyVars, historyVars, counts, ghosts,
    CompanionMatches, AwaitsCompanion
<1>1. ASSUME UNCHANGED <<companion, manual>> PROVE CompanionMatches'
  BY <1>1
<1>2. CASE Copy
  BY <1>2, CopyIs, AfterCopyIs
<1>3. CASE Companion
  <2>1. PICK i \in 1..MaxManual :
          /\ manual[i] \in Content /\ manual[i].generation = db.generation /\ companion[i] = 0
          /\ \/ companion' = [companion EXCEPT ![i] = db.generation] /\ UNCHANGED manual
             \/ manual' = [manual EXCEPT ![i] = NoFile] /\ UNCHANGED companion
    BY <1>3, CompanionIs
  <2>2. ASSUME NEW j \in 1..MaxManual, companion'[j] # 0
        PROVE  Readable(manual'[j]) /\ manual'[j].generation = companion'[j]
    <3>1. CASE j = i
      BY <2>1, <2>2, <3>1
    <3>2. CASE j # i
      BY <2>1, <2>2, <3>2
    <3> QED BY <3>1, <3>2
  <2> QED BY <2>2
<1>4. ASSUME NEW i \in 1..MaxManual, CleanCompanion(i) PROVE CompanionMatches'
  BY <1>4 DEF CleanCompanion, Expired
<1>5. ASSUME NEW i \in 1..MaxManual, CleanManual(i) PROVE CompanionMatches'
  BY <1>5 DEF CleanManual, Expired
<1>6. ASSUME (\E p \in Process : Stat(p)) \/ (\E p \in Process : Open(p)) \/ (\E p \in
    Process : ImportBegin(p)) \/ (\E p \in Process : ImportMark(p)) \/ (\E p \in
    Process : ImportLink(p)) \/ (\E p \in Process : Crash(p)) \/ SaveBegin \/ Edit \/
    WritePrevious \/ WriteDaily \/ Commit \/ SaveFails \/ Checkpoint \/ NextDay \/ BackupBegin \/
    BusinessBackup \/ CleanupBegin \/ CleanupEnd \/ (\E d \in 1..MaxDay :
    CleanDaily(d)) \/ RestoreBegin \/ RestoreGuard \/ MoveWal \/ MoveMain \/ MoveFails \/ Install \/ Settle \/
    Undo \/ PutMain \/ PutWal \/ StaysAside \/ InitBegin \/ ForceBegin \/ Replace \/ Create \/ Fill \/
    ReaderBegin \/ HistoryOpen \/ HistoryWrite
      PROVE  UNCHANGED <<companion, manual>>
  BY <1>6 DEF Stat, Open, ImportBegin, ImportMark, ImportLink, Crash, SaveBegin, Edit,
      WritePrevious, WriteDaily, Commit, SaveFails, Checkpoint, NextDay, BackupBegin,
      BusinessBackup, CleanupBegin, CleanupEnd, CleanDaily, RestoreBegin, RestoreGuard,
      MoveWal, MoveMain, MoveFails, Install, Settle, Undo, PutMain, PutWal, StaysAside,
      InitBegin, ForceBegin, Replace, Create, Fill, ReaderBegin, HistoryOpen, HistoryWrite, AfterLoad, AfterFailure,
      Forget, Start, Done, Backups, LetGo, Reconciled
<1>7. CASE UNCHANGED storeVars
  BY <1>7 DEF storeVars
<1> QED BY <1>1, <1>2, <1>3, <1>4, <1>5, <1>6, <1>7 DEF StoreNext, Load, Cleanup

\* What state.db comes to hold is either new or was kept during the restore.
LEMMA HistoryStays ==
  ASSUME IInv, [StoreNext]_storeVars PROVE HistoryKept'
<1> USE StoreAssumption, ContentIs, NothingIs DEF IInv, Types, writer, Go, Process, Readable,
    File, database, copies, quarantine, writerVars, legacyVars, historyVars, counts, ghosts, HistoryKept,
    Guarded, Guarding, Moves, Filling, Locked, Drawn, WriterKnows, Saving
<1>1. ASSUME UNCHANGED <<db, recorded, history>> PROVE HistoryKept'
  BY <1>1
<1>2. ASSUME NEW p \in Process, Open(p) PROVE HistoryKept'
  BY <1>2 DEF Open, AfterLoad, AfterFailure
<1>3. ASSUME NEW p \in Process, ImportLink(p) PROVE HistoryKept'
  <2>1. CASE Published(p)
    BY <2>1 DEF Published, Imported
  <2>2. CASE Refused(p)
    BY <2>2 DEF Refused, Imported
  <2> QED BY <1>3, <2>1, <2>2, ImportLinkIs
<1>4. CASE Commit
  BY <1>4 DEF Commit, Done, Forget
<1>5. CASE Companion
  BY <1>5, CompanionIs, AfterCopyIs
<1>6. CASE MoveWal
  BY <1>6, MoveWalIs DEF OneFile, Paired
<1>7. CASE MoveMain
  BY <1>7, MoveMainIs
<1>8. CASE MoveFails
  BY <1>8 DEF MoveFails
<1>9. CASE Install
  BY <1>9 DEF Install
<1>10. CASE Undo
  BY <1>10 DEF Undo
<1>11. CASE PutMain
  BY <1>11 DEF PutMain, Moving, Paired, Family
<1>12. CASE PutWal
  BY <1>12 DEF PutWal, Moving, Paired, Family, Done, Forget, LetGo
<1>13. CASE StaysAside
  BY <1>13 DEF StaysAside, Done, Forget, LetGo
<1>14. CASE Create
  BY <1>14, CreateIs
<1>15. CASE Fill
  BY <1>15 DEF Fill, Done, Forget
<1>16. CASE HistoryWrite
  BY <1>16 DEF HistoryWrite, Reconciled
<1>17. ASSUME (\E p \in Process : Stat(p)) \/ (\E p \in Process : ImportBegin(p)) \/ (\E p \in
    Process : ImportMark(p)) \/ (\E p \in Process : Crash(p)) \/ SaveBegin \/ Edit \/
    WritePrevious \/ WriteDaily \/ SaveFails \/ Checkpoint \/ NextDay \/ BackupBegin \/ Copy \/
    BusinessBackup \/ CleanupBegin \/ CleanupEnd \/ (\E i \in 1..MaxManual :
    CleanCompanion(i)) \/ (\E i \in 1..MaxManual : CleanManual(i)) \/ (\E d \in
    1..MaxDay : CleanDaily(d)) \/ RestoreBegin \/ RestoreGuard \/ Settle \/ InitBegin
    \/ ForceBegin \/ Replace \/ ReaderBegin \/ HistoryOpen
      PROVE  UNCHANGED <<db, recorded, history>>
  BY <1>17 DEF Stat, ImportBegin, ImportMark, Crash, SaveBegin, Edit, WritePrevious,
      WriteDaily, SaveFails, Checkpoint, NextDay, BackupBegin, Copy, BusinessBackup, CleanupBegin,
      CleanupEnd, CleanCompanion, CleanManual, CleanDaily, RestoreBegin, RestoreGuard,
      Settle, InitBegin, ForceBegin, Replace, ReaderBegin, HistoryOpen, AfterFailure,
      Forget, Start, Done, Expired, Backups, LetGo
<1>18. CASE UNCHANGED storeVars
  BY <1>18 DEF storeVars
<1> QED BY <1>1, <1>2, <1>3, <1>4, <1>5, <1>6, <1>7, <1>8, <1>9, <1>10, <1>11, <1>12,
    <1>13, <1>14, <1>15, <1>16, <1>17, <1>18 DEF StoreNext, Load, Cleanup

LEMMA StepInv == IInv /\ [StoreNext]_storeVars => IInv'
<1> SUFFICES ASSUME IInv, [StoreNext]_storeVars PROVE IInv'
  OBVIOUS
<1>1. Types' /\ Drawn' /\ OneFile' /\ WriterKnows' /\ CopiedFirst' /\ AwaitsCompanion'
  BY TypesKept, DrawnKept, OneFileKept, WriterKnowsKept, CopiedFirstKept, AwaitsCompanionKept
<1>2. Guarded' /\ Moving' /\ Held' /\ Filling' /\ Locked' /\ Untouched'
  BY GuardedKept, MovingKept, HeldKept, FillingKept, LockedKept, UntouchedKept
<1>3. Recoverable' /\ CompanionMatches' /\ HistoryKept'
  BY RecoverableKept, CompanionMatchesKept, HistoryStays
<1> QED BY <1>1, <1>2, <1>3 DEF IInv

\* Only a save replaces the State that was left last by one of the same
\* identities: a restore comes with others, and an import where there is none.
LEMMA CopyPrecedes ==
  ASSUME IInv, [StoreNext]_storeVars, Readable(db), Readable(db'), live' # live,
         db'.generation = db.generation, db'.control # db.control
  PROVE  previous = db
<1> USE StoreAssumption DEF IInv, Types, Readable, File, writer, Go, database, copies, quarantine, writerVars,
                            legacyVars, historyVars, counts, ghosts
<1>1. CASE Commit
  BY <1>1 DEF Commit, WriterKnows, Saving, CopiedFirst
<1>2. CASE Fill
  BY <1>2 DEF Fill, Filling
<1>3. ASSUME NEW p \in Process, Load(p) \/ Crash(p) PROVE FALSE
  BY <1>3 DEF Load, Stat, Open, ImportBegin, ImportMark, ImportLink, Crash
<1>4. ASSUME SaveBegin \/ Edit \/ WritePrevious \/ WriteDaily \/ SaveFails \/ Checkpoint \/ NextDay PROVE FALSE
  BY <1>4 DEF SaveBegin, Start, Edit, WritePrevious, WriteDaily, SaveFails, Checkpoint, NextDay
<1>5. ASSUME BackupBegin \/ Copy \/ Companion \/ BusinessBackup \/ Cleanup PROVE FALSE
  BY <1>5 DEF BackupBegin, Start, Copy, Companion, BusinessBackup, Cleanup, CleanupBegin, CleanupEnd,
     CleanCompanion, CleanManual, CleanDaily
<1>6. ASSUME \/ RestoreBegin \/ RestoreGuard \/ MoveWal \/ MoveMain \/ MoveFails \/ Install \/ Settle
             \/ Undo \/ PutMain \/ PutWal \/ StaysAside
      PROVE  FALSE
  BY <1>6 DEF RestoreBegin, Start, RestoreGuard, MoveWal, MoveMain, MoveFails, Install, Settle, Undo,
     PutMain, PutWal, StaysAside
<1>7. ASSUME InitBegin \/ ForceBegin \/ Replace \/ Create PROVE FALSE
  BY <1>7 DEF InitBegin, ForceBegin, Start, Replace, Create
<1>8. ASSUME ReaderBegin \/ HistoryOpen \/ HistoryWrite \/ UNCHANGED storeVars PROVE FALSE
  BY <1>8 DEF ReaderBegin, HistoryOpen, HistoryWrite, storeVars
<1> QED BY <1>1, <1>2, <1>3, <1>4, <1>5, <1>6, <1>7, <1>8 DEF StoreNext

\* An import begins to mark only while there has been no database.
LEMMA ImportsBeforeAll ==
  ASSUME IInv, [StoreNext]_storeVars, NEW p \in Process, pc[p] = "import", pc'[p] = "mark"
  PROVE  ~everLive
<1> USE StoreAssumption DEF IInv, Types, Go, Process, Forget, Done
<1>1. ASSUME NEW q \in Process, ImportBegin(q) PROVE ~everLive
  BY <1>1 DEF ImportBegin, AfterFailure, Untouched
<1>2. ASSUME NEW q \in Process, Stat(q) \/ Open(q) \/ ImportMark(q) \/ ImportLink(q) \/ Crash(q) PROVE FALSE
  BY <1>2 DEF Stat, Open, ImportMark, ImportLink, Crash, AfterLoad, AfterFailure
<1>3. ASSUME \/ SaveBegin \/ Edit \/ WritePrevious \/ WriteDaily \/ Commit \/ SaveFails
             \/ Checkpoint \/ NextDay
      PROVE  FALSE
  BY <1>3 DEF SaveBegin, Start, Edit, WritePrevious, WriteDaily, Commit, SaveFails, Checkpoint, NextDay
<1>4. ASSUME BackupBegin \/ Copy \/ Companion \/ BusinessBackup \/ Cleanup PROVE FALSE
  <2>1. CASE Copy \/ Companion
    BY <2>1 DEF Copy, Companion
  <2>2. CASE BackupBegin \/ BusinessBackup \/ CleanupBegin \/ CleanupEnd
    BY <2>2 DEF BackupBegin, Start, BusinessBackup, CleanupBegin, CleanupEnd
  <2>3. CASE UNCHANGED pc
    BY <2>3
  <2>4. Cleanup => CleanupBegin \/ CleanupEnd \/ UNCHANGED pc
    BY DEF Cleanup, CleanCompanion, CleanManual, CleanDaily
  <2> QED BY <1>4, <2>1, <2>2, <2>3, <2>4
<1>5. ASSUME \/ RestoreBegin \/ RestoreGuard \/ MoveWal \/ MoveMain \/ MoveFails \/ Install \/ Settle
             \/ Undo \/ PutMain \/ PutWal \/ StaysAside
      PROVE  FALSE
  BY <1>5 DEF RestoreBegin, Start, RestoreGuard, MoveWal, MoveMain, MoveFails, Install, Settle, Undo,
     PutMain, PutWal, StaysAside
<1>6. ASSUME InitBegin \/ ForceBegin \/ Replace \/ Create \/ Fill PROVE FALSE
  BY <1>6 DEF InitBegin, ForceBegin, Start, Replace, Create, Fill
<1>7. ASSUME ReaderBegin \/ HistoryOpen \/ HistoryWrite \/ UNCHANGED storeVars PROVE FALSE
  BY <1>7 DEF ReaderBegin, HistoryOpen, HistoryWrite, storeVars
<1> QED BY <1>1, <1>2, <1>3, <1>4, <1>5, <1>6, <1>7 DEF StoreNext, Load

(***************************************************************************)
(* The theorems                                                            *)
(***************************************************************************)
\* In every reachable state the stages of saves, backups, restores and imports
\* know of the files what the code assumes of them (state_sqlite.go, backup.go).
THEOREM Invariant == StoreSpec => []IInv
<1>1. StoreInit => IInv
  BY InitInv
<1>2. IInv /\ [StoreNext]_storeVars => IInv'
  BY StepInv
<1> QED BY <1>1, <1>2, PTL DEF StoreSpec

\* Whatever fails or dies, what the last successful command left can be found:
\* in state.db, in the quarantine, or in state.json (restoreSQLiteStateBackup,
\* quarantineSQLiteForRestore).
THEOREM StateIsNeverLost == StoreSpec => []Recoverable
<1>1. IInv => Recoverable
  BY DEF IInv
<1> QED BY <1>1, Invariant, PTL

\* An analytics snapshot never lies beside a backup of other identities, nor
\* beside none (createBusinessStateBackup, pruneBackups).
THEOREM CompanionsMatch == StoreSpec => []CompanionMatches
<1>1. IInv => CompanionMatches
  BY DEF IInv
<1> QED BY <1>1, Invariant, PTL

\* No order of restores, crashes and openings of the analytics database deletes
\* the history of the identities that state.db ends up with.
THEOREM HistoryIsKept == StoreSpec => []HistoryKept
<1>1. IInv => HistoryKept
  BY DEF IInv
<1> QED BY <1>1, Invariant, PTL

\* A change of settings is never without the copy of what it replaces
\* (saveSQLiteState).
THEOREM SettingsAreCopiedFirst == StoreSpec => PreviousIsReplaced
<1>1. IInv /\ [StoreNext]_storeVars
      => [Readable(db) /\ Readable(db') /\ live' # live /\ db'.generation = db.generation
          /\ db'.control # db.control => previous = db]_storeVars
  BY CopyPrecedes
<1> QED BY <1>1, Invariant, PTL DEF StoreSpec, PreviousIsReplaced

\* state.json is imported over nothing: no process decides to import it once
\* there has been a database (migrateLegacyState).
THEOREM ImportsAreNeverStale == StoreSpec => NoStaleImport
<1>1. IInv /\ [StoreNext]_storeVars
      => [\A p \in Process : pc[p] = "import" /\ pc'[p] = "mark" => ~everLive]_storeVars
  BY ImportsBeforeAll
<1> QED BY <1>1, Invariant, PTL DEF StoreSpec, NoStaleImport
===============================================================================
