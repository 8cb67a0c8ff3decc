------------------------------ MODULE StateStore ------------------------------
(* The files around state.db: the state lock, the import of state.json, the   *)
(* copies taken before a write, manual backups with their analytics companion,*)
(* restore with its quarantine, init, and the retention of backups            *)
(* (state_sqlite.go, state_lock.go, backup.go, backup_retention.go, initCmd). *)
(*                                                                            *)
(* One process at a time holds the state lock and is "writer"; "reader" loads *)
(* the State without it, as the console, the portal, subscriptions and        *)
(* exports do. Either may import state.json. A third process uses the         *)
(* analytics database, under a lock of its own. A content of state.db is a    *)
(* number, its control version (what an administrator set, without counters), *)
(* and the generation of its identities, which a new file draws anew and a    *)
(* save keeps. The database is a main file and a write-ahead log (WAL), which *)
(* a restore moves one after the other: db is what opening them yields, main  *)
(* what the main file has without its WAL. Any process may die between two    *)
(* steps; its locks go with it. Copies appear by rename, whole or not at all. *)
(* An I/O error that strikes the opening of a file just created is not        *)
(* modelled.                                                                  *)
EXTENDS Integers, FiniteSets

CONSTANTS
    NoFile,         \* nothing at that path
    Blank,          \* a file without a State: just created, or with bare tables
    MaxContents,    \* bound: contents written
    MaxFiles,       \* bound: files built from nothing, each its own generation
    MaxManual,      \* bound: manual backups, numbered in the order of time
    MaxDay          \* bound: days

\* What a file with a State in it holds.
Content == [number : Nat, control : Nat, generation : Nat]
File == Content \cup {NoFile, Blank}

ASSUME StoreAssumption ==
    /\ NoFile \notin Content /\ Blank \notin Content /\ NoFile # Blank
    /\ MaxContents \in Nat /\ MaxFiles \in Nat
    /\ MaxManual \in Nat \ {0} /\ MaxDay \in Nat \ {0}

VARIABLES
    db,         \* what state.db yields with its WAL
    main,       \* what state.db would yield without: checkpointed last
    json,       \* state.json is there
    marker,     \* the marker that state.json was migrated or replaced
    previous,   \* state.previous.db
    daily,      \* day -> state-DAY.db
    today,
    manual,     \* number -> state-manual-TIME.db
    companion,  \* number -> generation of analytics-manual-TIME.db, 0 for none
    aside,      \* families in the quarantine, with their WAL if they had one
    loose,      \* families of which the quarantine has the WAL only
    pc,         \* what each process does next
    task,       \* what the writer was asked for
    old,        \* what the writer read
    new,        \* what the writer is about to put in place
    moved,      \* the family that the writer moves aside, if any
    legacyLock, \* who holds state.json.lock
    historyLock,\* who holds the lock of the analytics database
    history,    \* generations the analytics database has history of
    wanted,     \* generation its user has read from state.db
    made,       \* contents written so far
    files,      \* generations drawn so far
    live,       \* observed: the content the last successful command left
    everLive,   \* observed: state.db has held a State
    recorded    \* observed: generations history was ever recorded of

database == <<db, main>>
quarantine == <<aside, loose>>
copies == <<previous, daily, today, manual, companion>>
legacyVars == <<json, marker, legacyLock>>
historyVars == <<historyLock, history, wanted, recorded>>
ghosts == <<live, everLive>>
counts == <<made, files>>
writerVars == <<task, old, new, moved>>
storeVars == <<database, copies, quarantine, pc, writerVars, legacyVars, historyVars, counts, ghosts>>

\* A main file, and what it yields with its WAL.
Family == [db : File, main : File]
WithWal(f, m) == [db |-> f, main |-> m]
Nothing == WithWal(NoFile, NoFile)

Process == {"writer", "reader"}
Readable(f) == f \notin {NoFile, Blank}
Go(p, step) == pc' = [pc EXCEPT ![p] = step]
Forget == task' = "none" /\ old' = NoFile /\ new' = NoFile /\ moved' = Nothing
Done == Go("writer", "idle") /\ Forget

\* What state.json holds is content 0.
Legacy == [number |-> 0, control |-> 0, generation |-> files + 1]

StoreInit ==
    /\ db = NoFile /\ main = NoFile /\ json \in BOOLEAN /\ marker = FALSE
    /\ previous = NoFile /\ daily = [d \in 1..MaxDay |-> NoFile] /\ today = 1
    /\ manual = [i \in 1..MaxManual |-> NoFile] /\ companion = [i \in 1..MaxManual |-> 0]
    /\ aside = {} /\ loose = {}
    /\ pc = [p \in Process |-> "idle"] /\ task = "none" /\ old = NoFile /\ new = NoFile /\ moved = Nothing
    /\ legacyLock = "none" /\ historyLock = "none" /\ history = {} /\ wanted = 0
    /\ made = 0 /\ files = 0 /\ live = NoFile /\ everLive = FALSE /\ recorded = {}

-----------------------------------------------------------------------------
(* Loading the State: open it, or import state.json.                          *)

\* The writer goes on with its task; a command that cannot load gives up, but a
\* restore only remembers that there is nothing to keep a copy of.
AfterLoad == IF task = "restore" THEN "copy" ELSE "edit"
AfterFailure(p) == IF p = "writer" /\ task = "restore" THEN "guard" ELSE "idle"

Stat(p) ==
    /\ pc[p] = "load"
    /\ \/ db # NoFile /\ Go(p, "open") /\ UNCHANGED legacyLock
       \/ db = NoFile /\ legacyLock = "none" /\ legacyLock' = p /\ Go(p, "import")
    /\ UNCHANGED <<database, copies, quarantine, writerVars, json, marker, historyVars, counts, ghosts>>

\* The file is opened with O_CREATE: one that was moved away in between comes
\* back blank, and a blank one is refused as not initialised.
Open(p) ==
    /\ pc[p] = "open"
    /\ db' = IF db = NoFile THEN Blank ELSE db
    /\ main' = IF db = NoFile THEN Blank ELSE main
    /\ IF Readable(db) THEN Go(p, IF p = "writer" THEN AfterLoad ELSE "idle")
       ELSE Go(p, AfterFailure(p))
    /\ old' = IF p = "writer" /\ Readable(db) THEN db ELSE old
    /\ UNCHANGED <<copies, quarantine, task, new, moved, legacyVars, historyVars, counts, ghosts>>

\* Under state.json's own lock: importing ends at once when another process was
\* faster, and refuses when the marker says that state.json is old.
ImportBegin(p) ==
    /\ pc[p] = "import"
    /\ \/ db # NoFile /\ Go(p, "open") /\ legacyLock' = "none"
       \/ db = NoFile /\ (marker \/ ~json) /\ Go(p, AfterFailure(p)) /\ legacyLock' = "none"
       \/ db = NoFile /\ ~marker /\ json /\ Go(p, "mark") /\ UNCHANGED legacyLock
    /\ UNCHANGED <<database, copies, quarantine, writerVars, json, marker, historyVars, counts, ghosts>>

\* Wrong variant: the marker is left for after the publication, which succeeded.
ImportUnmarked(p) ==
    /\ pc[p] = "mark"
    /\ \/ db # NoFile /\ Go(p, "open") /\ legacyLock' = "none"
       \/ db = NoFile /\ Go(p, "link") /\ UNCHANGED legacyLock
    /\ UNCHANGED <<database, copies, quarantine, writerVars, json, marker, historyVars, counts, ghosts>>

\* The marker comes before the database.
ImportMark(p) ==
    /\ pc[p] = "mark"
    /\ \/ db # NoFile /\ Go(p, "open") /\ legacyLock' = "none" /\ UNCHANGED marker
       \/ db = NoFile /\ marker' = TRUE /\ Go(p, "link") /\ UNCHANGED legacyLock
    /\ UNCHANGED <<database, copies, quarantine, writerVars, json, historyVars, counts, ghosts>>

\* os.Link never replaces a file.
ImportLink(p) ==
    /\ pc[p] = "link" /\ legacyLock' = "none"
    /\ \/ db # NoFile /\ Go(p, AfterFailure(p)) /\ UNCHANGED <<database, files, ghosts>>
       \/ /\ db = NoFile /\ files < MaxFiles /\ db' = Legacy /\ main' = Legacy /\ files' = files + 1 /\ Go(p, "open")
          /\ live' = Legacy /\ everLive' = TRUE
    /\ UNCHANGED <<copies, quarantine, writerVars, json, marker, historyVars, made>>

Load(p) == Stat(p) \/ Open(p) \/ ImportBegin(p) \/ ImportMark(p) \/ ImportLink(p)

-----------------------------------------------------------------------------
(* A save: saveSQLiteState. *)

Start(t, f) ==
    /\ pc["writer"] = "idle" /\ task' = t /\ old' = NoFile /\ new' = f /\ moved' = Nothing
    /\ UNCHANGED <<database, copies, quarantine, legacyVars, historyVars, counts, ghosts>>

SaveBegin == Start("save", NoFile) /\ Go("writer", "load")

\* The command changed settings, or only counters and histories.
Edit ==
    /\ pc["writer"] = "edit" /\ made < MaxContents
    /\ made' = made + 1
    /\ \/ new' = [old EXCEPT !.number = made + 1] /\ Go("writer", "daily")
       \/ new' = [old EXCEPT !.number = made + 1, !.control = made + 1] /\ Go("writer", "previous")
    /\ UNCHANGED <<database, copies, quarantine, task, old, moved, legacyVars, historyVars, files, ghosts>>

\* Wrong variant: a daily copy of today is thought to be enough.
PreviousOnceADay ==
    /\ pc["writer"] = "previous" /\ Go("writer", "daily")
    /\ previous' = IF daily[today] = NoFile THEN db ELSE previous
    /\ UNCHANGED <<database, daily, today, manual, companion, quarantine, writerVars, legacyVars,
                   historyVars, counts, ghosts>>

WritePrevious ==
    /\ pc["writer"] = "previous" /\ Go("writer", "daily")
    /\ previous' = db
    /\ UNCHANGED <<database, daily, today, manual, companion, quarantine, writerVars, legacyVars,
                   historyVars, counts, ghosts>>

\* After a control change the copy is made of the copy.
WriteDaily ==
    /\ pc["writer"] = "daily" /\ Go("writer", "commit")
    /\ daily' = IF daily[today] # NoFile THEN daily
                ELSE [daily EXCEPT ![today] = IF db.control # new.control THEN previous ELSE db]
    /\ UNCHANGED <<database, previous, today, manual, companion, quarantine, writerVars, legacyVars,
                   historyVars, counts, ghosts>>

\* The transaction is in the WAL.
Commit ==
    /\ pc["writer"] = "commit" /\ Done
    /\ db' = new /\ live' = new
    /\ UNCHANGED <<main, copies, quarantine, legacyVars, historyVars, counts, everLive>>

\* A copy cannot be made, or the transaction cannot commit.
SaveFails ==
    /\ pc["writer"] \in {"previous", "daily", "commit"} /\ Done
    /\ UNCHANGED <<database, copies, quarantine, legacyVars, historyVars, counts, ghosts>>

\* A long WAL is checkpointed, and any WAL when the last connection is closed,
\* whosever that is.
Checkpoint ==
    /\ main # db /\ main' = db
    /\ UNCHANGED <<db, copies, quarantine, pc, writerVars, legacyVars, historyVars, counts, ghosts>>

NextDay ==
    /\ today < MaxDay /\ today' = today + 1
    /\ UNCHANGED <<database, previous, daily, manual, companion, quarantine, pc, writerVars, legacyVars,
                   historyVars, counts, ghosts>>

-----------------------------------------------------------------------------
(* Manual backups. *)

\* The history of identities that state.db no longer has is deleted whenever
\* the analytics database is opened.
Reconciled(generation) == history \cap {generation}

BackupBegin == Start("backup", NoFile) /\ Go("writer", "copy")

AfterCopy == CASE task = "restore" -> "guard" [] task = "force" -> "replace" [] OTHER -> "idle"
Names == {i \in 1..MaxManual : manual[i] = NoFile /\ companion[i] = 0 /\ \A j \in i + 1..MaxManual : manual[j] = NoFile}

\* createManualSQLiteStateBackup; createBusinessStateBackup ends without the
\* companion. A State that does not exist or cannot be read cannot be copied.
Copy ==
    /\ pc["writer"] = "copy"
    /\ \/ Readable(db) /\ \E i \in Names :
            /\ \A j \in Names : i <= j
            /\ manual' = [manual EXCEPT ![i] = db]
            /\ Go("writer", IF history # {} THEN "companion" ELSE AfterCopy)
       \/ Go("writer", "idle") /\ UNCHANGED manual
    /\ UNCHANGED <<database, previous, daily, today, companion, quarantine, writerVars, legacyVars,
                   historyVars, counts, ghosts>>

\* The last backup made.
Newest == CHOOSE i \in 1..MaxManual : manual[i] # NoFile /\ \A j \in i + 1..MaxManual : manual[j] = NoFile

\* sqliteAnalyticsBackupTo; when it fails the copy of the state goes too.
Companion ==
    /\ pc["writer"] = "companion" /\ historyLock = "none"
    /\ \/ /\ companion' = [companion EXCEPT ![Newest] = db.generation]
          /\ history' = Reconciled(db.generation)
          /\ Go("writer", AfterCopy) /\ UNCHANGED manual
       \/ manual' = [manual EXCEPT ![Newest] = NoFile] /\ Go("writer", "idle") /\ UNCHANGED <<companion, history>>
    /\ UNCHANGED <<database, previous, daily, today, quarantine, writerVars, legacyVars, historyLock, wanted,
                   recorded, counts, ghosts>>

BusinessBackup ==
    /\ pc["writer"] = "companion" /\ task = "backup" /\ Done
    /\ UNCHANGED <<database, copies, quarantine, legacyVars, historyVars, counts, ghosts>>

\* planBackupRetention: of each kind the newest stays. A manual backup goes
\* after its companion.
CleanupBegin ==
    /\ Start("cleanup", NoFile) /\ Go("writer", "clean")
    /\ \E i \in 1..MaxManual : manual[i] # NoFile
Expired(i) == pc["writer"] = "clean" /\ manual[i] # NoFile /\ i # Newest

\* Wrong variant: the backup goes first.
CleanCompanionLast(i) ==
    /\ Expired(i) \/ (pc["writer"] = "clean" /\ manual[i] = NoFile)
    /\ companion[i] # 0
    /\ IF manual[i] # NoFile THEN manual' = [manual EXCEPT ![i] = NoFile] /\ UNCHANGED companion
       ELSE companion' = [companion EXCEPT ![i] = 0] /\ UNCHANGED manual
    /\ UNCHANGED <<database, previous, daily, today, quarantine, pc, writerVars, legacyVars, historyVars,
                   counts, ghosts>>

CleanCompanion(i) ==
    /\ Expired(i) /\ companion[i] # 0
    /\ companion' = [companion EXCEPT ![i] = 0]
    /\ UNCHANGED <<database, previous, daily, today, manual, quarantine, pc, writerVars, legacyVars,
                   historyVars, counts, ghosts>>
CleanManual(i) ==
    /\ Expired(i) /\ companion[i] = 0
    /\ manual' = [manual EXCEPT ![i] = NoFile]
    /\ UNCHANGED <<database, previous, daily, today, companion, quarantine, pc, writerVars, legacyVars,
                   historyVars, counts, ghosts>>
CleanDaily(d) ==
    /\ pc["writer"] = "clean" /\ daily[d] # NoFile /\ \E e \in d + 1..MaxDay : daily[e] # NoFile
    /\ daily' = [daily EXCEPT ![d] = NoFile]
    /\ UNCHANGED <<database, previous, today, manual, companion, quarantine, pc, writerVars, legacyVars,
                   historyVars, counts, ghosts>>
CleanupEnd ==
    /\ pc["writer"] = "clean" /\ Done
    /\ UNCHANGED <<database, copies, quarantine, legacyVars, historyVars, counts, ghosts>>

Cleanup ==
    \/ CleanupBegin \/ CleanupEnd \/ \E i \in 1..MaxManual : CleanCompanion(i) \/ CleanManual(i)
    \/ \E d \in 1..MaxDay : CleanDaily(d)

-----------------------------------------------------------------------------
(* Restore: a new file is built from a backup, the live one moved aside, the  *)
(* new one put in its place and verified, a configuration applied if asked.   *)

Backups == {f \in {previous} \cup {daily[d] : d \in 1..MaxDay} \cup {manual[i] : i \in 1..MaxManual} : Readable(f)}

RestoreBegin == \E b \in Backups :
    /\ files < MaxFiles /\ Go("writer", "load")
    /\ Start("restore", [b EXCEPT !.generation = 0])

\* Wrong variant: the analytics database may be used during the restore.
RestoreUnguarded ==
    /\ pc["writer"] = "guard" /\ Go("writer", "aside")
    /\ files < MaxFiles /\ files' = files + 1 /\ new' = [new EXCEPT !.generation = files + 1]
    /\ UNCHANGED <<database, copies, quarantine, task, old, moved, legacyVars, historyVars, made, ghosts>>

\* The lock of the analytics database is held to the end of the restore.
RestoreGuard ==
    /\ pc["writer"] = "guard" /\ historyLock = "none" /\ Go("writer", "aside")
    /\ historyLock' = "writer"
    /\ files < MaxFiles /\ files' = files + 1 /\ new' = [new EXCEPT !.generation = files + 1]
    /\ UNCHANGED <<database, copies, quarantine, task, old, moved, legacyVars, history, wanted, recorded,
                   made, ghosts>>

\* quarantineSQLiteForRestore: the WAL goes first, if there is one, ...
MoveWal ==
    /\ pc["writer"] = "aside" /\ Go("writer", "main")
    /\ moved' = WithWal(db, main)
    /\ loose' = IF db = main THEN loose ELSE loose \cup {moved'}
    /\ db' = main
    /\ UNCHANGED <<main, copies, aside, task, old, new, legacyVars, historyVars, counts, ghosts>>

\* ... then the main file, be it one that came up in between.
MoveMain ==
    /\ pc["writer"] = "main" /\ Go("writer", "install")
    /\ moved' = IF moved.db = NoFile THEN WithWal(db, main) ELSE moved
    /\ aside' = IF db = NoFile THEN aside ELSE aside \cup {moved'}
    /\ loose' = loose \ {moved'}
    /\ db' = NoFile /\ main' = NoFile
    /\ UNCHANGED <<copies, task, old, new, legacyVars, historyVars, counts, ghosts>>

\* A rename fails; what was moved is put back.
MoveFails ==
    /\ pc["writer"] \in {"aside", "main"} /\ Go("writer", "putwal")
    /\ UNCHANGED <<database, copies, quarantine, writerVars, legacyVars, historyVars, counts, ghosts>>

\* Wrong variant: the old file is deleted once the new one is in place.
InstallDiscarding ==
    /\ pc["writer"] = "install" /\ Go("writer", "verify")
    /\ db' = new /\ main' = new /\ everLive' = TRUE /\ aside' = aside \ {moved}
    /\ UNCHANGED <<copies, loose, writerVars, legacyVars, historyVars, counts, live>>

Install ==
    /\ pc["writer"] = "install" /\ Go("writer", "verify")
    /\ db' = new /\ main' = new /\ everLive' = TRUE
    /\ UNCHANGED <<copies, quarantine, writerVars, legacyVars, historyVars, counts, live>>

LetGo == historyLock' = IF historyLock = "writer" THEN "none" ELSE historyLock

\* discard: the old family is deleted once the new file is verified and applied;
\* one that could not be read stays in the quarantine. The restore has succeeded
\* before the first deletion: what an unfinished discard leaves serves nobody.
Settle ==
    /\ pc["writer"] = "verify" /\ Done
    /\ aside' = IF Readable(old) THEN aside \ {moved} ELSE aside
    /\ live' = db /\ LetGo
    /\ UNCHANGED <<database, copies, loose, legacyVars, history, wanted, recorded, counts, everLive>>

\* Installation, verification or the configuration failed.
Undo ==
    /\ pc["writer"] \in {"install", "verify"} /\ Go("writer", "putback")
    /\ db' = NoFile /\ main' = NoFile
    /\ UNCHANGED <<copies, quarantine, writerVars, legacyVars, historyVars, counts, ghosts>>

\* restore: the main file comes back first, ...
PutMain ==
    /\ pc["writer"] = "putback" /\ Go("writer", "putwal")
    /\ IF moved.db = NoFile THEN UNCHANGED <<database, quarantine>>
       ELSE /\ db' = moved.main /\ main' = moved.main /\ aside' = aside \ {moved}
            /\ loose' = IF moved.db = moved.main THEN loose ELSE loose \cup {moved}
    /\ UNCHANGED <<copies, writerVars, legacyVars, historyVars, counts, ghosts>>

\* ... then its WAL.
PutWal ==
    /\ pc["writer"] = "putwal" /\ Done /\ LetGo
    /\ IF moved.db = NoFile THEN UNCHANGED <<db, loose>> ELSE db' = moved.db /\ loose' = loose \ {moved}
    /\ UNCHANGED <<main, copies, aside, legacyVars, history, wanted, recorded, counts, ghosts>>

\* Putting back fails; what is still in the quarantine stays there.
StaysAside ==
    /\ pc["writer"] \in {"putback", "putwal"} /\ Done /\ LetGo
    /\ UNCHANGED <<database, copies, quarantine, legacyVars, history, wanted, recorded, counts, ghosts>>

-----------------------------------------------------------------------------
(* init and init --force. *)

InitBegin ==
    /\ Start("init", NoFile) /\ db = NoFile /\ ~json
    /\ Go("writer", "create")
ForceBegin ==
    /\ Start("force", NoFile)
    /\ Go("writer", IF db = NoFile THEN "replace" ELSE "copy")

\* A state.json that is replaced is marked before anything takes its place.
Replace ==
    /\ pc["writer"] = "replace" /\ Go("writer", "create")
    /\ marker' = (marker \/ json)
    /\ UNCHANGED <<database, copies, quarantine, writerVars, json, legacyLock, historyVars, counts, ghosts>>

\* saveState: a file that is there keeps its generation and is copied first.
Create ==
    /\ pc["writer"] = "create" /\ made < MaxContents /\ files < MaxFiles /\ made' = made + 1
    /\ \/ /\ db = NoFile /\ db' = Blank /\ main' = Blank /\ Go("writer", "fill") /\ files' = files + 1 /\ UNCHANGED old
          /\ new' = [number |-> made + 1, control |-> made + 1, generation |-> files + 1]
       \/ /\ Readable(db) /\ old' = db /\ Go("writer", "previous") /\ UNCHANGED <<database, files>>
          /\ new' = [number |-> made + 1, control |-> made + 1, generation |-> db.generation]
       \/ db = Blank /\ Go("writer", "idle") /\ UNCHANGED <<database, files, new, old>>
    /\ UNCHANGED <<copies, quarantine, task, moved, legacyVars, historyVars, ghosts>>

\* A new file that could not be filled is removed.
Fill ==
    /\ pc["writer"] = "fill" /\ Done
    /\ \/ db' = new /\ UNCHANGED main /\ live' = new /\ everLive' = TRUE
       \/ db' = NoFile /\ main' = NoFile /\ UNCHANGED ghosts
    /\ UNCHANGED <<copies, quarantine, legacyVars, historyVars, counts>>

-----------------------------------------------------------------------------
(* The reader, the analytics database, and the end of a process. *)

ReaderBegin ==
    /\ pc["reader"] = "idle" /\ Go("reader", "load")
    /\ UNCHANGED <<database, copies, quarantine, writerVars, legacyVars, historyVars, counts, ghosts>>

\* openSQLiteAnalytics reads the identities under its lock, ...
HistoryOpen ==
    /\ historyLock = "none" /\ Readable(db)
    /\ historyLock' = "history" /\ wanted' = db.generation
    /\ UNCHANGED <<database, copies, quarantine, pc, writerVars, legacyVars, history, recorded, counts, ghosts>>
\* ... deletes what belongs to no one, and the caller records.
HistoryWrite ==
    /\ historyLock = "history" /\ historyLock' = "none"
    /\ history' = Reconciled(wanted) \cup {wanted} /\ recorded' = recorded \cup {wanted} /\ wanted' = 0
    /\ UNCHANGED <<database, copies, quarantine, pc, writerVars, legacyVars, counts, ghosts>>

Crash(p) ==
    /\ pc[p] # "idle" /\ Go(p, "idle") /\ IF p = "writer" THEN Forget ELSE UNCHANGED writerVars
    /\ legacyLock' = IF legacyLock = p THEN "none" ELSE legacyLock
    /\ historyLock' = IF historyLock = p THEN "none" ELSE historyLock
    /\ UNCHANGED <<database, copies, quarantine, json, marker, history, wanted, recorded, counts, ghosts>>

StoreNext ==
    \/ \E p \in Process : Load(p) \/ Crash(p)
    \/ SaveBegin \/ Edit \/ WritePrevious \/ WriteDaily \/ Commit \/ SaveFails \/ Checkpoint \/ NextDay
    \/ BackupBegin \/ Copy \/ Companion \/ BusinessBackup \/ Cleanup
    \/ RestoreBegin \/ RestoreGuard \/ MoveWal \/ MoveMain \/ MoveFails \/ Install \/ Settle
    \/ Undo \/ PutMain \/ PutWal \/ StaysAside
    \/ InitBegin \/ ForceBegin \/ Replace \/ Create \/ Fill
    \/ ReaderBegin \/ HistoryOpen \/ HistoryWrite

StoreSpec == StoreInit /\ [][StoreNext]_storeVars
-----------------------------------------------------------------------------
(* Properties. *)

\* A content is whole in state.db or in the quarantine.
Kept(f) == f = db \/ \E q \in aside : q.db = f
\* Or its WAL is in the quarantine, and the main file it belongs to is in
\* state.db or in the quarantine too.
InPieces(f) == \E q \in loose : q.db = f /\ (q.main = main \/ \E r \in aside : r.main = q.main)
\* What was imported is in state.json still.
InJson(f) == json /\ f.number = 0

\* What the last successful command left is in state.db or in the quarantine,
\* in two pieces at worst, whatever fails or dies, between the renames of a
\* restore and of its undoing too; or in state.json, if it came from there.
Recoverable == live # NoFile => Kept(live) \/ InPieces(live) \/ InJson(live)

\* The old family is moved as one unit, which any failure puts back
\* (state_sqlite.go:2624): when no restore is under way, what the last successful
\* command left is whole in state.db or in the quarantine. It does not hold
\* (README, Disagreements).
MovedAsOneUnit ==
    pc["writer"] \notin {"aside", "main", "install", "verify", "putback", "putwal"} /\ live # NoFile
        => Kept(live) \/ InJson(live)

\* A save that changes settings leaves what it replaced in state.previous.db.
PreviousIsReplaced ==
    [][Readable(db) /\ Readable(db') /\ live' # live /\ db'.generation = db.generation
        /\ db'.control # db.control => previous = db]_storeVars

\* It is decided to import state.json only while there has never been a
\* database: nothing that was changed since is rolled back to it, however
\* state.db got lost.
NoStaleImport ==
    [][\A p \in Process : pc[p] = "import" /\ pc'[p] = "mark" => ~everLive]_storeVars

\* An analytics snapshot lies beside the backup with the same identities.
CompanionMatches ==
    \A i \in 1..MaxManual : companion[i] # 0 => Readable(manual[i]) /\ manual[i].generation = companion[i]

\* A restore that is undone has cost no history: what was ever recorded of the
\* identities that state.db now has is still there.
HistoryKept == Readable(db) /\ db.generation \in recorded => db.generation \in history

=============================================================================
