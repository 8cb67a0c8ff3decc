------------------------------ MODULE StateRows ------------------------------
(* The contents of state.db: how a State becomes rows and rows become a State *)
(* again (state_sqlite.go, state_sqlite_delta.go, group_sqlite.go).           *)
(*                                                                            *)
(* A save never rewrites the database. It upserts users, groups, devices and  *)
(* nodes one by one, deletes what the State no longer names, and rewrites a   *)
(* history table of a user only when its hash differs from the one taken when *)
(* the State was read. A row of a node is found by its name on the device;    *)
(* two more columns, auth_user and uuid, are unique in the whole table.       *)
(* One user's devices and nodes are modelled; devices are keyed by name and   *)
(* are never renamed, so a device is its name and only nodes have row ids.    *)
(* Histories are two: the user's samples in the order of time, of which two   *)
(* may be taken at one moment, and what each node was asked for. Alerts, of   *)
(* which two may be equal but for the operator's acknowledgement, stand for   *)
(* the tables that every save compares: counters, pending sources, active     *)
(* connections, outbound health, the fleet.                                   *)
EXTENDS Integers, Sequences, FiniteSets, SequencesExt, TLC

CONSTANTS
    Device,     \* names of devices
    Name,       \* display names of nodes, as name_key
    Slug,       \* Name -> the part of an auth_user made of it
    Uuid,       \* uuids; a new one is in use nowhere
    Group,      \* ids of groups
    NoGroup,    \* the user is in no group
    Moment,     \* moments samples are taken at
    MaxLog,     \* bound: samples of the user, and alerts; the oldest gives way
    MaxNodes,   \* bound: nodes of the user
    MaxAuth,    \* bound: suffix of an auth_user
    Batch,      \* bound: edits that one save carries; a command makes one, a
                \* slave receives all the master made since the last exchange
    MaxEdits    \* bound: edits in all

ASSUME RowsAssumption ==
    /\ MaxNodes \in Nat \ {0} /\ Batch \in Nat \ {0} /\ MaxEdits \in Nat /\ MaxAuth \in Nat \ {0} /\ MaxLog \in Nat \ {0}
    /\ NoGroup \notin Group

VARIABLES
    file,       \* the rows, and the State whose state_hash they carry
    mem,        \* the State in the memory of the process that holds the lock
    snap,       \* sqliteSnapshot of mem: the hashes taken when it was read
    backup,     \* the State a backup holds, a copy of the file at some moment
    phase,      \* "closed", "open", "saved"
    edits,      \* edits made since the State was read
    total,      \* edits made in all
    clash       \* a save was refused by a UNIQUE or a FOREIGN KEY constraint

rowVars == <<file, mem, snap, backup, phase, edits, total, clash>>

Absent == [groups |-> {}, group |-> NoGroup, user |-> FALSE, seen |-> <<>>, nodes |-> <<>>, alerts |-> <<>>]
Empty == [groups |-> {}, member |-> NoGroup, user |-> FALSE, seen |-> {}, nodes |-> {}, alerts |-> {}, dest |-> <<>>, hash |-> Absent]

\* The place of a number in a set of numbers, and the number in a place.
Rank(S, x) == Cardinality({y \in S : y <= x})
Nth(S, k) == CHOOSE x \in S : Rank(S, x) = k

Devices(st) == {st.nodes[i].device : i \in DOMAIN st.nodes}
On(st, d) == {i \in DOMAIN st.nodes : st.nodes[i].device = d}
Names(st, d) == {st.nodes[i].name : i \in On(st, d)}

-----------------------------------------------------------------------------
(* Rows to State. *)

InOrder(rows) == [i \in 1..Cardinality(rows) |-> CHOOSE r \in rows : r.ordinal = i]

\* Nodes, samples and alerts come back in the order of their ordinals.
ReadNodes(db) ==
    LET rows == InOrder(db.nodes)
    IN [i \in DOMAIN rows |->
            [device |-> rows[i].device, name |-> rows[i].name, auth |-> rows[i].auth,
             uuid |-> rows[i].uuid, dest |-> db.dest[rows[i].id]]]
ReadSamples(rows) == [i \in 1..Cardinality(rows) |-> InOrder(rows)[i].key[1]]
ReadAlerts(rows) == [i \in 1..Cardinality(rows) |-> InOrder(rows)[i].data]

ReadGroups(db) == db.groups

Read(db) ==
    [groups |-> ReadGroups(db), group |-> db.member, user |-> db.user, nodes |-> ReadNodes(db),
     seen |-> ReadSamples(db.seen), alerts |-> ReadAlerts(db.alerts)]

\* The hashes of the history tables: names of the nodes are part of theirs.
Snapshot(path, st) ==
    [path |-> path, state |-> st, seen |-> st.seen,
     dest |-> [i \in DOMAIN st.nodes |-> <<st.nodes[i].name, st.nodes[i].device, st.nodes[i].dest>>]]

-----------------------------------------------------------------------------
(* A list of things that may be equal: the key of an element is its identity  *)
(* and how many of the same came before it.                                   *)

SequenceKey(ids, i) == <<ids[i], Cardinality({j \in 1..i - 1 : ids[j] = ids[i]})>>

\* Every element is upserted under its key, then what was not named is deleted.
WriteSequence(rows, ids, data) ==
    LET keys == {SequenceKey(ids, i) : i \in DOMAIN ids}
        upsert(old, i) ==
            {r \in old : r.key # SequenceKey(ids, i)}
                \cup {[key |-> SequenceKey(ids, i), ordinal |-> i, data |-> data[i]]}
    IN {r \in FoldLeft(upsert, rows, [i \in DOMAIN ids |-> i]) : r.key \in keys}

-----------------------------------------------------------------------------
(* State to rows. A step of the transaction works on [db, ok]. *)

\* Wrong variant: the snapshot is believed whatever the database holds.
IncludedByDiff(sn, db, st, table) == sn[table] # Snapshot("state.db", st)[table]

\* A table is written unless the snapshot is of this very database and equal.
Included(sn, db, st, table) ==
    \/ sn.path # "state.db" \/ sn.state # db.hash
    \/ sn[table] # Snapshot("state.db", st)[table]

NewId(db) == 1 + Cardinality(DOMAIN db.dest)

\* UPDATE nodes SET name ... WHERE auth_user = ? AND uuid = ? on the device.
Rename(t, n) ==
    LET same == {r \in t.db.nodes : r.device = n.device /\ r.auth = n.auth /\ r.uuid = n.uuid /\ r.name # n.name}
        taken == \E r \in t.db.nodes : r.device = n.device /\ r.name = n.name
    IN IF ~t.ok \/ same = {} THEN t
       ELSE [ok |-> ~taken,
             db |-> [t.db EXCEPT !.nodes = (@ \ same) \cup {[r EXCEPT !.name = n.name] : r \in same}]]

\* INSERT ... ON CONFLICT(device_id, name_key) DO UPDATE: the other two unique
\* columns are not conflict targets and refuse the statement.
Upsert(t, n, i) ==
    LET db == t.db
        old == {r \in db.nodes : r.device = n.device /\ r.name = n.name}
        id == IF old = {} THEN NewId(db) ELSE (CHOOSE r \in old : TRUE).id
        row == [id |-> id, device |-> n.device, name |-> n.name, auth |-> n.auth, uuid |-> n.uuid, ordinal |-> i]
        unique == \A r \in db.nodes \ old : r.auth # n.auth /\ r.uuid # n.uuid
    IN [ok |-> t.ok /\ unique,
        db |-> [db EXCEPT !.nodes = (@ \ old) \cup {row},
                          !.dest = IF old = {} THEN Append(@, 0) ELSE @]]

WriteNode(st, t, i) == Upsert(Rename(t, st.nodes[i]), st.nodes[i], i)
WriteNodes(st, t) == FoldLeft(LAMBDA a, i : WriteNode(st, a, i), t, [i \in DOMAIN st.nodes |-> i])

\* Groups are upserted before the users that refer to them.
WriteGroups(st, db) == [db EXCEPT !.groups = @ \cup st.groups]

\* The user's own row and its membership, which must name a group that exists.
WriteGroupMember(st, t) ==
    [ok |-> t.ok /\ st.group \in t.db.groups \cup {NoGroup},
     db |-> [t.db EXCEPT !.member = st.group]]
WriteUser(st, t) ==
    IF st.user THEN WriteGroupMember(st, [t EXCEPT !.db.user = st.user]) ELSE t

\* Rows that no State names go; what depends on them goes with them.
DeleteGone(st, t) ==
    LET named == {r \in t.db.nodes : r.name \in Names(st, r.device)}
    IN [ok |-> t.ok,
        db |-> [t.db EXCEPT !.nodes = named,
                            !.dest = [id \in DOMAIN @ |-> IF \E r \in named : r.id = id THEN @[id] ELSE 0],
                            !.user = st.user,
                            !.member = IF st.user THEN @ ELSE NoGroup,
                            !.seen = IF st.user THEN @ ELSE {}]]

\* A group a member still refers to cannot be deleted.
PruneGroups(st, t) ==
    [ok |-> t.ok /\ t.db.member \in st.groups \cup {NoGroup},
     db |-> [t.db EXCEPT !.groups = st.groups]]

\* The alerts of a State are equal but for their acknowledgement.
WriteAlerts(st, t) ==
    [t EXCEPT !.db.alerts = WriteSequence(@, [i \in DOMAIN st.alerts |-> "alert"], st.alerts)]

WriteHistories(sn, old, st, t) ==
    [ok |-> t.ok,
     db |-> [t.db EXCEPT
        !.seen = IF st.user /\ Included(sn, old, st, "seen") 
                 THEN WriteSequence(@, st.seen, st.seen) ELSE @,
        !.dest = IF Included(sn, old, st, "dest")
                 THEN [id \in DOMAIN @ |->
                        IF \E r \in t.db.nodes : r.id = id
                        THEN st.nodes[(CHOOSE r \in t.db.nodes : r.id = id).ordinal].dest
                        ELSE 0]
                 ELSE @]]

\* writeSQLiteStateIncremental, in the order of its statements.
Write(sn, db, st) ==
    LET start == [ok |-> TRUE, db |-> WriteGroups(st, db)]
        gone == DeleteGone(st, WriteNodes(st, WriteUser(st, start)))
        done == WriteHistories(sn, db, st, WriteAlerts(st, PruneGroups(st, gone)))
    IN [done EXCEPT !.db = [@ EXCEPT !.hash = st]]

\* Row ids are compacted so that states that differ in ids alone are one.
Compact(db) ==
    LET ids == {r.id : r \in db.nodes}
    IN [db EXCEPT !.nodes = {[r EXCEPT !.id = Rank(ids, r.id)] : r \in db.nodes},
                  !.dest = [k \in 1..Cardinality(ids) |-> db.dest[Nth(ids, k)]]]

-----------------------------------------------------------------------------
(* The edits commands make between a read and a save. *)

RowsInit ==
    /\ file = Empty /\ mem = Absent /\ snap = Snapshot("none", Absent) /\ backup = Absent
    /\ phase = "closed" /\ edits = 0 /\ total = 0 /\ clash = FALSE

Used(st, column) == {st.nodes[i][column] : i \in DOMAIN st.nodes}
Fresh == Uuid \ (Used(mem, "uuid") \cup Used(backup, "uuid") \cup {r.uuid : r \in file.nodes})

\* uniqueAuthUser: the first suffix nobody in this State has.
UniqueAuth(st, base) ==
    LET free(k) == <<base, k>> \notin Used(st, "auth")
    IN <<base, CHOOSE k \in 1..MaxNodes + 1 : free(k) /\ \A j \in 1..k - 1 : ~free(j)>>

NewNode(st, base, d, n, x) == [device |-> d, name |-> n, auth |-> UniqueAuth(st, base), uuid |-> x, dest |-> 0]

Editing(st) ==
    /\ phase = "open" /\ edits < Batch /\ total < MaxEdits
    /\ \A i \in DOMAIN st.nodes : st.nodes[i].auth[2] <= MaxAuth
    /\ mem' = st /\ edits' = edits + 1 /\ total' = total + 1
    /\ UNCHANGED <<file, snap, backup, phase, clash>>

AddUser == \E d \in Device, n \in Name, x \in Fresh :
    ~mem.user /\ Editing([Absent EXCEPT !.groups = mem.groups, !.alerts = mem.alerts, !.user = TRUE,
        !.nodes = <<NewNode(mem, <<"user">>, d, n, x)>>])

RemoveUser == mem.user /\ Editing([Absent EXCEPT !.groups = mem.groups, !.alerts = mem.alerts])

\* The new node's auth_user is unique among the nodes there already are.
WithNode(st, d, n, x) == [st EXCEPT !.nodes = Append(@, NewNode(st, <<d, Slug[n]>>, d, n, x))]

\* node add: the name is new on the device.
AddNode == \E d \in Devices(mem), x \in Fresh : \E n \in Name \ Names(mem, d) :
    /\ mem.user /\ Len(mem.nodes) < MaxNodes
    /\ Editing(WithNode(mem, d, n, x))

\* The nodes at these places copied to device d, one after the other
WithCopies(st, d, source, new) ==
    FoldLeft(LAMBDA to, k : WithNode(to, d, st.nodes[Nth(source, k)].name, new[Nth(source, k)]),
             st, [k \in 1..Cardinality(source) |-> k])

\* device add: the new device gets every node of another, under the same names.
AddDevice == \E d \in Device \ Devices(mem), from \in Devices(mem) :
    LET source == On(mem, from) IN
    /\ Len(mem.nodes) + Cardinality(source) <= MaxNodes
    /\ \E new \in [source -> Fresh] :
        /\ IsInjective(new)
        /\ Editing(WithCopies(mem, d, source, new))

Without(st, gone) ==
    LET kept == {i \in DOMAIN st.nodes : st.nodes[i] \notin gone}
    IN [st EXCEPT !.nodes = [k \in 1..Cardinality(kept) |-> @[Nth(kept, k)]]]

\* node delete; each device keeps one node.
RemoveNode == \E i \in DOMAIN mem.nodes :
    /\ Cardinality(On(mem, mem.nodes[i].device)) > 1
    /\ Editing(Without(mem, {mem.nodes[i]}))

RemoveDevice == \E d \in Devices(mem) :
    /\ Devices(mem) # {d}
    /\ Editing(Without(mem, {mem.nodes[i] : i \in On(mem, d)}))

\* Wrong variant: the auth_user is chosen among the nodes that stay.
AuthSourceKept(kept) == kept

\* webAssignRoutes, assignGroupRoutes: one node makes room for another, whose
\* auth_user is chosen while the first still counts, whose name need not differ.
AuthSource(kept) == mem
Assign == \E i \in DOMAIN mem.nodes, x \in Fresh :
    LET d == mem.nodes[i].device
        kept == Without(mem, {mem.nodes[i]})
    IN \E n \in Name \ Names(kept, d) :
        Editing([kept EXCEPT !.nodes = Append(@, NewNode(AuthSource(kept), <<d, Slug[n]>>, d, n, x))])

RenameNode == \E i \in DOMAIN mem.nodes : \E n \in Name \ Names(mem, mem.nodes[i].device) :
    Editing([mem EXCEPT !.nodes[i].name = n])

\* device rotate: every node of the device gets a new uuid.
RotateDevice == \E d \in Devices(mem), new \in [DOMAIN mem.nodes -> Fresh] :
    /\ \A i, j \in On(mem, d) : i # j => new[i] # new[j]
    /\ Editing([mem EXCEPT !.nodes = [i \in DOMAIN @ |->
            IF @[i].device = d THEN [@[i] EXCEPT !.uuid = new[i]] ELSE @[i]]])

AddGroup == \E g \in Group \ mem.groups : Editing([mem EXCEPT !.groups = @ \cup {g}])
JoinGroup == mem.user /\ \E g \in (mem.groups \cup {NoGroup}) \ {mem.group} : Editing([mem EXCEPT !.group = g])
\* Only an empty group can be deleted.
RemoveGroup == \E g \in mem.groups \ {mem.group} : Editing([mem EXCEPT !.groups = @ \ {g}])

\* appendUsageHistory, recordIPAlert: the newest MaxLog are kept.
Log(log, x) == Append(IF Len(log) < MaxLog THEN log ELSE Tail(log), x)

\* The daemon takes a sample of the user, counts a destination of a node or
\* raises an alert; the operator acknowledges the alerts.
Observe ==
    \/ mem.user /\ \E at \in Moment : Editing([mem EXCEPT !.seen = Log(@, at)])
    \/ \E i \in DOMAIN mem.nodes : Editing([mem EXCEPT !.nodes[i].dest = 1 - @])
Alert ==
    \/ Editing([mem EXCEPT !.alerts = Log(@, FALSE)])
    \/ mem.alerts # <<>> /\ Editing([mem EXCEPT !.alerts = [i \in DOMAIN @ |-> TRUE]])

-----------------------------------------------------------------------------

Open ==
    /\ phase = "closed"
    /\ phase' = "open" /\ edits' = 0
    /\ mem' = Read(file) /\ snap' = Snapshot("state.db", Read(file))
    /\ UNCHANGED <<file, backup, total, clash>>

\* batchUsers and the portal work on a copy made through JSON, without snapshot.
Clone == phase = "open" /\ snap' = Snapshot("none", Absent) /\ UNCHANGED <<file, mem, backup, phase, edits, total, clash>>

\* The process lets go of the lock and of what it read.
Forget == phase' = "closed" /\ mem' = Absent /\ snap' = Snapshot("none", Absent) /\ edits' = 0

\* saveSQLiteState: nothing to do when the hash is the stored one.
Save ==
    LET done == Write(snap, file, mem)
    IN /\ phase = "open" /\ mem # file.hash
       /\ UNCHANGED <<backup, total>>
       /\ clash' = ~done.ok
       /\ \/ done.ok /\ file' = Compact(done.db) /\ phase' = "saved" /\ edits' = 0
             /\ snap' = Snapshot("state.db", mem) /\ UNCHANGED mem
          \/ ~done.ok /\ Forget /\ UNCHANGED file

\* The transaction could not commit, and nothing of it remains; or the process
\* ends, with or without having saved.
Close == phase # "closed" /\ Forget /\ UNCHANGED <<file, backup, total, clash>>

\* The process goes on with the State it saved, the lock still taken.
SaveMore == phase = "saved" /\ phase' = "open" /\ UNCHANGED <<file, mem, snap, backup, edits, total, clash>>

Backup == phase = "closed" /\ backup # file.hash /\ backup' = Read(file) /\ UNCHANGED <<file, mem, snap, phase, edits, total, clash>>

\* A State read from a backup is saved to a new file, which replaces the live
\* one; the process goes on with it.
Restore ==
    LET st == backup
        done == Write(Snapshot("backup", st), Empty, st)
    IN /\ phase = "closed" /\ backup.user /\ clash' = ~done.ok
       /\ file' = IF done.ok THEN Compact(done.db) ELSE file
       /\ mem' = st /\ snap' = Snapshot("temporary", st) /\ phase' = "saved" /\ edits' = 0
       /\ UNCHANGED <<backup, total>>

RowsNext ==
    \/ Open \/ Clone \/ Save \/ SaveMore \/ Close \/ Backup \/ Restore
    \/ AddUser \/ RemoveUser \/ AddNode \/ AddDevice \/ RemoveNode \/ RemoveDevice \/ Assign
    \/ RenameNode \/ RotateDevice \/ AddGroup \/ JoinGroup \/ RemoveGroup \/ Observe \/ Alert

RowsSpec == RowsInit /\ [][RowsNext]_rowVars
-----------------------------------------------------------------------------
(* Properties. *)

\* What the rows say is the State whose hash they carry, whatever was skipped:
\* a reader that finds another hash refuses the database, and with it every
\* command and the daemon.
RowsMatch == Read(file) = file.hash

\* A State that is valid can be saved: no order of the statements meets a row
\* that is about to be deleted or renamed and trips over its unique columns.
SavesSucceed == ~clash

\* A State that differs from the rows in display names alone: the same nodes on
\* the same devices. "A display rename keeps the identity's stable row ID and
\* all dependent statistics" (state_sqlite.go:1393): such a save is never refused.
\* It does not hold: one save may hand a name on (README, Disagreements).
OnlyRenamed ==
    {<<n.device, n.auth, n.uuid>> : n \in Range(mem.nodes)} = {<<r.device, r.auth, r.uuid>> : r \in file.nodes}
RenamesAreSaved == [][OnlyRenamed => ~clash']_rowVars

=============================================================================
