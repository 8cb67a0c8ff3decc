---------------------------- MODULE AnalyticsFlow ----------------------------
(* Connection analytics: sing-box streams cumulative readings of connections  *)
(* to a slave's daemon, which keeps them in the slave's analytics database    *)
(* and queues the changes; the master fetches the queue page by page and      *)
(* merges it into its own database (connection_stream.go, analytics_store.go, *)
(* analytics_mesh.go, analytics_daemon.go, syncAnalyticsIdentities).          *)
(*                                                                            *)
(* A node is known by an identity, a digest of its UUID: a number here, new   *)
(* after every rotation. Its device has a generation, new when the device is  *)
(* deleted and made again. A database mirrors the identities of the State     *)
(* whenever it is opened. Upload and download are one counter. Times, and     *)
(* with them the retention of 30 days, are left out.                          *)
EXTENDS Integers, FiniteSets, Folds

CONSTANTS
    Node,
    Connections,  \* connections that may be made, one after the other
    Owner,        \* connection -> node
    PageLimit,    \* events in a page
    QueueLimit,   \* analyticsEventLimit
    Applied,      \* whether the configuration is applied with a grant, or fails
    Size,         \* bound: connection -> its bytes
    Ending,       \* bound: connections that close, with their last byte
    MaxTroubles   \* bound: restarts, reboots, failures, and edits of the State

Conn == 1..Connections
ASSUME FlowAssumption ==
    /\ Connections \in Nat /\ Owner \in [Conn -> Node] /\ Applied \subseteq BOOLEAN /\ Applied # {}
    /\ PageLimit \in Nat \ {0} /\ QueueLimit \in Nat \ {0} /\ MaxTroubles \in Nat /\ Size \in [Conn -> Nat \ {0}] /\ Ending \subseteq Conn

VARIABLES
    sing,      \* connection -> what sing-box counts of it
    stream,    \* the subscription: "down" or "up"
    batch,     \* what was received of it and is not ingested yet
    acct,      \* host -> node -> its identity and device in the State, id 0 if absent
    here,      \* nodes whose route enters at the slave, in the master's topology
    known,     \* host -> the same as acct, as last mirrored in analytics.db
    row,       \* host -> connection -> analytics_connections
    credit,    \* host -> connection -> its part of analytics_daily
    queue,     \* the slave's analytics_events
    last,      \* AUTOINCREMENT of the slave's events
    made,      \* databases that were lost, and the present one
    epoch,     \* the random epoch of its database: which one it is, 0 before it is made
    cursor,    \* analytics_remote_cursor at the master: sequence, epoch, gaps
    proc,      \* the master's exchange: what it asks for and what came back
    troubles

flowVars == <<sing, stream, batch, acct, here, known, row, credit, queue, last, made, epoch, cursor, proc, troubles>>
slaveVars == <<queue, last, made, epoch>>
masterVars == <<cursor, proc>>
singVars == <<sing, stream, batch>>
stateVars == <<acct, here>>

Host == {"slave", "master"}
NoRow == [there |-> FALSE, bytes |-> 0, closed |-> FALSE, lost |-> FALSE, of |-> 0]
Idle == [at |-> "idle"]
NoBatch == [reset |-> FALSE, readings |-> {}]
MaxOf(S) == IF S = {} THEN 0 ELSE CHOOSE x \in S : \A y \in S : y <= x
MinOf(S) == IF S = {} THEN 0 ELSE CHOOSE x \in S : \A y \in S : x <= y

FlowInit ==
    /\ sing = [c \in Conn |-> [phase |-> "none", bytes |-> 0]] /\ stream = "down" /\ batch = NoBatch
    /\ acct = [h \in Host |-> [n \in Node |-> [id |-> 1, dev |-> 1]]] /\ here = Node
    /\ known = acct
    /\ row = [h \in Host |-> [c \in Conn |-> NoRow]]
    /\ credit = [h \in Host |-> [c \in Conn |-> 0]]
    /\ queue = {} /\ last = 0 /\ made = 1 /\ epoch = 0
    /\ cursor = [sequence |-> 0, epoch |-> 0, gaps |-> FALSE] /\ proc = Idle /\ troubles = 0

Trouble == troubles < MaxTroubles /\ troubles' = troubles + 1

-----------------------------------------------------------------------------
(* sing-box. *)

Connect(c) ==
    /\ sing[c].phase = "none" /\ acct["slave"][Owner[c]].id # 0
    /\ \A b \in 1..c - 1 : sing[b].phase # "none"
    /\ sing' = [sing EXCEPT ![c] = [phase |-> "open", bytes |-> 1]]
    /\ UNCHANGED <<stream, batch, stateVars, known, row, credit, slaveVars, masterVars, troubles>>

Transfer(c) ==
    /\ sing[c].phase = "open" /\ sing[c].bytes < Size[c]
    /\ sing' = [sing EXCEPT ![c].bytes = @ + 1]
    /\ UNCHANGED <<stream, batch, stateVars, known, row, credit, slaveVars, masterVars, troubles>>

CloseConnection(c) ==
    /\ c \in Ending /\ sing[c].phase = "open" /\ sing[c].bytes = Size[c]
    /\ sing' = [sing EXCEPT ![c].phase = "closed"]
    /\ UNCHANGED <<stream, batch, stateVars, known, row, credit, slaveVars, masterVars, troubles>>

\* Its connections end and nothing tells of it.
Stopped == [c \in Conn |-> IF sing[c].phase = "none" THEN sing[c] ELSE [sing[c] EXCEPT !.phase = "gone"]]
Restart ==
    /\ Trouble /\ sing' = Stopped /\ stream' = "down"
    /\ UNCHANGED <<batch, stateVars, known, row, credit, slaveVars, masterVars>>

-----------------------------------------------------------------------------
(* Identities. *)

EditAccount(n, a) ==
    /\ Trouble /\ acct' = [acct EXCEPT !["master"][n] = a]
    /\ UNCHANGED <<singVars, here, known, row, credit, slaveVars, masterVars>>
Rotate(n) == EditAccount(n, [acct["master"][n] EXCEPT !.id = @ + 1])
\* The device is deleted and made again, its nodes with it.
Recreate(n) == EditAccount(n, [id |-> acct["master"][n].id + 1, dev |-> acct["master"][n].dev + 1])

\* A rollout moves the node's route to another slave.
MoveAway(n) ==
    /\ Trouble /\ n \in here /\ here' = here \ {n}
    /\ UNCHANGED <<singVars, acct, known, row, credit, slaveVars, masterVars>>

\* What the slave is granted. It knows a device by its name: one that was made
\* again since keeps its row.
GrantedAccount(n) ==
    IF n \in here THEN [acct["slave"][n] EXCEPT !.id = acct["master"][n].id]
    ELSE [id |-> 0, dev |-> acct["slave"][n].dev + IF acct["slave"][n].id = 0 THEN 0 ELSE 1]
Grant(applied) ==
    LET granted == [n \in Node |-> GrantedAccount(n)] IN
    /\ granted # acct["slave"] /\ acct' = [acct EXCEPT !["slave"] = granted]
    /\ IF applied THEN sing' = Stopped /\ stream' = "down" ELSE UNCHANGED <<sing, stream>>
    /\ UNCHANGED <<batch, here, known, row, credit, slaveVars, masterVars, troubles>>

\* syncAnalyticsIdentities: the rows of identities that are gone are deleted,
\* and with a device its days.
SameNode(h, c) == known[h][Owner[c]].id = acct[h][Owner[c]].id
SameDevice(h, c) == known[h][Owner[c]].dev = acct[h][Owner[c]].dev
\* Wrong variants: what has the same row id is the same.
SyncedRowById(h, c) == IF acct[h][Owner[c]].id # 0 THEN row[h][c] ELSE NoRow
SyncedRow(h, c) == IF SameNode(h, c) THEN row[h][c] ELSE NoRow
SyncedCredit(h, c) == IF SameDevice(h, c) THEN credit[h][c] ELSE 0
SyncedQueue == {e \in queue : e.of = acct["slave"][Owner[e.c]].id}

-----------------------------------------------------------------------------
(* analyticsUpsert on a row and its part of the day. *)

\* Wrong variant: a lower reading is taken for a counter that started again.
UpsertRestarted(entry, e) ==
    IF e.lost THEN [entry EXCEPT !.row.lost = @ \/ (entry.row.there /\ ~entry.row.closed)]
    ELSE [row |-> [there |-> TRUE, bytes |-> e.bytes, closed |-> entry.row.closed \/ e.closed, lost |-> FALSE, of |-> e.of],
          credit |-> entry.credit + IF e.bytes < entry.row.bytes THEN e.bytes ELSE e.bytes - entry.row.bytes]

Upsert(entry, e) ==
    IF e.lost THEN [entry EXCEPT !.row.lost = @ \/ (entry.row.there /\ ~entry.row.closed)]
    ELSE IF entry.row.there /\ e.bytes < entry.row.bytes THEN entry
    ELSE [row |-> [there |-> TRUE, bytes |-> e.bytes, closed |-> entry.row.closed \/ e.closed, lost |-> FALSE, of |-> e.of],
          credit |-> entry.credit + e.bytes - entry.row.bytes]

Entry(h, c) == [row |-> SyncedRow(h, c), credit |-> SyncedCredit(h, c)]

\* Only what changes a row is queued.
Logged(r, e) == ~r.there \/ e.bytes > r.bytes \/ (e.bytes = r.bytes /\ e.closed /\ ~r.closed)

\* watchConnectionStream: a subscription begins with a snapshot of all open
\* connections and the last of the closed ones. The callback that ingests a
\* batch waits for the lock of the State.
Tells(c) == [c |-> c, bytes |-> sing[c].bytes, closed |-> sing[c].phase = "closed"]
Receive(reset) ==
    \E told \in SUBSET {c \in Conn : sing[c].phase \in {"open", "closed"}} :
        /\ batch = NoBatch /\ stream = IF reset THEN "down" ELSE "up"
        /\ IF reset THEN \A c \in Conn : sing[c].phase = "open" => c \in told
           ELSE told = {c \in Conn : sing[c].phase \in {"open", "closed"} /\ Logged(SyncedRow("slave", c), Tells(c))} /\ told # {}
        /\ stream' = "up" /\ batch' = [reset |-> reset, readings |-> {Tells(c) : c \in told}]
        /\ UNCHANGED <<sing, stateVars, known, row, credit, slaveVars, masterVars, troubles>>

\* ingestAnalytics: a batch in one transaction, under the identities of now.
\* After a reset, open rows that the snapshot lacks are abandoned.
Ingest ==
    LET accepted == {r \in batch.readings : acct["slave"][Owner[r.c]].id # 0}
        read == {r.c : r \in accepted}
        before == [c \in Conn |-> SyncedRow("slave", c)]
        abandoned == {c \in Conn \ read : batch.reset /\ before[c].there /\ ~before[c].closed /\ ~before[c].lost}
        reading(c) == CHOOSE r \in accepted : r.c = c
        logged == {c \in read : Logged(before[c], reading(c))}
        number(c) == last + IF c \in read THEN Cardinality({d \in logged : d <= c})
                            ELSE Cardinality(logged) + Cardinality({d \in abandoned : d <= c})
        event(c) == IF c \in read
                    THEN [seq |-> number(c), c |-> c, of |-> acct["slave"][Owner[c]].id,
                          bytes |-> reading(c).bytes, closed |-> reading(c).closed, lost |-> FALSE]
                    ELSE [seq |-> number(c), c |-> c, of |-> before[c].of,
                          bytes |-> before[c].bytes, closed |-> FALSE, lost |-> TRUE]
        after == [c \in Conn |-> IF c \in read \cup abandoned THEN Upsert(Entry("slave", c), event(c)) ELSE Entry("slave", c)]
        events == SyncedQueue \cup {event(c) : c \in logged \cup abandoned}
        newest == MaxOf({e.seq : e \in events})
    IN  /\ batch # NoBatch /\ batch' = NoBatch /\ epoch' = IF epoch = 0 THEN made ELSE epoch
        /\ known' = [known EXCEPT !["slave"] = acct["slave"]]
        /\ row' = [row EXCEPT !["slave"] = [c \in Conn |-> after[c].row]]
        /\ credit' = [credit EXCEPT !["slave"] = [c \in Conn |-> after[c].credit]]
        /\ last' = last + Cardinality(logged) + Cardinality(abandoned)
        /\ queue' = {e \in events : e.seq > newest - QueueLimit}
        /\ UNCHANGED <<sing, stream, stateVars, made, masterVars, troubles>>

\* The control version changed in between, the database is busy, the stream
\* ends: it is subscribed to again.
IngestFails ==
    /\ Trouble /\ stream = "up" /\ stream' = "down" /\ batch' = NoBatch
    /\ UNCHANGED <<sing, stateVars, known, row, credit, slaveVars, masterVars>>

\* The slave's database is lost, alone or with its machine.
LoseDatabase(machine) ==
    /\ Trouble /\ epoch # 0
    /\ IF machine THEN sing' = Stopped /\ stream' = "down" /\ batch' = NoBatch ELSE UNCHANGED singVars
    /\ queue' = {} /\ last' = 0 /\ made' = made + 1 /\ epoch' = 0
    /\ row' = [row EXCEPT !["slave"] = [c \in Conn |-> NoRow]]
    /\ credit' = [credit EXCEPT !["slave"] = [c \in Conn |-> 0]]
    /\ known' = [known EXCEPT !["slave"] = acct["slave"]]
    /\ UNCHANGED <<stateVars, masterVars>>

-----------------------------------------------------------------------------
(* analyticsMeshCycle. *)

\* Wrong variant: only a cursor beyond the head is a gap.
GapBeyondHead(after, events) == after > MaxOf({e.seq : e \in events})
Gap(after, events) ==
    LET head == MaxOf({e.seq : e \in events}) first == MinOf({e.seq : e \in events})
    IN  after > head \/ first > after + 1

\* analyticsReadEvents at the slave
Page(after) ==
    LET events == SyncedQueue
        head == MaxOf({e.seq : e \in events})
        from == IF after > head THEN 0 ELSE after
        rest == {e \in events : e.seq > from}
        taken == {e \in rest : Cardinality({f \in rest : f.seq <= e.seq}) <= PageLimit}
    IN  [events |-> taken, head |-> head, gap |-> Gap(after, events), epoch |-> epoch,
         next |-> IF taken = {} THEN from ELSE MaxOf({e.seq : e \in taken})]

\* A cycle begins, or goes on to its next page, from the stored cursor.
Exchange(after, seen) ==
    /\ epoch # 0
    /\ \/ proc = Idle /\ after = cursor.sequence /\ seen = cursor.epoch
       \/ proc.at = "again" /\ after = 0 /\ seen = proc.epoch
    /\ proc' = [at |-> "merge", after |-> after, epoch |-> seen, page |-> Page(after)]
    /\ known' = [known EXCEPT !["slave"] = acct["slave"]] /\ queue' = SyncedQueue
    /\ row' = [row EXCEPT !["slave"] = [c \in Conn |-> SyncedRow("slave", c)]]
    /\ credit' = [credit EXCEPT !["slave"] = [c \in Conn |-> SyncedCredit("slave", c)]]
    /\ UNCHANGED <<singVars, stateVars, last, made, epoch, cursor, troubles>>

\* No answer, the topology or the control version changed, or the daemon ends.
GiveUp ==
    /\ Trouble /\ proc # Idle /\ proc' = Idle
    /\ UNCHANGED <<singVars, stateVars, known, row, credit, slaveVars, cursor>>

\* Another database, or one that went back: it is read from its beginning.
Rewound(after, seen, page) == (seen # 0 /\ seen # page.epoch) \/ page.head < after
AskAgain ==
    /\ proc.at = "merge" /\ Rewound(proc.after, proc.epoch, proc.page)
    /\ proc' = [at |-> "again", epoch |-> proc.page.epoch]
    /\ UNCHANGED <<singVars, stateVars, known, row, credit, slaveVars, cursor, troubles>>

\* mergeRemoteAnalytics. An identity that was revoked is passed over; one whose
\* route enters elsewhere refuses the page.
\* Wrong variant: the stored cursor is trusted.
FromCursor(page) == cursor.sequence
From(page) == IF Rewound(cursor.sequence, cursor.epoch, page) THEN 0 ELSE cursor.sequence
Fresh(page) == {e \in page.events : e.seq > From(page) /\ e.of = acct["master"][Owner[e.c]].id}
Refused(page) == \E e \in Fresh(page) : Owner[e.c] \notin here

\* The events of a page in the order of their numbers: the newest is the last.
Newest(events) == CHOOSE e \in events : \A f \in events : f.seq <= e.seq
Merged(entry, events) ==
    MapThenFoldSet(LAMBDA e, merged : Upsert(merged, e), entry, LAMBDA e : e, Newest, events)

Merge ==
    /\ proc.at = "merge" /\ ~Rewound(proc.after, proc.epoch, proc.page) /\ ~Refused(proc.page)
    /\ LET page == proc.page
           rewound == Rewound(cursor.sequence, cursor.epoch, page)
           after == [c \in Conn |-> Merged(Entry("master", c), {e \in Fresh(page) : e.c = c})]
       IN
       /\ known' = [known EXCEPT !["master"] = acct["master"]]
       /\ row' = [row EXCEPT !["master"] = [c \in Conn |-> after[c].row]]
       /\ credit' = [credit EXCEPT !["master"] = [c \in Conn |-> after[c].credit]]
       /\ cursor' = [sequence |-> MaxOf({From(page), page.next}), epoch |-> page.epoch,
                     gaps |-> cursor.gaps \/ rewound \/ (page.gap /\ page.next > From(page))]
       /\ proc' = Idle
    /\ UNCHANGED <<singVars, stateVars, slaveVars, troubles>>

MergeRefused ==
    /\ proc.at = "merge" /\ ~Rewound(proc.after, proc.epoch, proc.page) /\ Refused(proc.page)
    /\ proc' = Idle
    /\ UNCHANGED <<singVars, stateVars, known, row, credit, slaveVars, cursor, troubles>>

Cycle ==
    \/ Exchange(cursor.sequence, cursor.epoch) \/ (proc.at = "again" /\ Exchange(0, proc.epoch))
    \/ AskAgain \/ Merge \/ MergeRefused

FlowNext ==
    \/ \E c \in Conn : Connect(c) \/ Transfer(c) \/ CloseConnection(c)
    \/ \E n \in Node : Rotate(n) \/ Recreate(n) \/ MoveAway(n)
    \/ Restart \/ IngestFails \/ GiveUp \/ Cycle
    \/ \E applied \in Applied : Grant(applied)
    \/ Ingest \/ \E b \in BOOLEAN : Receive(b) \/ LoseDatabase(b)

\* The daemons of both hosts run, and the slave is granted what the master has.
FlowFairness ==
    /\ WF_flowVars(Cycle) /\ WF_flowVars(\E applied \in Applied : Grant(applied))
FlowSpec == FlowInit /\ [][FlowNext]_flowVars /\ FlowFairness
-----------------------------------------------------------------------------
(* Properties. *)

\* However readings and pages are repeated, after reconnects, gaps and restarts,
\* a host's days hold no byte of a connection twice.
\* It does not hold once a node's UUID is rotated (README, Disagreements).
CountedOnce == \A h \in Host, c \in Conn : credit[h][c] <= sing[c].bytes

\* The same, as long as the node's UUID is not rotated under a device that stays.
Unrotated(h, n) == known[h][n].id = known[h][n].dev
ReplayCountsOnce == \A h \in Host, c \in Conn : Unrotated(h, Owner[c]) => credit[h][c] <= sing[c].bytes

\* What a database shows of a node was recorded of its present identity: a node
\* with the row of a deleted one, or a late page, inherits nothing.
NeverInherited ==
    \A h \in Host, c \in Conn : row[h][c].there => row[h][c].of = known[h][Owner[c]].id

\* As long as the master has recorded no gap, what its cursor has passed is in
\* its history, for all that both still know by the same identity: no event is
\* pruned, skipped or lost with a database in silence.
NoSilentLoss ==
    ~cursor.gaps /\ cursor.epoch = epoch /\ cursor.sequence = last =>
        \A c \in Conn : LET r == row["slave"][c] q == row["master"][c] IN
            r.there /\ r.of = known["master"][Owner[c]].id /\ r.of = acct["master"][Owner[c]].id
            => q.there /\ q.bytes >= r.bytes /\ (r.closed => q.closed)

\* All that stays in the slave's queue reaches the master's history, unless it
\* is revoked: nothing refuses a page for ever.
CatchesUp ==
    <>[](\A e \in queue : ~e.lost /\ e.of = acct["master"][Owner[e.c]].id /\ Owner[e.c] \in here
            => row["master"][e.c].bytes >= e.bytes)

=============================================================================
