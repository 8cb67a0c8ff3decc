--------------------------- MODULE AnalyticsFlowProofs ---------------------------
(***************************************************************************)
(* Proofs about AnalyticsFlow for any nodes, connections and their owners, *)
(* sizes of pages and of the queue, and any number of restarts, lost       *)
(* databases, failures and edits of the State.                             *)
(***************************************************************************)
EXTENDS AnalyticsFlow, FiniteSetTheorems, WellFoundedInduction, TLAPS

--------------------------------------------------------------------------------
(* Numbers *)

LEMMA LeastNumber ==
  ASSUME NEW T, T \subseteq Nat, T # {}
  PROVE  \E m \in T : \A l \in T : m <= l
<1>1. PICK m \in T : \A l \in T : <<l, m>> \notin OpToRel(<, Nat)
  BY WFMin, NatLessThanWellFounded
<1>2. OpToRel(<, Nat) = {p \in Nat \X Nat : p[1] < p[2]}
  BY DEF OpToRel
<1>3. \A l \in T : ~(l < m)
  BY <1>1, <1>2
<1> QED BY <1>3

LEMMA MinIsLeast ==
  ASSUME NEW T, T \subseteq Nat, T # {}
  PROVE  MinOf(T) \in T /\ \A y \in T : MinOf(T) <= y
BY LeastNumber DEF MinOf

\* The least bound of a set of numbers is its greatest element.
LEMMA MaxIsGreatest ==
  ASSUME NEW T, T \subseteq Nat, T # {}, NEW n \in Nat, \A y \in T : y <= n
  PROVE  MaxOf(T) \in T /\ \A y \in T : y <= MaxOf(T)
<1> DEFINE Bounds == {b \in Nat : \A y \in T : y <= b}
<1>1. PICK m \in Bounds : \A l \in Bounds : m <= l
  <2>1. Bounds \subseteq Nat /\ Bounds # {}
    OBVIOUS
  <2> HIDE DEF Bounds
  <2> QED BY <2>1, LeastNumber
<1>2. m \in T
  <2> SUFFICES ASSUME m \notin T PROVE FALSE
    OBVIOUS
  <2>1. \A y \in T : y <= m - 1
    OBVIOUS
  <2>2. m - 1 \in Nat
    <3>1. PICK y \in T : TRUE
      OBVIOUS
    <3> QED BY <2>1, <3>1
  <2> QED BY <1>1, <2>1, <2>2
<1>3. \A y \in T : y <= m
  OBVIOUS
<1> QED BY <1>2, <1>3 DEF MaxOf

\* What is counted of a finite set is no more than the set.
LEMMA Smaller ==
  ASSUME NEW T, IsFiniteSet(T), NEW S, S \subseteq T
  PROVE  /\ IsFiniteSet(S) /\ Cardinality(S) \in Nat /\ Cardinality(T) \in Nat
         /\ Cardinality(S) <= Cardinality(T)
         /\ (S # {} => Cardinality(S) >= 1)
<1>1. IsFiniteSet(S) /\ Cardinality(S) <= Cardinality(T)
  BY FS_Subset
<1>2. Cardinality(S) \in Nat /\ Cardinality(T) \in Nat
  BY <1>1, FS_CardinalityType
<1>3. Cardinality(S) = 0 => S = {}
  BY <1>1, FS_EmptySet
<1> QED BY <1>1, <1>2, <1>3

--------------------------------------------------------------------------------
(* Rows *)

\* What is recorded of a connection is no more than sing-box counts of it.
Real(s, c, x) ==
  /\ x.bytes <= s[c].bytes
  /\ x.closed => x.bytes = s[c].bytes /\ s[c].phase \in {"closed", "gone"}

IsSing(s) ==
  /\ s \in [Conn -> [phase : {"none", "open", "closed", "gone"}, bytes : Nat]]
  /\ \A c \in Conn : s[c].phase = "none" => s[c].bytes = 0

\* Counters grow until their connection ends.
Grows(s, t) ==
  \A c \in Conn :
    /\ s[c].bytes <= t[c].bytes
    /\ s[c].phase \in {"closed", "gone"} =>
         t[c].phase \in {"closed", "gone"} /\ t[c].bytes = s[c].bytes

LEMMA RealGrows ==
  ASSUME NEW s, NEW t, IsSing(s), IsSing(t), Grows(s, t),
         NEW c \in Conn, NEW x, x.bytes \in Nat, Real(s, c, x)
  PROVE  Real(t, c, x)
BY DEF IsSing, Grows, Real

IsEvent(e) == e.seq \in Nat /\ e.c \in Conn /\ e.bytes \in Nat /\ e.of \in Nat
IsRow(r) ==
  /\ DOMAIN r = {"there", "bytes", "closed", "lost", "of"}
  /\ r.bytes \in Nat /\ r.of \in Nat
  /\ ~r.there => r.bytes = 0 /\ ~r.closed

\* A row of connection c and its part of the day, recorded of identity id
IsEntry(s, c, id, x) ==
  /\ DOMAIN x = {"row", "credit"} /\ x.credit \in Int
  /\ IsRow(x.row) /\ Real(s, c, x.row)
  /\ x.row.there => x.row.of = id

\* x is y after some events.
Follows(x, y) ==
  /\ y.row.there => x.row.there
  /\ y.row.bytes <= x.row.bytes
  /\ y.row.closed => x.row.closed
  /\ y.credit <= y.row.bytes => x.credit <= x.row.bytes
Reaches(x, e) == x.row.there /\ e.bytes <= x.row.bytes /\ (e.closed => x.row.closed)

\* analyticsUpsert never lets a row go back, and adds to the day what it adds
\* to the row.
LEMMA UpsertFollows ==
  ASSUME NEW s, IsSing(s), NEW c \in Conn, NEW id \in Nat, NEW x, IsEntry(s, c, id, x),
         NEW e, IsEvent(e), Real(s, c, e), ~e.lost => e.of = id
  PROVE  /\ IsEntry(s, c, id, Upsert(x, e)) /\ Follows(Upsert(x, e), x)
         /\ ~e.lost => Reaches(Upsert(x, e), e)
<1>1. s[c].bytes \in Nat
  BY DEF IsSing
<1>2. CASE e.lost
  <2> DEFINE marked == [x.row EXCEPT !.lost = @ \/ (x.row.there /\ ~x.row.closed)]
  <2>1. Upsert(x, e) = [x EXCEPT !.row = marked]
    BY <1>2 DEF Upsert, IsEntry, IsRow
  <2>2. /\ DOMAIN marked = DOMAIN x.row /\ marked.there = x.row.there /\ marked.bytes = x.row.bytes
        /\ marked.closed = x.row.closed /\ marked.of = x.row.of
    BY DEF IsEntry, IsRow
  <2> HIDE DEF marked
  <2>3. Upsert(x, e).row = marked /\ Upsert(x, e).credit = x.credit /\ DOMAIN Upsert(x, e) = DOMAIN x
    BY <2>1 DEF IsEntry
  <2> QED BY <1>1, <1>2, <2>2, <2>3 DEF IsEntry, IsRow, Real, Follows
<1>3. CASE ~e.lost /\ x.row.there /\ e.bytes < x.row.bytes
  <2>1. Upsert(x, e) = x
    BY <1>3 DEF Upsert
  <2> QED BY <1>1, <1>3, <2>1 DEF IsEntry, IsRow, IsEvent, Real, Follows, Reaches
<1>4. CASE ~e.lost /\ ~(x.row.there /\ e.bytes < x.row.bytes)
  <2> DEFINE closed == x.row.closed \/ e.closed
             next == [there |-> TRUE, bytes |-> e.bytes, closed |-> closed, lost |-> FALSE, of |-> e.of]
             added == x.credit + e.bytes - x.row.bytes
  <2>1. Upsert(x, e) = [row |-> next, credit |-> added]
    BY <1>4 DEF Upsert
  <2>2. x.row.bytes <= e.bytes
    BY <1>4 DEF IsEntry, IsRow, IsEvent
  <2>3. closed => e.bytes = s[c].bytes /\ s[c].phase \in {"closed", "gone"}
    BY <1>1, <1>4, <2>2 DEF IsEntry, IsRow, IsEvent, Real
  <2>4. /\ DOMAIN next = {"there", "bytes", "closed", "lost", "of"}
        /\ next.there /\ next.bytes = e.bytes /\ (next.closed <=> closed) /\ next.of = e.of
    OBVIOUS
  <2> HIDE DEF next, closed
  <2>5. /\ DOMAIN Upsert(x, e) = {"row", "credit"}
        /\ Upsert(x, e).row = next /\ Upsert(x, e).credit = added
    BY <2>1
  <2>6. /\ x.credit \in Int /\ x.row.bytes \in Nat /\ e.bytes \in Nat /\ e.of \in Nat
        /\ e.bytes <= s[c].bytes /\ e.of = id
    BY <1>4 DEF IsEntry, IsRow, IsEvent, Real
  <2>7. IsEntry(s, c, id, Upsert(x, e))
    BY <1>1, <2>3, <2>4, <2>5, <2>6 DEF IsEntry, IsRow, Real
  <2>8. Follows(Upsert(x, e), x)
    BY <2>2, <2>4, <2>5, <2>6 DEF Follows, closed
  <2>9. Reaches(Upsert(x, e), e)
    BY <2>4, <2>5, <2>6 DEF Reaches, closed
  <2> QED BY <2>7, <2>8, <2>9
<1> QED BY <1>2, <1>3, <1>4

--------------------------------------------------------------------------------
(* Merging the events of a page into a row *)

LEMMA NewestIsOne ==
  ASSUME NEW S, S # {}, \A e \in S : e.seq \in Nat, NEW n \in Nat, \A e \in S : e.seq <= n
  PROVE  Newest(S) \in S
<1> DEFINE T == {e.seq : e \in S}
<1>1. T \subseteq Nat /\ T # {} /\ \A y \in T : y <= n
  OBVIOUS
<1>2. MaxOf(T) \in T /\ \A y \in T : y <= MaxOf(T)
  <2> HIDE DEF T
  <2> QED BY <1>1, MaxIsGreatest
<1>3. PICK e \in S : e.seq = MaxOf(T)
  BY <1>2
<1>4. \A f \in S : f.seq <= e.seq
  BY <1>2, <1>3
<1> QED BY <1>4 DEF Newest

\* Taking the newest event out of a set.
LEMMA OneFewer ==
  ASSUME NEW S, IsFiniteSet(S), S # {}, \A e \in S : e.seq \in Nat,
         NEW n \in Nat, \A e \in S : e.seq <= n
  PROVE  /\ Newest(S) \in S /\ IsFiniteSet(S \ {Newest(S)})
         /\ Cardinality(S) \in Nat \ {0} /\ Cardinality(S \ {Newest(S)}) = Cardinality(S) - 1
<1>1. Newest(S) \in S
  BY NewestIsOne
<1>2. /\ IsFiniteSet(S \ {Newest(S)}) /\ Cardinality(S \ {Newest(S)}) = Cardinality(S) - 1
      /\ Cardinality(S) \in Nat /\ Cardinality(S \ {Newest(S)}) \in Nat
  BY <1>1, FS_RemoveElement, FS_CardinalityType
<1> QED BY <1>1, <1>2

\* What holds of a number when it holds of all that are less, holds of all.
LEMMA NoLeastBad ==
  ASSUME NEW Bad, Bad \subseteq Nat, \A m \in Bad : \E l \in Bad : l < m
  PROVE  Bad = {}
<1> SUFFICES ASSUME Bad # {} PROVE FALSE
  OBVIOUS
<1>1. PICK m \in Bad : \A l \in Bad : m <= l
  BY LeastNumber
<1> QED BY <1>1

\* m gives what the events of each part of S make of x.
FoldOf(m, x, S) ==
  /\ Merged(x, S) = m[S]
  /\ \A s \in SUBSET S :
       m[s] = IF s = {} THEN x ELSE Upsert(m[s \ {Newest(s)}], Newest(s))

\* The function that the fold is defined by exists: no set of events is a
\* smallest exception.
LEMMA MergedStep ==
  ASSUME NEW S, IsFiniteSet(S), \A e \in S : e.seq \in Nat,
         NEW n \in Nat, \A e \in S : e.seq <= n, NEW x
  PROVE  \E m : FoldOf(m, x, S)
<1> DEFINE Value(g, s) == IF s = {} THEN x
                          ELSE LET e == Newest(s) IN Upsert(g[s \ {e}], e)
           Below(k) == {s \in SUBSET S : Cardinality(s) < k}
           merged == CHOOSE g : g = [s \in SUBSET S |-> Value(g, s)]
<1>1. Merged(x, S) = merged[S]
  BY DEF Merged, MapThenFoldSet
<1>2. \A s \in SUBSET S : IsFiniteSet(s) /\ Cardinality(s) \in Nat
  BY FS_Subset, FS_CardinalityType
<1>3. \A k \in Nat : \E g : g = [s \in Below(k) |-> Value(g, s)]
  <2> DEFINE Bad == {k \in Nat : ~ \E g : g = [s \in Below(k) |-> Value(g, s)]}
  <2> SUFFICES Bad = {}
    OBVIOUS
  <2> SUFFICES ASSUME NEW k \in Bad PROVE \E l \in Bad : l < k
    <3>1. Bad \subseteq Nat
      OBVIOUS
    <3> HIDE DEF Bad
    <3> QED BY <3>1, NoLeastBad
  <2>1. CASE k = 0
    <3>1. Below(0) = {}
      BY <1>2
    <3> DEFINE g == [s \in {} |-> 0]
    <3>2. g = [s \in Below(0) |-> Value(g, s)]
      BY <3>1
    <3> HIDE DEF Below, Value
    <3> QED BY <2>1, <3>2
  <2>2. CASE k # 0 /\ k - 1 \notin Bad
    <3>0. k - 1 \in Nat
      BY <2>2
    <3>1. PICK f : f = [s \in Below(k - 1) |-> Value(f, s)]
      <4> HIDE DEF Below, Value
      <4> QED BY <2>2, <3>0
    <3> DEFINE g == [s \in Below(k) |-> Value(f, s)]
    <3>2. \A s \in Below(k) : Value(f, s) = Value(g, s)
      <4> SUFFICES ASSUME NEW s \in Below(k), s # {} PROVE Value(f, s) = Value(g, s)
        OBVIOUS
      <4> DEFINE t == s \ {Newest(s)}
      <4>0. IsFiniteSet(s) /\ (\A e \in s : e.seq \in Nat) /\ (\A e \in s : e.seq <= n)
        BY <1>2
      <4>1. t \in Below(k - 1) /\ t \in Below(k)
        BY <1>2, <4>0, OneFewer
      <4>2. f[t] = Value(f, t) /\ g[t] = Value(f, t)
        <5> HIDE DEF Value, Below, t
        <5> QED BY <3>1, <4>1
      <4> HIDE DEF g
      <4> QED BY <4>2
    <3>3. g = [s \in Below(k) |-> Value(g, s)]
      <4> HIDE DEF Value, Below
      <4> QED BY <3>2
    <3>4. k \notin Bad
      <4> HIDE DEF g, Value, Below
      <4> QED BY <3>3
    <3> QED BY <3>4
  <2>3. k \in Nat
    OBVIOUS
  <2> HIDE DEF Bad
  <2> QED BY <2>1, <2>2, <2>3
<1>4. merged = [s \in SUBSET S |-> Value(merged, s)]
  <2>1. Cardinality(S) + 1 \in Nat
    BY <1>2
  <2>2. \A s \in SUBSET S : Cardinality(s) <= Cardinality(S)
    BY FS_Subset
  <2>3. Below(Cardinality(S) + 1) = SUBSET S
    BY <1>2, <2>2
  <2> HIDE DEF Value, Below
  <2>4. \E g : g = [s \in SUBSET S |-> Value(g, s)]
    BY <1>3, <2>1, <2>3
  <2> QED BY <2>4
<1>5. \A s \in SUBSET S : merged[s] = Value(merged, s)
  <2> HIDE DEF merged, Value
  <2> QED BY <1>4
<1> HIDE DEF merged
<1>6. FoldOf(merged, x, S)
  BY <1>1, <1>5 DEF FoldOf
<1> QED BY <1>6

\* mergeRemoteAnalytics lets no row go back, and brings it to all that a page
\* says of the connection.
LEMMA MergedFollows ==
  ASSUME NEW s, IsSing(s), NEW c \in Conn, NEW id \in Nat, NEW x, IsEntry(s, c, id, x),
         NEW S, IsFiniteSet(S), NEW n \in Nat,
         \A e \in S : IsEvent(e) /\ Real(s, c, e) /\ e.of = id /\ e.seq <= n
  PROVE  /\ IsEntry(s, c, id, Merged(x, S)) /\ Follows(Merged(x, S), x)
         /\ \A e \in S : ~e.lost => Reaches(Merged(x, S), e)
<1>0. (\A e \in S : e.seq \in Nat) /\ (\A e \in S : e.seq <= n)
  BY DEF IsEvent
<1>1. PICK m : FoldOf(m, x, S)
  BY <1>0, MergedStep
<1> DEFINE Good(p) == /\ IsEntry(s, c, id, m[p]) /\ Follows(m[p], x)
                      /\ \A e \in p : ~e.lost => Reaches(m[p], e)
           Bad == {k \in Nat : \E p \in SUBSET S : Cardinality(p) = k /\ ~Good(p)}
<1>2. \A p \in SUBSET S : IsFiniteSet(p) /\ Cardinality(p) \in Nat
  BY FS_Subset, FS_CardinalityType
<1>3. ASSUME NEW k \in Bad PROVE \E l \in Bad : l < k
  <2>1. PICK p \in SUBSET S : Cardinality(p) = k /\ ~Good(p)
    OBVIOUS
  <2>2. p # {}
    <3> SUFFICES Good({})
      BY <2>1
    <3>1. m[{}] = x
      BY <1>1 DEF FoldOf
    <3>2. Follows(x, x)
      BY DEF Follows, IsEntry, IsRow
    <3> QED BY <3>1, <3>2
  <2> DEFINE e == Newest(p)
             t == p \ {e}
  <2>3. e \in p /\ t \in SUBSET S /\ Cardinality(t) = k - 1 /\ k # 0
    BY <1>0, <1>2, <2>1, <2>2, OneFewer
  <2>4. m[p] = Upsert(m[t], e)
    BY <1>1, <2>2 DEF FoldOf
  <2>5. IsEvent(e) /\ Real(s, c, e) /\ e.of = id
    BY <2>3
  <2> HIDE DEF e
  <2>6. ASSUME Good(t) PROVE Good(p)
    <3> DEFINE y == m[t]
    <3>1. /\ IsEntry(s, c, id, Upsert(y, e)) /\ Follows(Upsert(y, e), y)
          /\ ~e.lost => Reaches(Upsert(y, e), e)
      <4> HIDE DEF y
      <4>1. IsEntry(s, c, id, y)
        BY <2>6 DEF y
      <4> QED BY <2>5, <4>1, UpsertFollows
    <3>2. IsEntry(s, c, id, m[p]) /\ Follows(m[p], m[t]) /\ (~e.lost => Reaches(m[p], e))
      BY <2>4, <3>1
    <3>3. /\ m[p].row.bytes \in Nat /\ m[t].row.bytes \in Nat /\ x.row.bytes \in Nat
          /\ m[p].credit \in Int /\ m[t].credit \in Int /\ x.credit \in Int
      BY <2>6, <3>2 DEF IsEntry, IsRow
    <3>4. Follows(m[p], x)
      BY <2>6, <3>2, <3>3 DEF Follows
    <3>5. ASSUME NEW f \in t, ~f.lost PROVE Reaches(m[p], f)
      <4>1. Reaches(m[t], f) /\ f.bytes \in Nat
        BY <2>6, <3>5 DEF IsEvent
      <4> QED BY <3>2, <3>3, <4>1 DEF Follows, Reaches
    <3> QED BY <2>3, <3>2, <3>4, <3>5
  <2>7. k - 1 \in Bad
    <3> HIDE DEF Good
    <3> QED BY <2>1, <2>3, <2>6
  <2> QED BY <2>3, <2>7
<1>4. Bad = {}
  <2>1. Bad \subseteq Nat
    OBVIOUS
  <2> HIDE DEF Bad
  <2> QED BY <1>3, <2>1, NoLeastBad
<1>5. Good(S)
  <2> HIDE DEF Good
  <2> QED BY <1>2, <1>4
<1> QED BY <1>1, <1>5 DEF FoldOf

--------------------------------------------------------------------------------
(* The invariant *)

Account == [id : Nat, dev : Nat]

\* Identities grow, and so do devices; the master's database may lag behind its
\* State. A node's slave has one device of it, and learns an identity that the
\* master has given it; a node that is gone from the slave does not come back.
IdInv ==
  /\ acct \in [Host -> [Node -> Account]] /\ known \in [Host -> [Node -> Account]] /\ here \subseteq Node
  /\ \A n \in Node : LET a == acct["master"][n] k == known["master"][n] IN
       /\ a.id >= a.dev /\ k.id >= k.dev /\ k.dev >= 1
       /\ k.id <= a.id /\ k.dev <= a.dev /\ k.id - k.dev <= a.id - a.dev
  /\ \A n \in Node : LET a == acct["slave"][n] k == known["slave"][n] m == acct["master"][n] IN
       /\ a.id <= m.id /\ k.id <= m.id
       /\ a.dev >= 1 /\ k.dev >= 1 /\ (a.id # 0 => a.dev = 1) /\ (k.id # 0 => k.dev = 1)
       /\ a.id = 0 => n \notin here
       /\ a.id # 0 => k.id # 0 /\ k.id <= a.id

BatchInv ==
  \A r \in batch.readings : r.c \in Conn /\ r.bytes \in Nat /\ Real(sing, r.c, r)

\* Every row is of the identity that its database knows.
Held(h, c) == [row |-> row[h][c], credit |-> credit[h][c]]
RowInv ==
  /\ DOMAIN row = Host /\ \A h \in Host : DOMAIN row[h] = Conn
  /\ DOMAIN credit = Host /\ \A h \in Host : DOMAIN credit[h] = Conn
  /\ \A h \in Host, c \in Conn : IsEntry(sing, c, known[h][Owner[c]].id, Held(h, c))

\* A day holds of a connection no more than its row, unless the row went with a
\* rotated UUID.
CountedInv ==
  \A h \in Host, c \in Conn : Unrotated(h, Owner[c]) => credit[h][c] <= row[h][c].bytes

QueueInv ==
  /\ IsFiniteSet(queue) /\ last \in Nat
  /\ \A e \in queue : IsEvent(e) /\ e.seq <= last /\ Real(sing, e.c, e)

\* A cursor points into the present database or into one that is lost.
CursorInv ==
  /\ cursor.sequence \in Nat /\ cursor.epoch \in Nat
  /\ made \in Nat /\ made >= 1 /\ epoch \in {0, made} /\ cursor.epoch <= made
  /\ epoch = 0 => last = 0 /\ queue = {} /\ cursor.epoch < made /\ \A c \in Conn : ~row["slave"][c].there
  /\ cursor.epoch = 0 => cursor.sequence = 0
  /\ cursor.epoch = epoch => cursor.sequence <= last

IsPage(page) ==
  /\ IsFiniteSet(page.events) /\ page.head \in Nat /\ page.next \in Nat /\ page.epoch \in Nat
  /\ \A e \in page.events : IsEvent(e) /\ e.seq <= page.head /\ Real(sing, e.c, e)
  /\ page.epoch # 0 /\ page.epoch <= made
  /\ epoch = 0 => page.epoch < made
  /\ page.epoch = epoch => page.next <= last
ProcInv ==
  /\ proc.at = "again" => proc.epoch \in Nat
  /\ proc.at = "merge" => IsPage(proc.page)

\* What the slave shows of a connection is in the master's history, or an event
\* behind number p of the queue brings it, or there is a hole behind p.
Carries(e, c) ==
  LET r == row["slave"][c] IN
  e.c = c /\ ~e.lost /\ e.of = r.of /\ e.bytes = r.bytes /\ (r.closed => e.closed)
Shown(c) == row["slave"][c].there /\ row["slave"][c].of = acct["master"][Owner[c]].id
Holds(c) ==
  LET r == row["slave"][c] q == row["master"][c] IN
  q.there /\ known["master"][Owner[c]].id = r.of /\ q.bytes >= r.bytes /\ (r.closed => q.closed)
Waits(c, p) == \E e \in queue : e.seq > p /\ Carries(e, c)
Hole(p) == p < last /\ \A e \in queue : e.seq > p + 1
Brings(page, c) == \E e \in page.events : e.seq > cursor.sequence /\ Carries(e, c)

CoveredInv ==
  ~cursor.gaps /\ cursor.epoch \in {0, epoch} =>
    \A c \in Conn : Shown(c) => Holds(c) \/ Waits(c, cursor.sequence) \/ Hole(cursor.sequence)

\* The same once the page that is on its way is merged: then the cursor is at
\* the end of the page.
End(page) == IF cursor.sequence < page.next THEN page.next ELSE cursor.sequence
Arrives(page, c) ==
  \/ Holds(c) \/ Brings(page, c) \/ Waits(c, End(page)) \/ Hole(End(page))
  \/ page.gap /\ page.next > cursor.sequence
PageInv ==
  ~cursor.gaps /\ proc.at = "merge" /\ proc.page.epoch = epoch
    /\ ~Rewound(cursor.sequence, cursor.epoch, proc.page)
    => \A c \in Conn : Shown(c) => Arrives(proc.page, c)

FlowInv ==
  /\ IsSing(sing) /\ BatchInv /\ IdInv /\ RowInv /\ CountedInv
  /\ QueueInv /\ CursorInv /\ ProcInv /\ CoveredInv /\ PageInv

\* Initially nothing is recorded.
LEMMA InitFlow == FlowInit => FlowInv
<1> SUFFICES ASSUME FlowInit PROVE FlowInv
  OBVIOUS
<1> USE DEF FlowInit
<1>1. IsSing(sing)
  BY DEF IsSing
<1>2. BatchInv
  BY DEF BatchInv, NoBatch
<1>3. IdInv
  BY DEF IdInv, Account, Host
<1>4. RowInv
  <2>1. ASSUME NEW h \in Host, NEW c \in Conn
        PROVE  IsEntry(sing, c, known[h][Owner[c]].id, Held(h, c))
    <3>1. row[h][c] = NoRow /\ credit[h][c] = 0 /\ sing[c].bytes = 0
      OBVIOUS
    <3>2. IsEntry(sing, c, known[h][Owner[c]].id, [row |-> NoRow, credit |-> 0])
      BY <3>1 DEF IsEntry, IsRow, Real, NoRow
    <3> QED BY <3>1, <3>2 DEF Held
  <2> QED BY <2>1 DEF RowInv
<1>5. CountedInv
  BY DEF CountedInv, NoRow
<1>6. QueueInv
  BY FS_EmptySet DEF QueueInv
<1>7. CursorInv
  BY DEF CursorInv, NoRow, Host
<1>8. ProcInv /\ PageInv
  BY DEF ProcInv, PageInv, Idle
<1>9. CoveredInv
  BY DEF CoveredInv, Shown, NoRow, Host
<1> QED BY <1>1, <1>2, <1>3, <1>4, <1>5, <1>6, <1>7, <1>8, <1>9 DEF FlowInv

\* A step that leaves the databases, the queue and the exchange alone, and
\* makes no row one of the present identity, keeps the invariant.
LEMMA QuietStep ==
  ASSUME FlowInv, IsSing(sing'), Grows(sing, sing'), BatchInv', IdInv',
         \A c \in Conn : Shown(c)' => Shown(c),
         UNCHANGED <<known, row, credit, queue, last, made, epoch, cursor, proc>>
  PROVE  FlowInv'
<1>1. RowInv'
  <2>1. ASSUME NEW h \in Host, NEW c \in Conn
        PROVE  IsEntry(sing', c, known'[h][Owner[c]].id, Held(h, c)')
    <3>1. Held(h, c)' = Held(h, c) /\ known'[h][Owner[c]].id = known[h][Owner[c]].id
      BY DEF Held
    <3>2. IsEntry(sing, c, known[h][Owner[c]].id, Held(h, c))
      BY DEF FlowInv, RowInv
    <3>3. Held(h, c).row.bytes \in Nat
      BY <3>2 DEF IsEntry, IsRow
    <3>4. Real(sing', c, Held(h, c).row)
      BY <3>2, <3>3, RealGrows DEF FlowInv, IsEntry
    <3> HIDE DEF Held
    <3> QED BY <3>1, <3>2, <3>4 DEF IsEntry
  <2> QED BY <2>1 DEF FlowInv, RowInv
<1>2. CountedInv'
  BY DEF FlowInv, CountedInv, Unrotated
<1>3. QueueInv'
  <2>1. ASSUME NEW e \in queue PROVE Real(sing', e.c, e)
    BY RealGrows DEF FlowInv, QueueInv, IsEvent
  <2> QED BY <2>1 DEF FlowInv, QueueInv
<1>4. CursorInv'
  BY DEF FlowInv, CursorInv
<1>5. ProcInv'
  <2>1. ASSUME proc.at = "merge", NEW e \in proc.page.events PROVE Real(sing', e.c, e)
    BY <2>1, RealGrows DEF FlowInv, ProcInv, IsPage, IsEvent
  <2> QED BY <2>1 DEF FlowInv, ProcInv, IsPage
<1>6. \A c \in Conn : (Holds(c)' <=> Holds(c)) /\ \A e : Carries(e, c)' <=> Carries(e, c)
  BY DEF Holds, Carries
<1>7. \A p : (Hole(p)' <=> Hole(p)) /\ \A c \in Conn : Waits(c, p)' <=> Waits(c, p)
  BY <1>6 DEF Hole, Waits
<1>8. CoveredInv'
  BY <1>6, <1>7 DEF FlowInv, CoveredInv
<1>9. PageInv'
  <2>1. ASSUME NEW page, NEW c \in Conn, Arrives(page, c) PROVE Arrives(page, c)'
    <3>1. End(page)' = End(page) /\ (Brings(page, c) => Brings(page, c)')
      BY <1>6 DEF End, Brings
    <3>2. (Holds(c) => Holds(c)') /\ (Hole(End(page)) => Hole(End(page))')
          /\ (Waits(c, End(page)) => Waits(c, End(page))')
      BY <1>6, <1>7, <3>1 DEF Hole, Waits
    <3> QED BY <2>1, <3>1, <3>2 DEF Arrives
  <2> QED BY <2>1 DEF FlowInv, PageInv, Rewound
<1> QED BY <1>1, <1>2, <1>3, <1>4, <1>5, <1>8, <1>9 DEF FlowInv

--------------------------------------------------------------------------------
(* Steps of sing-box, and edits of the State *)

LEMMA OwnerIsNode == ASSUME NEW c \in Conn PROVE Owner[c] \in Node
BY FlowAssumption

LEMMA BatchGrows ==
  ASSUME FlowInv, IsSing(sing'), Grows(sing, sing'), batch' = batch
  PROVE  BatchInv'
<1>1. ASSUME NEW r \in batch.readings PROVE r.c \in Conn /\ r.bytes \in Nat /\ Real(sing', r.c, r)
  BY RealGrows DEF FlowInv, BatchInv
<1> QED BY <1>1 DEF BatchInv

LEMMA StoppedGrows == ASSUME IsSing(sing) PROVE IsSing(Stopped) /\ Grows(sing, Stopped)
<1>1. ASSUME NEW c \in Conn
      PROVE  /\ Stopped[c] \in [phase : {"none", "open", "closed", "gone"}, bytes : Nat]
             /\ Stopped[c].bytes = sing[c].bytes
             /\ sing[c].phase = "none" => Stopped[c] = sing[c]
             /\ sing[c].phase # "none" => Stopped[c].phase = "gone"
  BY DEF IsSing, Stopped
<1>2. Stopped = [c \in Conn |-> Stopped[c]]
  BY DEF Stopped
<1>3. IsSing(Stopped)
  BY <1>1, <1>2 DEF IsSing
<1>4. Grows(sing, Stopped)
  BY <1>1 DEF Grows, IsSing
<1> QED BY <1>3, <1>4

LEMMA SingStep ==
  ASSUME FlowInv, NEW c \in Conn, Connect(c) \/ Transfer(c) \/ CloseConnection(c)
  PROVE  FlowInv'
<1>1. IsSing(sing') /\ Grows(sing, sing')
  BY DEF FlowInv, IsSing, Grows, Connect, Transfer, CloseConnection
<1>2. /\ UNCHANGED <<known, row, credit, queue, last, made, epoch, cursor, proc>>
      /\ UNCHANGED <<acct, here, batch>>
  BY DEF Connect, Transfer, CloseConnection, stateVars, slaveVars, masterVars
<1>3. BatchInv' /\ IdInv'
  BY <1>1, <1>2, BatchGrows DEF FlowInv, IdInv
<1> QED BY <1>1, <1>2, <1>3, QuietStep DEF Shown

LEMMA RestartStep == ASSUME FlowInv, Restart PROVE FlowInv'
<1>1. IsSing(sing') /\ Grows(sing, sing')
  BY StoppedGrows DEF FlowInv, Restart
<1>2. /\ UNCHANGED <<known, row, credit, queue, last, made, epoch, cursor, proc>>
      /\ UNCHANGED <<acct, here, batch>>
  BY DEF Restart, stateVars, slaveVars, masterVars
<1>3. BatchInv' /\ IdInv'
  BY <1>1, <1>2, BatchGrows DEF FlowInv, IdInv
<1> QED BY <1>1, <1>2, <1>3, QuietStep DEF Shown

\* A batch holds what sing-box counts.
LEMMA ReceiveStep == ASSUME FlowInv, NEW b \in BOOLEAN, Receive(b) PROVE FlowInv'
<1>1. PICK told \in SUBSET {c \in Conn : sing[c].phase \in {"open", "closed"}} :
        batch' = [reset |-> b, readings |-> {Tells(c) : c \in told}]
  BY DEF Receive
<1>2. /\ UNCHANGED <<known, row, credit, queue, last, made, epoch, cursor, proc>>
      /\ UNCHANGED <<acct, here, sing>>
  BY DEF Receive, stateVars, slaveVars, masterVars
<1>3. ASSUME NEW c \in Conn
      PROVE  Tells(c).c = c /\ Tells(c).bytes \in Nat /\ Real(sing, c, Tells(c))
  <2>1. /\ Tells(c).c = c /\ Tells(c).bytes = sing[c].bytes
        /\ Tells(c).closed <=> sing[c].phase = "closed"
    BY DEF Tells
  <2>2. sing[c].bytes \in Nat
    BY DEF FlowInv, IsSing
  <2> QED BY <2>1, <2>2 DEF Real
<1>4. BatchInv'
  BY <1>1, <1>2, <1>3 DEF BatchInv
<1>5. IsSing(sing') /\ Grows(sing, sing') /\ IdInv'
  BY <1>2 DEF FlowInv, IsSing, Grows, IdInv
<1> QED BY <1>2, <1>4, <1>5, QuietStep DEF Shown

LEMMA IngestFailsStep == ASSUME FlowInv, IngestFails PROVE FlowInv'
<1>1. /\ UNCHANGED <<known, row, credit, queue, last, made, epoch, cursor, proc>>
      /\ UNCHANGED <<acct, here, sing>> /\ batch' = NoBatch
  BY DEF IngestFails, stateVars, slaveVars, masterVars
<1>2. BatchInv' /\ IdInv' /\ IsSing(sing') /\ Grows(sing, sing')
  BY <1>1 DEF FlowInv, BatchInv, NoBatch, IdInv, IsSing, Grows
<1> QED BY <1>1, <1>2, QuietStep DEF Shown

\* A new identity is that of no row.
LEMMA EditStep ==
  ASSUME FlowInv, NEW n \in Node, Rotate(n) \/ Recreate(n)
  PROVE  FlowInv'
<1> DEFINE m == acct["master"][n]
<1>1. PICK a \in Account : /\ acct' = [acct EXCEPT !["master"][n] = a]
                           /\ a.id = m.id + 1 /\ (a.dev = m.dev \/ a.dev = m.dev + 1)
  <2>1. m \in Account
    BY DEF FlowInv, IdInv, Host
  <2>2. CASE Rotate(n)
    <3>1. /\ [m EXCEPT !.id = @ + 1] \in Account
          /\ [m EXCEPT !.id = @ + 1].id = m.id + 1 /\ [m EXCEPT !.id = @ + 1].dev = m.dev
      BY <2>1 DEF Account
    <3> QED BY <2>2, <3>1 DEF Rotate, EditAccount
  <2>3. CASE Recreate(n)
    <3> DEFINE a == [id |-> m.id + 1, dev |-> m.dev + 1]
    <3>1. a \in Account /\ a.id = m.id + 1 /\ a.dev = m.dev + 1
      BY <2>1 DEF Account
    <3>2. acct' = [acct EXCEPT !["master"][n] = a]
      BY <2>3 DEF Recreate, EditAccount
    <3> QED BY <3>1, <3>2
  <2> QED BY <2>2, <2>3
<1>2. /\ UNCHANGED <<known, row, credit, queue, last, made, epoch, cursor, proc>>
      /\ UNCHANGED <<sing, batch, here>>
  BY DEF Rotate, Recreate, EditAccount, slaveVars, masterVars, singVars
<1>3. /\ acct' \in [Host -> [Node -> Account]] /\ acct'["slave"] = acct["slave"]
      /\ acct'["master"] = [acct["master"] EXCEPT ![n] = a]
  BY <1>1 DEF FlowInv, IdInv, Host
<1>4. m \in Account
  BY DEF FlowInv, IdInv, Host
<1>5. IdInv'
  <2> HIDE DEF m
  <2>1. ASSUME NEW o \in Node
        PROVE  LET x == acct'["master"][o] y == acct["master"][o] IN
               IF o = n THEN x = a /\ y = m ELSE x = y
    BY <1>3 DEF FlowInv, IdInv, Host, m
  <2> QED BY <1>1, <1>2, <1>3, <1>4, <2>1 DEF FlowInv, IdInv, Account, Host
<1>6. ASSUME NEW c \in Conn, Shown(c)' PROVE Shown(c)
  <2>1. row["slave"][c].of = known["slave"][Owner[c]].id
    BY <1>2, <1>6 DEF FlowInv, RowInv, IsEntry, Held, Shown, Host
  <2>2. /\ known["slave"][Owner[c]].id <= acct["master"][Owner[c]].id
        /\ known["slave"][Owner[c]].id \in Nat /\ m.id \in Nat
    BY <1>4, OwnerIsNode DEF FlowInv, IdInv, Account, Host
  <2>3. Owner[c] # n
    BY <1>1, <1>2, <1>3, <1>6, <2>1, <2>2 DEF Shown, FlowInv, IdInv, Host
  <2> QED BY <1>2, <1>3, <1>6, <2>3, OwnerIsNode DEF Shown, FlowInv, IdInv, Host
<1>7. BatchInv' /\ IsSing(sing') /\ Grows(sing, sing')
  BY <1>2 DEF FlowInv, BatchInv, IsSing, Grows
<1> QED BY <1>2, <1>5, <1>6, <1>7, QuietStep

LEMMA MoveAwayStep == ASSUME FlowInv, NEW n \in Node, MoveAway(n) PROVE FlowInv'
<1>1. /\ UNCHANGED <<known, row, credit, queue, last, made, epoch, cursor, proc>>
      /\ UNCHANGED <<sing, batch, acct>> /\ here' = here \ {n}
  BY DEF MoveAway, slaveVars, masterVars, singVars
<1>2. IdInv'
  BY <1>1 DEF FlowInv, IdInv
<1>3. BatchInv' /\ IsSing(sing') /\ Grows(sing, sing')
  BY <1>1 DEF FlowInv, BatchInv, IsSing, Grows
<1> QED BY <1>1, <1>2, <1>3, QuietStep DEF Shown

LEMMA GrantStep == ASSUME FlowInv, NEW b \in Applied, Grant(b) PROVE FlowInv'
<1>1. /\ UNCHANGED <<known, row, credit, queue, last, made, epoch, cursor, proc>>
      /\ UNCHANGED <<batch, here>> /\ (sing' = sing \/ sing' = Stopped)
      /\ acct' = [acct EXCEPT !["slave"] = [n \in Node |-> GrantedAccount(n)]]
  BY DEF Grant, slaveVars, masterVars
<1>2. IsSing(sing') /\ Grows(sing, sing')
  <2>1. IsSing(sing) /\ Grows(sing, sing)
    BY DEF FlowInv, IsSing, Grows
  <2> QED BY <1>1, <2>1, StoppedGrows
<1>3. acct'["master"] = acct["master"] /\ acct'["slave"] = [n \in Node |-> GrantedAccount(n)]
  BY <1>1 DEF FlowInv, IdInv, Host
<1>4. ASSUME NEW n \in Node
      PROVE  LET a == acct["slave"][n] g == GrantedAccount(n) k == known["slave"][n] m == acct["master"][n] IN
             /\ g \in Account /\ g.id <= m.id /\ g.dev >= 1
             /\ g.id # 0 => g.dev = 1 /\ k.id # 0 /\ k.id <= g.id
             /\ g.id = 0 => n \notin here
  <2> DEFINE a == acct["slave"][n] m == acct["master"][n] k == known["slave"][n]
  <2>1. a \in Account /\ m \in Account /\ k \in Account /\ known["master"][n] \in Account
    BY DEF FlowInv, IdInv, Host
  <2>2. /\ m.id >= 1 /\ a.id <= m.id /\ k.id <= m.id
        /\ a.dev >= 1 /\ (a.id # 0 => a.dev = 1)
        /\ a.id = 0 => n \notin here
        /\ a.id # 0 => k.id # 0 /\ k.id <= a.id
    BY <2>1 DEF FlowInv, IdInv, Account
  <2> HIDE DEF a, m, k
  <2>3. CASE n \in here
    <3>1. GrantedAccount(n) = [a EXCEPT !.id = m.id]
      BY <2>3 DEF GrantedAccount, a, m
    <3>2. /\ GrantedAccount(n) \in Account
          /\ GrantedAccount(n).id = m.id /\ GrantedAccount(n).dev = a.dev
      BY <2>1, <3>1 DEF Account
    <3> QED BY <2>1, <2>2, <2>3, <3>2 DEF Account, a, m, k
  <2>4. CASE n \notin here
    <3>1. GrantedAccount(n) = [id |-> 0, dev |-> a.dev + IF a.id = 0 THEN 0 ELSE 1]
      BY <2>4 DEF GrantedAccount, a
    <3> QED BY <2>1, <2>2, <2>4, <3>1 DEF Account, a, m, k
  <2> QED BY <2>3, <2>4
<1>5. IdInv'
  <2>1. acct' \in [Host -> [Node -> Account]]
    BY <1>1, <1>4 DEF FlowInv, IdInv, Host
  <2> QED BY <1>1, <1>3, <1>4, <2>1 DEF FlowInv, IdInv
<1>6. BatchInv'
  BY <1>1, <1>2, BatchGrows
<1> QED BY <1>1, <1>2, <1>3, <1>5, <1>6, QuietStep DEF Shown

--------------------------------------------------------------------------------
(* A database that is opened, or lost *)

\* syncAnalyticsIdentities keeps the identities in order.
LEMMA IdsSynced ==
  ASSUME IdInv, NEW h \in Host, known' = [known EXCEPT ![h] = acct[h]],
         UNCHANGED <<acct, here>>
  PROVE  IdInv'
<1>1. known' \in [Host -> [Node -> Account]]
  BY DEF IdInv
<1>2. ASSUME NEW n \in Node
      PROVE  LET a == acct["master"][n] k == known'["master"][n] IN
             /\ k.id >= k.dev /\ k.dev >= 1
             /\ k.id <= a.id /\ k.dev <= a.dev /\ k.id - k.dev <= a.id - a.dev
  <2>1. acct["master"][n] \in Account /\ known["master"][n] \in Account
    BY DEF IdInv, Host
  <2>2. known'["master"][n] = acct["master"][n] \/ known'["master"][n] = known["master"][n]
    BY DEF IdInv, Host
  <2>3. CASE known'["master"][n] = known["master"][n]
    BY <2>3 DEF IdInv
  <2>4. CASE known'["master"][n] = acct["master"][n]
    <3>1. acct["master"][n].dev >= 1
      BY <2>1 DEF IdInv, Account
    <3> QED BY <2>1, <2>4, <3>1 DEF IdInv, Account
  <2> QED BY <2>2, <2>3, <2>4
<1>3. ASSUME NEW n \in Node
      PROVE  LET a == acct["slave"][n] k == known'["slave"][n] m == acct["master"][n] IN
             /\ k.id <= m.id /\ k.dev >= 1 /\ (k.id # 0 => k.dev = 1)
             /\ a.id # 0 => k.id # 0 /\ k.id <= a.id
  <2>1. acct["slave"][n] \in Account /\ known["slave"][n] \in Account
    BY DEF IdInv, Host
  <2>2. known'["slave"][n] = acct["slave"][n] \/ known'["slave"][n] = known["slave"][n]
    BY DEF IdInv, Host
  <2>3. CASE known'["slave"][n] = known["slave"][n]
    BY <2>3 DEF IdInv
  <2>4. CASE known'["slave"][n] = acct["slave"][n]
    BY <2>1, <2>4 DEF IdInv, Account
  <2> QED BY <2>2, <2>3, <2>4
<1> QED BY <1>1, <1>2, <1>3 DEF IdInv

\* What is kept of a row is of the present identity, and of a node whose UUID
\* was not rotated the day is kept only with the row.
LEMMA SyncedIsEntry ==
  ASSUME FlowInv, NEW h \in Host, NEW c \in Conn
  PROVE  LET a == acct[h][Owner[c]] x == Entry(h, c) IN
         /\ a.id \in Nat /\ IsEntry(sing, c, a.id, x)
         /\ a.id = a.dev => x.credit <= x.row.bytes
         /\ x.row.there => x.row = row[h][c] /\ SameNode(h, c)
<1> DEFINE a == acct[h][Owner[c]] k == known[h][Owner[c]]
<1>1. a \in Account /\ k \in Account
  BY OwnerIsNode DEF FlowInv, IdInv
<1>2. IsEntry(sing, c, k.id, Held(h, c))
  BY DEF FlowInv, RowInv
<1>3. /\ IsRow(row[h][c]) /\ Real(sing, c, row[h][c]) /\ credit[h][c] \in Int
      /\ row[h][c].there => row[h][c].of = k.id
  BY <1>2 DEF IsEntry, Held
<1>4. sing[c].bytes \in Nat
  BY DEF FlowInv, IsSing
<1>5. IsRow(NoRow) /\ Real(sing, c, NoRow) /\ ~NoRow.there /\ NoRow.bytes = 0
  BY <1>4 DEF IsRow, Real, NoRow
<1>6. a.id = a.dev /\ SameDevice(h, c) => SameNode(h, c)
  <2>1. CASE h = "master"
    BY <1>1, <2>1, OwnerIsNode DEF FlowInv, IdInv, Account, SameDevice, SameNode
  <2>2. CASE h = "slave"
    <3>1. /\ a.dev >= 1 /\ (a.id # 0 => a.dev = 1)
          /\ a.id # 0 => k.id # 0 /\ k.id <= a.id
      BY <2>2, OwnerIsNode DEF FlowInv, IdInv
    <3>2. a.id \in Nat /\ a.dev \in Nat /\ k.id \in Nat
      BY <1>1 DEF Account
    <3> QED BY <3>1, <3>2 DEF SameNode
  <2> QED BY <2>1, <2>2 DEF Host
<1>7. k.id = k.dev => credit[h][c] <= row[h][c].bytes
  BY DEF FlowInv, CountedInv, Unrotated
<1> DEFINE r == SyncedRow(h, c) d == SyncedCredit(h, c)
<1>8. /\ IsRow(r) /\ Real(sing, c, r) /\ d \in Int
      /\ r.there => r = row[h][c] /\ SameNode(h, c) /\ r.of = a.id
  BY <1>3, <1>5 DEF SyncedRow, SyncedCredit, SameNode
<1>9. a.id = a.dev => d <= r.bytes
  <2> SUFFICES ASSUME a.id = a.dev PROVE d <= r.bytes
    OBVIOUS
  <2>1. CASE SameDevice(h, c)
    <3>1. r = row[h][c] /\ d = credit[h][c] /\ k.id = k.dev
      BY <1>6, <2>1 DEF SyncedRow, SyncedCredit, SameNode, SameDevice
    <3> QED BY <1>7, <3>1
  <2>2. CASE ~SameDevice(h, c)
    BY <1>8, <2>2 DEF SyncedCredit, IsRow
  <2> QED BY <2>1, <2>2
<1> HIDE DEF r, d
<1>10. Entry(h, c).row = r /\ Entry(h, c).credit = d /\ DOMAIN Entry(h, c) = {"row", "credit"}
  BY DEF Entry, r, d
<1> QED BY <1>1, <1>8, <1>9, <1>10 DEF IsEntry, Account

LEMMA ProcStep ==
  ASSUME FlowInv, proc'.at # "merge", proc'.at = "again" => proc'.epoch \in Nat,
         UNCHANGED <<sing, batch, acct, here, known, row, credit, queue, last, made, epoch, cursor>>
  PROVE  FlowInv'
<1>1. /\ IsSing(sing') /\ BatchInv' /\ IdInv' /\ CountedInv'
      /\ QueueInv' /\ CursorInv' /\ ProcInv' /\ PageInv'
  BY DEF FlowInv, IsSing, BatchInv, IdInv, CountedInv, Unrotated, QueueInv, CursorInv, ProcInv, PageInv
<1>2. RowInv'
  BY DEF FlowInv, RowInv, Held
<1>3. CoveredInv'
  BY DEF FlowInv, CoveredInv, Shown, Holds, Waits, Hole, Carries
<1> QED BY <1>1, <1>2, <1>3 DEF FlowInv

LEMMA GiveUpStep == ASSUME FlowInv, GiveUp \/ AskAgain \/ MergeRefused PROVE FlowInv'
<1>1. UNCHANGED <<sing, batch, acct, here, known, row, credit, queue, last, made, epoch, cursor>>
  BY DEF GiveUp, AskAgain, MergeRefused, singVars, stateVars, slaveVars
<1>2. CASE proc' = Idle
  BY <1>1, <1>2, ProcStep DEF Idle
<1>3. CASE AskAgain
  <2>1. proc'.at = "again" /\ proc'.epoch = proc.page.epoch
    BY <1>3 DEF AskAgain
  <2>2. proc.page.epoch \in Nat
    BY <1>3 DEF AskAgain, FlowInv, ProcInv, IsPage
  <2> QED BY <1>1, <2>1, <2>2, ProcStep
<1> QED BY <1>2, <1>3 DEF GiveUp, MergeRefused

LEMMA LoseDatabaseStep == ASSUME FlowInv, NEW b \in BOOLEAN, LoseDatabase(b) PROVE FlowInv'
<1>1. /\ queue' = {} /\ last' = 0 /\ made' = made + 1 /\ epoch' = 0
      /\ row' = [row EXCEPT !["slave"] = [c \in Conn |-> NoRow]]
      /\ credit' = [credit EXCEPT !["slave"] = [c \in Conn |-> 0]]
      /\ known' = [known EXCEPT !["slave"] = acct["slave"]]
      /\ UNCHANGED <<acct, here, cursor, proc>>
  BY DEF LoseDatabase, stateVars, masterVars
<1>2. \/ sing' = Stopped /\ batch' = NoBatch
      \/ sing' = sing /\ batch' = batch
  BY DEF LoseDatabase, singVars
<1>3. IsSing(sing') /\ Grows(sing, sing')
  <2>1. IsSing(sing) /\ Grows(sing, sing)
    BY DEF FlowInv, IsSing, Grows
  <2> QED BY <1>2, <2>1, StoppedGrows
<1>4. BatchInv'
  <2>1. CASE batch' = NoBatch
    BY <2>1 DEF BatchInv, NoBatch
  <2>2. CASE batch' = batch
    BY <1>3, <2>2, BatchGrows
  <2> QED BY <1>2, <2>1, <2>2
<1>5. IdInv'
  BY <1>1, IdsSynced DEF FlowInv, Host
<1>6. ASSUME NEW c \in Conn
      PROVE  /\ row'["slave"][c] = NoRow /\ credit'["slave"][c] = 0
             /\ row'["master"][c] = row["master"][c] /\ credit'["master"][c] = credit["master"][c]
  BY <1>1 DEF FlowInv, RowInv, Host
<1>7. known'["master"] = known["master"] /\ "master" \in Host /\ "slave" \in Host
  BY <1>1 DEF FlowInv, IdInv, Host
<1>8. RowInv'
  <2>1. ASSUME NEW c \in Conn
        PROVE  IsEntry(sing', c, known'["slave"][Owner[c]].id, Held("slave", c)')
    <3>1. sing'[c].bytes \in Nat
      BY <1>3 DEF IsSing
    <3>2. IsEntry(sing', c, known'["slave"][Owner[c]].id, [row |-> NoRow, credit |-> 0])
      BY <3>1 DEF IsEntry, IsRow, Real, NoRow
    <3> QED BY <1>6, <3>2 DEF Held
  <2>2. ASSUME NEW c \in Conn
        PROVE  IsEntry(sing', c, known'["master"][Owner[c]].id, Held("master", c)')
    <3> DEFINE x == Held("master", c)
    <3>1. Held("master", c)' = x
      BY <1>6 DEF Held
    <3>2. IsEntry(sing, c, known["master"][Owner[c]].id, x)
      BY <1>7 DEF FlowInv, RowInv
    <3> HIDE DEF x
    <3>3. Real(sing', c, x.row)
      BY <1>3, <3>2, RealGrows DEF FlowInv, IsEntry, IsRow
    <3> QED BY <1>7, <3>1, <3>2, <3>3 DEF IsEntry
  <2>3. /\ DOMAIN row' = Host /\ \A h \in Host : DOMAIN row'[h] = Conn
        /\ DOMAIN credit' = Host /\ \A h \in Host : DOMAIN credit'[h] = Conn
    BY <1>1 DEF FlowInv, RowInv
  <2> QED BY <2>1, <2>2, <2>3 DEF RowInv, Host
<1>9. CountedInv'
  BY <1>6, <1>7 DEF FlowInv, CountedInv, Unrotated, NoRow, Host
<1>10. QueueInv'
  BY <1>1, FS_EmptySet DEF QueueInv
<1>11. \A c \in Conn : ~row'["slave"][c].there
  BY <1>6 DEF NoRow
<1>12. CursorInv'
  BY <1>1, <1>11 DEF FlowInv, CursorInv
<1>13. ProcInv'
  <2>1. ASSUME proc.at = "merge", NEW e \in proc.page.events PROVE Real(sing', e.c, e)
    BY <1>3, <2>1, RealGrows DEF FlowInv, ProcInv, IsPage, IsEvent
  <2> QED BY <1>1, <2>1 DEF FlowInv, ProcInv, IsPage, CursorInv
<1>14. CoveredInv' /\ PageInv'
  BY <1>11 DEF CoveredInv, PageInv, Shown
<1> QED BY <1>3, <1>4, <1>5, <1>8, <1>9, <1>10, <1>12, <1>13, <1>14 DEF FlowInv

--------------------------------------------------------------------------------
(* A page is read *)

LEMMA SyncedEvents ==
  ASSUME QueueInv
  PROVE  /\ SyncedQueue \subseteq queue /\ IsFiniteSet(SyncedQueue)
         /\ {e.seq : e \in SyncedQueue} \subseteq Nat
         /\ \A e \in SyncedQueue : e.seq \in Nat /\ e.seq <= last
<1>1. SyncedQueue \subseteq queue
  BY DEF SyncedQueue
<1>2. IsFiniteSet(SyncedQueue)
  BY <1>1, FS_Subset DEF QueueInv
<1>3. \A e \in SyncedQueue : e.seq \in Nat /\ e.seq <= last
  BY <1>1 DEF QueueInv, IsEvent
<1> QED BY <1>1, <1>2, <1>3

\* The head is the number of the last event, if there is one.
LEMMA HeadOf ==
  ASSUME QueueInv
  PROVE  LET head == MaxOf({e.seq : e \in SyncedQueue}) IN
         /\ head \in Nat /\ head <= last
         /\ \A e \in SyncedQueue : e.seq <= head
         /\ SyncedQueue = {} => head = 0
<1> DEFINE T == {e.seq : e \in SyncedQueue}
<1>1. T \subseteq Nat /\ (\A y \in T : y <= last) /\ last \in Nat
  BY SyncedEvents DEF QueueInv
<1>2. CASE T = {}
  BY <1>1, <1>2 DEF MaxOf
<1>3. CASE T # {}
  <2>1. MaxOf(T) \in T /\ \A y \in T : y <= MaxOf(T)
    <3> HIDE DEF T
    <3> QED BY <1>1, <1>3, MaxIsGreatest
  <2> QED BY <1>1, <1>3, <2>1
<1> QED BY <1>2, <1>3

\* A page goes on from where it is asked to, to its last event, and leaves out
\* no event on the way; before a hole it ends, or it tells of a gap.
LEMMA PageOf ==
  ASSUME QueueInv, NEW after \in Nat
  PROVE  LET page == Page(after) IN
         /\ IsFiniteSet(page.events) /\ page.events \subseteq SyncedQueue
         /\ page.head \in Nat /\ page.next \in Nat /\ page.next <= last
         /\ \A e \in page.events : e.seq <= page.head
         /\ after <= page.head =>
              /\ \A e \in SyncedQueue : e.seq > after => e \in page.events \/ e.seq > page.next
              /\ \A k \in Nat : after <= k /\ (\A e \in SyncedQueue : e.seq > k + 1)
                   => page.next = after \/ (page.gap /\ page.next > k)
<1> DEFINE events == SyncedQueue
           head == MaxOf({e.seq : e \in events})
           from == IF after > head THEN 0 ELSE after
           rest == {e \in events : e.seq > from}
           taken == {e \in rest : Cardinality({f \in rest : f.seq <= e.seq}) <= PageLimit}
           next == IF taken = {} THEN from ELSE MaxOf({e.seq : e \in taken})
<1>1. /\ Page(after).events = taken /\ Page(after).head = head
      /\ Page(after).gap = Gap(after, events) /\ Page(after).next = next
  BY DEF Page
<1>2. /\ head \in Nat /\ head <= last /\ \A e \in events : e.seq <= head
      /\ events = {} => head = 0
  BY HeadOf
<1>3. /\ events \subseteq queue /\ IsFiniteSet(events)
      /\ \A e \in events : e.seq \in Nat /\ e.seq <= last
  BY SyncedEvents
<1> HIDE DEF events
<1>4. from \in Nat /\ from <= head
  BY <1>2
<1>5. rest \subseteq events /\ taken \subseteq rest /\ IsFiniteSet(rest) /\ IsFiniteSet(taken)
  <2>1. rest \subseteq events /\ taken \subseteq rest
    OBVIOUS
  <2> HIDE DEF rest, taken
  <2> QED BY <1>3, <2>1, FS_Subset
<1>6. taken # {} => (\E t \in taken : next = t.seq) /\ \A t \in taken : t.seq <= next
  <2> SUFFICES ASSUME taken # {}
               PROVE  (\E t \in taken : next = t.seq) /\ \A t \in taken : t.seq <= next
    OBVIOUS
  <2> DEFINE T == {e.seq : e \in taken}
  <2> HIDE DEF taken, head
  <2>1. T \subseteq Nat /\ T # {} /\ \A y \in T : y <= head
    BY <1>2, <1>3, <1>5
  <2>2. MaxOf(T) \in T /\ \A y \in T : y <= MaxOf(T)
    <3> HIDE DEF T
    <3> QED BY <1>2, <2>1, MaxIsGreatest
  <2> QED BY <2>2
<1>7. next \in Nat /\ next <= last
  <2> HIDE DEF taken, head
  <2>1. CASE taken = {}
    <3> HIDE DEF from
    <3>1. last \in Nat
      BY DEF QueueInv
    <3> QED BY <1>2, <1>4, <2>1, <3>1
  <2>2. CASE taken # {}
    <3> HIDE DEF next
    <3> QED BY <1>3, <1>5, <1>6, <2>2
  <2> QED BY <2>1, <2>2
<1>8. ASSUME after <= head, NEW e \in events, e.seq > after, e \notin taken
      PROVE  e.seq > next
  <2>1. from = after /\ e \in rest
    BY <1>2, <1>8
  <2>2. ~(Cardinality({f \in rest : f.seq <= e.seq}) <= PageLimit)
    BY <1>8, <2>1
  <2>3. ASSUME NEW t \in taken PROVE t.seq < e.seq
    <3> SUFFICES ASSUME e.seq <= t.seq PROVE FALSE
      BY <1>3
    <3> DEFINE low(x) == {f \in rest : f.seq <= x.seq}
    <3>1. low(e) \subseteq low(t) /\ low(t) \subseteq rest
      BY <1>3
    <3>2. Cardinality(low(t)) <= PageLimit
      OBVIOUS
    <3>3. ~(Cardinality(low(e)) <= PageLimit)
      BY <2>2
    <3> HIDE DEF low, rest
    <3>4. IsFiniteSet(low(t))
      BY <1>5, <3>1, FS_Subset
    <3>5. /\ Cardinality(low(e)) \in Nat /\ Cardinality(low(t)) \in Nat
          /\ Cardinality(low(e)) <= Cardinality(low(t))
      BY <3>1, <3>4, Smaller
    <3>6. PageLimit \in Nat
      BY FlowAssumption
    <3> QED BY <3>2, <3>3, <3>5, <3>6
  <2> HIDE DEF taken
  <2> QED BY <1>6, <1>8, <2>1, <2>3
<1>9. ASSUME after <= head, NEW k \in Nat, after <= k, \A e \in events : e.seq > k + 1,
             next # after
      PROVE  Gap(after, events) /\ next > k
  <2>1. from = after
    BY <1>2, <1>9
  <2>2. taken # {}
    BY <1>9, <2>1
  <2>3. next > k
    <3> HIDE DEF next, taken, rest
    <3> QED BY <1>3, <1>5, <1>6, <1>7, <1>9, <2>2
  <2>4. events # {}
    <3> HIDE DEF taken, rest
    <3> QED BY <1>5, <2>2
  <2> DEFINE T == {e.seq : e \in events}
  <2>5. T \subseteq Nat /\ T # {}
    BY <1>3, <2>4
  <2>6. MinOf(T) \in T
    <3> HIDE DEF T
    <3> QED BY <2>5, MinIsLeast
  <2>7. MinOf(T) > after + 1
    BY <1>3, <1>9, <2>6
  <2> QED BY <2>3, <2>7 DEF Gap
<1>10. \A e \in taken : e.seq <= head
  <2> HIDE DEF head
  <2> QED BY <1>2, <1>5
<1> HIDE DEF taken, head, next
<1> QED BY <1>1, <1>2, <1>5, <1>7, <1>8, <1>9, <1>10 DEF events

LEMMA ExchangeStep ==
  ASSUME FlowInv, NEW after \in Nat, NEW seen, Exchange(after, seen),
         after = cursor.sequence \/ after = 0
  PROVE  FlowInv'
<1>0. PICK page : page = Page(after)
  OBVIOUS
<1>1. /\ epoch # 0 /\ proc' = [at |-> "merge", after |-> after, epoch |-> seen, page |-> page]
      /\ known' = [known EXCEPT !["slave"] = acct["slave"]] /\ queue' = SyncedQueue
      /\ row' = [row EXCEPT !["slave"] = [c \in Conn |-> SyncedRow("slave", c)]]
      /\ credit' = [credit EXCEPT !["slave"] = [c \in Conn |-> SyncedCredit("slave", c)]]
      /\ UNCHANGED <<sing, batch, acct, here, last, made, epoch, cursor>>
  BY <1>0 DEF Exchange, singVars, stateVars
<1>2. IsSing(sing') /\ BatchInv'
  BY <1>1 DEF FlowInv, IsSing, BatchInv
<1>3. "slave" \in Host /\ "master" \in Host
  BY DEF Host
<1>4. IdInv'
  BY <1>1, <1>3, IdsSynced DEF FlowInv
<1>5. ASSUME NEW c \in Conn
      PROVE  /\ row'["slave"][c] = Entry("slave", c).row
             /\ credit'["slave"][c] = Entry("slave", c).credit
             /\ row'["master"][c] = row["master"][c] /\ credit'["master"][c] = credit["master"][c]
  BY <1>1, <1>3 DEF FlowInv, RowInv, Entry
<1>6. known'["master"] = known["master"] /\ known'["slave"] = acct["slave"]
  BY <1>1, <1>3 DEF FlowInv, IdInv
<1>7. RowInv'
  <2>1. ASSUME NEW c \in Conn
        PROVE  /\ IsEntry(sing', c, known'["slave"][Owner[c]].id, Held("slave", c)')
               /\ IsEntry(sing', c, known'["master"][Owner[c]].id, Held("master", c)')
    <3>1. Held("slave", c)' = Entry("slave", c) /\ Held("master", c)' = Held("master", c)
      BY <1>5 DEF Held, Entry
    <3> QED BY <1>1, <1>3, <1>6, <3>1, SyncedIsEntry DEF FlowInv, RowInv
  <2>2. /\ DOMAIN row' = Host /\ \A h \in Host : DOMAIN row'[h] = Conn
        /\ DOMAIN credit' = Host /\ \A h \in Host : DOMAIN credit'[h] = Conn
    BY <1>1 DEF FlowInv, RowInv
  <2> QED BY <2>1, <2>2 DEF RowInv, Host
<1>8. CountedInv'
  <2>1. ASSUME NEW c \in Conn, Unrotated("slave", Owner[c])'
        PROVE  credit'["slave"][c] <= row'["slave"][c].bytes
    BY <1>3, <1>5, <1>6, <2>1, SyncedIsEntry DEF Unrotated
  <2>2. ASSUME NEW c \in Conn, Unrotated("master", Owner[c])'
        PROVE  credit'["master"][c] <= row'["master"][c].bytes
    BY <1>3, <1>5, <1>6, <2>2 DEF FlowInv, CountedInv, Unrotated
  <2> QED BY <2>1, <2>2 DEF CountedInv, Host
<1>9. QueueInv /\ \A e \in queue' : e \in queue
  BY <1>1, SyncedEvents DEF FlowInv
<1>10. QueueInv'
  <2>1. IsFiniteSet(queue')
    BY <1>1, <1>9, SyncedEvents
  <2> QED BY <1>1, <1>9, <2>1 DEF QueueInv
<1>11. CursorInv'
  BY <1>1 DEF FlowInv, CursorInv
<1>12. /\ IsFiniteSet(page.events) /\ page.events \subseteq SyncedQueue
       /\ page.head \in Nat /\ page.next \in Nat /\ page.next <= last
       /\ \A e \in page.events : e.seq <= page.head
       /\ after <= page.head =>
            /\ \A e \in SyncedQueue : e.seq > after => e \in page.events \/ e.seq > page.next
            /\ \A k \in Nat : after <= k /\ (\A e \in SyncedQueue : e.seq > k + 1)
                 => page.next = after \/ (page.gap /\ page.next > k)
  BY <1>0, <1>9, PageOf
<1>13. page.epoch = epoch
  BY <1>0 DEF Page
<1>14. proc'.at = "merge" /\ proc'.page = page
  BY <1>1
<1>15. IsPage(page)'
  <2>1. \A e \in page.events : IsEvent(e) /\ Real(sing', e.c, e)
    BY <1>1, <1>9, <1>12 DEF QueueInv
  <2> QED BY <1>1, <1>12, <1>13, <2>1 DEF IsPage, FlowInv, CursorInv
<1>16. ProcInv'
  BY <1>14, <1>15 DEF ProcInv
<1>17. ASSUME NEW c \in Conn, Shown(c)'
       PROVE  /\ Shown(c) /\ row'["slave"][c] = row["slave"][c]
              /\ Holds(c) => Holds(c)'
              /\ \A e : Carries(e, c) => Carries(e, c)'
              /\ \A e \in queue : Carries(e, c) => e \in SyncedQueue
  <2>1. row'["slave"][c] = row["slave"][c] /\ SameNode("slave", c)
    BY <1>3, <1>5, <1>17, SyncedIsEntry DEF Shown
  <2>2. row["slave"][c].of = acct["slave"][Owner[c]].id
    BY <1>3, <1>17, <2>1 DEF FlowInv, RowInv, IsEntry, Held, SameNode, Shown
  <2>3. Shown(c)
    BY <1>1, <1>17, <2>1 DEF Shown
  <2>4. (Holds(c) => Holds(c)') /\ \A e : Carries(e, c) => Carries(e, c)'
    BY <1>5, <1>6, <2>1 DEF Holds, Carries
  <2>5. \A e \in queue : Carries(e, c) => e \in SyncedQueue
    BY <2>2 DEF Carries, SyncedQueue
  <2> QED BY <2>1, <2>3, <2>4, <2>5
<1>18. \A p : Hole(p) => Hole(p)'
  BY <1>1, <1>9 DEF Hole
<1>19. CoveredInv'
  <2> SUFFICES ASSUME ~cursor.gaps, cursor.epoch \in {0, epoch}, NEW c \in Conn, Shown(c)'
               PROVE  Holds(c)' \/ Waits(c, cursor.sequence)' \/ Hole(cursor.sequence)'
    BY <1>1 DEF CoveredInv
  <2>1. Holds(c) \/ Waits(c, cursor.sequence) \/ Hole(cursor.sequence)
    BY <1>17 DEF FlowInv, CoveredInv
  <2>2. Waits(c, cursor.sequence) => Waits(c, cursor.sequence)'
    BY <1>1, <1>17 DEF Waits
  <2> QED BY <1>1, <1>17, <1>18, <2>1, <2>2 DEF Waits, Hole
<1>20. PageInv'
  <2> SUFFICES ASSUME ~cursor.gaps, ~Rewound(cursor.sequence, cursor.epoch, page),
                      NEW c \in Conn, Shown(c)'
               PROVE  Arrives(page, c)'
    BY <1>1, <1>14 DEF PageInv
  <2>0. cursor.sequence \in Nat /\ cursor.epoch \in Nat
    BY DEF FlowInv, CursorInv
  <2>1. cursor.epoch \in {0, epoch} /\ cursor.sequence <= page.head
    BY <1>12, <1>13, <2>0 DEF Rewound
  <2>2. after <= page.head /\ after <= cursor.sequence
    BY <1>12, <2>0, <2>1
  <2>3. Holds(c) \/ Waits(c, cursor.sequence) \/ Hole(cursor.sequence)
    BY <1>17, <2>1 DEF FlowInv, CoveredInv
  <2>4. CASE Holds(c)
    BY <1>17, <2>4 DEF Arrives
  <2>5. CASE Waits(c, cursor.sequence)
    <3>1. PICK e \in queue : e.seq > cursor.sequence /\ Carries(e, c)
      BY <2>5 DEF Waits
    <3>2. e \in SyncedQueue /\ Carries(e, c)' /\ e.seq \in Nat
      BY <1>9, <1>17, <3>1 DEF QueueInv, IsEvent
    <3>3. e \in page.events \/ e.seq > page.next
      BY <1>12, <2>0, <2>2, <3>1, <3>2
    <3>4. CASE e \in page.events
      BY <1>1, <3>1, <3>2, <3>4 DEF Arrives, Brings
    <3>5. CASE e.seq > page.next
      <4>1. e.seq > End(page)'
        BY <1>1, <3>1, <3>5 DEF End
      <4>2. Waits(c, End(page))'
        BY <1>1, <3>2, <4>1 DEF Waits
      <4> QED BY <4>2 DEF Arrives
    <3> QED BY <3>3, <3>4, <3>5
  <2>6. CASE Hole(cursor.sequence)
    <3>1. \A e \in SyncedQueue : e.seq > cursor.sequence + 1
      BY <1>1, <1>9, <2>6 DEF Hole
    <3>2. page.next = after \/ (page.gap /\ page.next > cursor.sequence)
      BY <1>12, <2>0, <2>2, <3>1
    <3>3. CASE page.next = after
      <4>1. End(page)' = cursor.sequence
        BY <1>1, <2>0, <2>2, <3>3 DEF End
      <4>2. Hole(End(page))'
        BY <1>1, <1>9, <2>6, <4>1 DEF Hole
      <4> QED BY <4>2 DEF Arrives
    <3>4. CASE page.gap /\ page.next > cursor.sequence
      BY <1>1, <3>4 DEF Arrives
    <3> QED BY <3>2, <3>3, <3>4
  <2> QED BY <2>3, <2>4, <2>5, <2>6
<1> QED BY <1>2, <1>4, <1>7, <1>8, <1>10, <1>11, <1>16, <1>19, <1>20 DEF FlowInv

--------------------------------------------------------------------------------
(* A page is merged *)

LEMMA MergeStep == ASSUME FlowInv, Merge PROVE FlowInv'
<1>0. PICK page : page = proc.page
  OBVIOUS
<1> DEFINE rewound == Rewound(cursor.sequence, cursor.epoch, page)
           mine(c) == {e \in Fresh(page) : e.c = c}
           after(c) == Merged(Entry("master", c), mine(c))
<1>1. /\ proc.at = "merge" /\ proc' = Idle
      /\ known' = [known EXCEPT !["master"] = acct["master"]]
      /\ row' = [row EXCEPT !["master"] = [c \in Conn |-> after(c).row]]
      /\ credit' = [credit EXCEPT !["master"] = [c \in Conn |-> after(c).credit]]
      /\ cursor' = [sequence |-> MaxOf({From(page), page.next}), epoch |-> page.epoch,
                    gaps |-> cursor.gaps \/ rewound \/ (page.gap /\ page.next > From(page))]
      /\ UNCHANGED <<sing, batch, acct, here, queue, last, made, epoch>>
  BY <1>0 DEF Merge, singVars, stateVars, slaveVars
<1>2. "slave" \in Host /\ "master" \in Host
  BY DEF Host
<1>3. /\ IsFiniteSet(page.events) /\ page.head \in Nat /\ page.next \in Nat /\ page.epoch \in Nat
      /\ \A e \in page.events : IsEvent(e) /\ e.seq <= page.head /\ Real(sing, e.c, e)
      /\ page.epoch # 0 /\ page.epoch <= made
      /\ epoch = 0 => page.epoch < made
      /\ page.epoch = epoch => page.next <= last
  BY <1>0, <1>1 DEF FlowInv, ProcInv, IsPage
<1>4. ASSUME NEW c \in Conn
      PROVE  /\ IsEntry(sing, c, acct["master"][Owner[c]].id, after(c))
             /\ Follows(after(c), Entry("master", c))
             /\ \A e \in mine(c) : ~e.lost => Reaches(after(c), e)
  <2> DEFINE x == Entry("master", c) id == acct["master"][Owner[c]].id S == mine(c)
  <2>1. id \in Nat /\ IsEntry(sing, c, id, x)
    BY <1>2, SyncedIsEntry
  <2>2. S \subseteq page.events
    BY DEF Fresh
  <2>3. \A e \in S : IsEvent(e) /\ Real(sing, c, e) /\ e.of = id /\ e.seq <= page.head
    BY <1>3 DEF Fresh
  <2>4. IsSing(sing)
    BY DEF FlowInv
  <2> HIDE DEF x, id, S
  <2>5. IsFiniteSet(S)
    BY <1>3, <2>2, FS_Subset
  <2>6. /\ IsEntry(sing, c, id, Merged(x, S)) /\ Follows(Merged(x, S), x)
        /\ \A e \in S : ~e.lost => Reaches(Merged(x, S), e)
    BY <1>3, <2>1, <2>3, <2>4, <2>5, MergedFollows
  <2> QED BY <2>6 DEF x, id, S
<1> HIDE DEF after
<1>5. ASSUME NEW c \in Conn
      PROVE  /\ row'["slave"][c] = row["slave"][c] /\ credit'["slave"][c] = credit["slave"][c]
             /\ row'["master"][c] = after(c).row /\ credit'["master"][c] = after(c).credit
  BY <1>1, <1>2 DEF FlowInv, RowInv
<1>6. known'["slave"] = known["slave"] /\ known'["master"] = acct["master"]
  BY <1>1, <1>2 DEF FlowInv, IdInv
<1>7. IsSing(sing') /\ BatchInv' /\ QueueInv'
  BY <1>1 DEF FlowInv, IsSing, BatchInv, QueueInv
<1>8. IdInv'
  BY <1>1, <1>2, IdsSynced DEF FlowInv
<1>9. RowInv'
  <2>1. ASSUME NEW c \in Conn
        PROVE  /\ IsEntry(sing', c, known'["slave"][Owner[c]].id, Held("slave", c)')
               /\ IsEntry(sing', c, known'["master"][Owner[c]].id, Held("master", c)')
    <3>1. Held("slave", c)' = Held("slave", c)
      BY <1>5 DEF Held
    <3>2. IsEntry(sing, c, known["slave"][Owner[c]].id, Held("slave", c))
      BY <1>2 DEF FlowInv, RowInv
    <3> DEFINE y == [row |-> after(c).row, credit |-> after(c).credit]
    <3>3. Held("master", c)' = y
      BY <1>5 DEF Held
    <3>4. IsEntry(sing, c, acct["master"][Owner[c]].id, y)
      BY <1>4 DEF IsEntry
    <3> QED BY <1>1, <1>6, <3>1, <3>2, <3>3, <3>4
  <2>2. /\ DOMAIN row' = Host /\ \A h \in Host : DOMAIN row'[h] = Conn
        /\ DOMAIN credit' = Host /\ \A h \in Host : DOMAIN credit'[h] = Conn
    BY <1>1 DEF FlowInv, RowInv
  <2> QED BY <2>1, <2>2 DEF RowInv, Host
<1>10. CountedInv'
  <2>1. ASSUME NEW c \in Conn, Unrotated("slave", Owner[c])'
        PROVE  credit'["slave"][c] <= row'["slave"][c].bytes
    BY <1>2, <1>5, <1>6, <2>1 DEF FlowInv, CountedInv, Unrotated
  <2>2. ASSUME NEW c \in Conn, Unrotated("master", Owner[c])'
        PROVE  credit'["master"][c] <= row'["master"][c].bytes
    <3>1. Entry("master", c).credit <= Entry("master", c).row.bytes
      BY <1>2, <1>6, <2>2, SyncedIsEntry DEF Unrotated
    <3> QED BY <1>4, <1>5, <3>1 DEF Follows
  <2> QED BY <2>1, <2>2 DEF CountedInv, Host
<1>11. cursor.sequence \in Nat /\ cursor.epoch \in Nat /\ last \in Nat
  BY DEF FlowInv, CursorInv, QueueInv
<1>12. /\ From(page) \in Nat /\ (~rewound => From(page) = cursor.sequence)
       /\ page.epoch = epoch => From(page) <= last
  <2>1. rewound => From(page) = 0
    BY DEF From
  <2>2. ~rewound => From(page) = cursor.sequence /\ (cursor.epoch = 0 \/ cursor.epoch = page.epoch)
    BY DEF From, Rewound
  <2> HIDE DEF rewound
  <2> QED BY <1>11, <2>1, <2>2 DEF FlowInv, CursorInv
<1>13. MaxOf({From(page), page.next}) = IF From(page) < page.next THEN page.next ELSE From(page)
  <2> DEFINE f == From(page) T == {f, page.next}
  <2>1. T \subseteq Nat /\ T # {} /\ (\A y \in T : y <= f + page.next) /\ f + page.next \in Nat
    BY <1>3, <1>12
  <2>2. f \in Nat /\ page.next \in Nat
    BY <1>3, <1>12
  <2> HIDE DEF f
  <2>3. MaxOf(T) \in T /\ \A y \in T : y <= MaxOf(T)
    <3> HIDE DEF T
    <3> QED BY <2>1, MaxIsGreatest
  <2>4. MaxOf(T) = IF f < page.next THEN page.next ELSE f
    BY <2>2, <2>3
  <2> QED BY <2>4 DEF f
<1> DEFINE reached == IF From(page) < page.next THEN page.next ELSE From(page)
<1>14. /\ cursor'.sequence = reached /\ cursor'.epoch = page.epoch
       /\ ~cursor'.gaps => ~cursor.gaps /\ ~rewound /\ ~(page.gap /\ page.next > From(page))
  BY <1>1, <1>13
<1> HIDE DEF rewound
<1>15. reached \in Nat /\ (page.epoch = epoch => reached <= last)
  BY <1>3, <1>11, <1>12
<1>16. CursorInv'
  <2> HIDE DEF reached
  <2>1. epoch = 0 => \A c \in Conn : ~row'["slave"][c].there
    BY <1>5 DEF FlowInv, CursorInv
  <2> QED BY <1>1, <1>3, <1>14, <1>15, <2>1 DEF FlowInv, CursorInv
<1>17. ProcInv' /\ PageInv'
  BY <1>1 DEF ProcInv, PageInv, Idle
<1>18. CoveredInv'
  <2> SUFFICES ASSUME ~cursor'.gaps, cursor'.epoch \in {0, epoch'}, NEW c \in Conn, Shown(c)'
               PROVE  Holds(c)' \/ Waits(c, cursor.sequence)' \/ Hole(cursor.sequence)'
    BY DEF CoveredInv
  <2>1. /\ ~cursor.gaps /\ ~rewound /\ page.epoch = epoch /\ From(page) = cursor.sequence
        /\ ~(page.gap /\ page.next > cursor.sequence)
    BY <1>1, <1>3, <1>12, <1>14
  <2>2. Shown(c) /\ row'["slave"][c] = row["slave"][c]
    BY <1>1, <1>5 DEF Shown
  <2>3. Arrives(page, c)
    BY <1>0, <1>1, <2>1, <2>2 DEF FlowInv, PageInv, rewound
  <2>4. cursor'.sequence = End(page)
    BY <1>14, <2>1 DEF End
  <2>5. /\ after(c).row.bytes \in Nat /\ Entry("master", c).row.bytes \in Nat
    BY <1>2, <1>4, SyncedIsEntry DEF IsEntry, IsRow
  <2>6. row["slave"][c].bytes \in Nat
    BY <1>2 DEF FlowInv, RowInv, IsEntry, IsRow, Held
  <2>7. known'["master"][Owner[c]].id = row["slave"][c].of
    BY <1>6, <2>2 DEF Shown
  <2>8. CASE Holds(c)
    <3>1. SameNode("master", c)
      BY <2>2, <2>8 DEF Holds, Shown, SameNode
    <3>2. Entry("master", c).row = row["master"][c]
      BY <3>1 DEF Entry, SyncedRow
    <3>3. /\ after(c).row.there /\ row["slave"][c].bytes <= after(c).row.bytes
          /\ row["slave"][c].closed => after(c).row.closed
      BY <1>4, <2>5, <2>6, <2>8, <3>2 DEF Follows, Holds
    <3> QED BY <1>5, <2>2, <2>5, <2>6, <2>7, <3>3 DEF Holds
  <2>9. CASE Brings(page, c)
    <3>1. PICK e \in page.events : e.seq > cursor.sequence /\ Carries(e, c)
      BY <2>9 DEF Brings
    <3>2. e \in mine(c) /\ ~e.lost
      BY <2>1, <2>2, <3>1 DEF Fresh, Carries, Shown
    <3>3. Reaches(after(c), e)
      BY <1>4, <3>2
    <3>4. /\ after(c).row.there /\ row["slave"][c].bytes <= after(c).row.bytes
          /\ row["slave"][c].closed => after(c).row.closed
      BY <3>1, <3>3 DEF Reaches, Carries
    <3> QED BY <1>5, <2>2, <2>5, <2>6, <2>7, <3>4 DEF Holds
  <2>10. CASE Waits(c, End(page))
    <3>1. PICK e \in queue : e.seq > End(page) /\ Carries(e, c)
      BY <2>10 DEF Waits
    <3>2. Carries(e, c)'
      BY <2>2, <3>1 DEF Carries
    <3> QED BY <1>1, <2>4, <3>1, <3>2 DEF Waits
  <2>11. CASE Hole(End(page))
    BY <1>1, <2>4, <2>11 DEF Hole
  <2> QED BY <2>1, <2>3, <2>8, <2>9, <2>10, <2>11 DEF Arrives
<1> QED BY <1>7, <1>8, <1>9, <1>10, <1>16, <1>17, <1>18 DEF FlowInv

--------------------------------------------------------------------------------
(* A batch is ingested *)

\* What is not logged leaves a row as it is, but for the mark of a connection
\* that was lost; what is logged carries the row.
LEMMA UpsertLogged ==
  ASSUME NEW s, IsSing(s), NEW c \in Conn, NEW id \in Nat, NEW x, IsEntry(s, c, id, x),
         NEW e, IsEvent(e), Real(s, c, e), ~e.lost => e.of = id
  PROVE  LET y == Upsert(x, e) IN
         /\ e.lost \/ ~Logged(x.row, e) =>
              /\ y.row.there <=> x.row.there
              /\ y.row.bytes = x.row.bytes /\ (y.row.closed <=> x.row.closed)
              /\ y.row.there => y.row.of = x.row.of
         /\ ~e.lost /\ Logged(x.row, e) =>
              y.row.bytes = e.bytes /\ y.row.of = e.of /\ (y.row.closed => e.closed)
<1> DEFINE y == Upsert(x, e)
<1>1. /\ x.row.bytes \in Nat /\ e.bytes \in Nat /\ s[c].bytes \in Nat
      /\ x.row.bytes <= s[c].bytes /\ e.bytes <= s[c].bytes
      /\ x.row.closed => x.row.bytes = s[c].bytes /\ x.row.there
      /\ x.row.there => x.row.of = id
  BY DEF IsSing, IsEntry, IsRow, IsEvent, Real
<1>2. CASE e.lost
  <2> DEFINE marked == [x.row EXCEPT !.lost = @ \/ (x.row.there /\ ~x.row.closed)]
  <2>1. y = [x EXCEPT !.row = marked]
    BY <1>2 DEF Upsert, IsEntry, IsRow
  <2>2. /\ marked.there = x.row.there /\ marked.bytes = x.row.bytes
        /\ marked.closed = x.row.closed /\ marked.of = x.row.of
    BY DEF IsEntry, IsRow
  <2> HIDE DEF marked
  <2>3. y.row = marked
    BY <2>1 DEF IsEntry
  <2> HIDE DEF y
  <2> QED BY <1>2, <2>2, <2>3 DEF y
<1>3. CASE ~e.lost /\ x.row.there /\ e.bytes < x.row.bytes
  <2>1. y = x
    BY <1>3 DEF Upsert
  <2>2. ~Logged(x.row, e)
    BY <1>1, <1>3 DEF Logged
  <2> HIDE DEF y
  <2> QED BY <1>3, <2>1, <2>2 DEF y
<1>4. CASE ~e.lost /\ ~(x.row.there /\ e.bytes < x.row.bytes)
  <2> DEFINE next == [there |-> TRUE, bytes |-> e.bytes, closed |-> x.row.closed \/ e.closed,
                      lost |-> FALSE, of |-> e.of]
  <2>1. y = [row |-> next, credit |-> x.credit + e.bytes - x.row.bytes]
    BY <1>4 DEF Upsert
  <2>2. /\ next.there /\ next.bytes = e.bytes /\ next.of = e.of
        /\ next.closed <=> x.row.closed \/ e.closed
    OBVIOUS
  <2> HIDE DEF next
  <2>3. y.row = next
    BY <2>1
  <2> HIDE DEF y
  <2>4. CASE Logged(x.row, e)
    <3>1. x.row.closed => e.closed
      BY <1>1, <2>4 DEF Logged
    <3> QED BY <1>4, <2>2, <2>3, <2>4, <3>1 DEF y
  <2>5. CASE ~Logged(x.row, e)
    <3>1. /\ x.row.there /\ e.bytes = x.row.bytes /\ (e.closed => x.row.closed)
          /\ x.row.of = e.of
      BY <1>1, <1>4, <2>5 DEF Logged
    <3> QED BY <2>2, <2>3, <2>5, <3>1, <1>4 DEF y
  <2> QED BY <2>4, <2>5
<1> QED BY <1>2, <1>3, <1>4

\* Pruning leaves a hole where an event was.
LEMMA PrunedIsHole ==
  ASSUME NEW events, NEW n \in Nat, \A e \in events : e.seq \in Nat /\ e.seq <= n,
         NEW e \in events,
         e.seq <= MaxOf({f.seq : f \in events}) - QueueLimit
  PROVE  \A f \in events :
           f.seq > MaxOf({g.seq : g \in events}) - QueueLimit => f.seq > e.seq
<1> DEFINE T == {f.seq : f \in events}
<1>1. T \subseteq Nat /\ T # {} /\ \A y \in T : y <= n
  OBVIOUS
<1>2. MaxOf(T) \in T
  <2> HIDE DEF T
  <2> QED BY <1>1, MaxIsGreatest
<1>3. MaxOf(T) \in Nat /\ QueueLimit \in Nat
  BY <1>1, <1>2, FlowAssumption
<1> HIDE DEF T
<1> QED BY <1>3 DEF T

LEMMA IngestStep == ASSUME FlowInv, Ingest PROVE FlowInv'
<1> DEFINE accepted == {r \in batch.readings : acct["slave"][Owner[r.c]].id # 0}
           read == {r.c : r \in accepted}
           before == [c \in Conn |-> SyncedRow("slave", c)]
           abandoned == {c \in Conn \ read : batch.reset /\ before[c].there /\ ~before[c].closed /\ ~before[c].lost}
           reading(c) == CHOOSE r \in accepted : r.c = c
           logged == {c \in read : Logged(before[c], reading(c))}
           number(c) == last + IF c \in read THEN Cardinality({d \in logged : d <= c})
                               ELSE Cardinality(logged) + Cardinality({d \in abandoned : d <= c})
           event(c) == IF c \in read
                       THEN [seq |-> number(c), c |-> c, of |-> acct["slave"][Owner[c]].id,
                             bytes |-> reading(c).bytes, closed |-> reading(c).closed, lost |-> FALSE]
                       ELSE [seq |-> number(c), c |-> c, of |-> before[c].of,
                             bytes |-> before[c].bytes, closed |-> FALSE, lost |-> TRUE]
           after == [c \in Conn |-> IF c \in read \cup abandoned THEN Upsert(Entry("slave", c), event(c)) ELSE Entry("slave", c)]
           events == SyncedQueue \cup {event(c) : c \in logged \cup abandoned}
           newest == MaxOf({e.seq : e \in events})
           id(c) == acct["slave"][Owner[c]].id
<1>1. /\ batch' = NoBatch /\ epoch' = (IF epoch = 0 THEN made ELSE epoch)
      /\ known' = [known EXCEPT !["slave"] = acct["slave"]]
      /\ row' = [row EXCEPT !["slave"] = [c \in Conn |-> after[c].row]]
      /\ credit' = [credit EXCEPT !["slave"] = [c \in Conn |-> after[c].credit]]
      /\ last' = last + Cardinality(logged) + Cardinality(abandoned)
      /\ queue' = {e \in events : e.seq > newest - QueueLimit}
      /\ UNCHANGED <<sing, acct, here, made, cursor, proc>>
  BY DEF Ingest, stateVars, masterVars
<1>2. "slave" \in Host /\ "master" \in Host
  BY DEF Host
<1>3. ASSUME NEW c \in read
      PROVE  c \in Conn /\ reading(c).bytes \in Nat /\ Real(sing, c, reading(c))
  <2>1. reading(c) \in accepted /\ reading(c).c = c
    OBVIOUS
  <2> HIDE DEF reading
  <2> QED BY <2>1 DEF FlowInv, BatchInv
<1>4. /\ logged \subseteq Conn /\ abandoned \subseteq Conn /\ logged \subseteq read
      /\ abandoned \cap read = {}
  BY <1>3
<1>5. last \in Nat /\ IsFiniteSet(logged) /\ IsFiniteSet(abandoned)
  <2>1. IsFiniteSet(Conn)
    BY FS_Interval, FlowAssumption DEF Conn
  <2> HIDE DEF logged, abandoned
  <2> QED BY <1>4, <2>1, FS_Subset DEF FlowInv, QueueInv
<1>6. ASSUME NEW c \in read \cup abandoned
      PROVE  /\ number(c) \in Nat
             /\ c \in logged \cup abandoned => last < number(c)
             /\ c \in logged \cup abandoned => number(c) <= last'
  <2> DEFINE A == {d \in logged : d <= c} B == {d \in abandoned : d <= c}
             la == logged ab == abandoned
  <2>1. /\ A \subseteq la /\ B \subseteq ab
        /\ c \in logged => c \in A
        /\ c \in abandoned => c \in B
    <3>1. c \in Conn
      BY <1>3, <1>4
    <3>2. c \in Int
      BY <3>1, FlowAssumption DEF Conn
    <3> HIDE DEF logged, abandoned
    <3> QED BY <3>2
  <2>2. IF c \in read THEN number(c) = last + Cardinality(A)
        ELSE number(c) = last + (Cardinality(la) + Cardinality(B))
    OBVIOUS
  <2>3. last' = last + Cardinality(la) + Cardinality(ab)
    BY <1>1
  <2>4. /\ c \in logged => c \in read
        /\ c \in abandoned <=> c \notin read
    BY <1>4
  <2>5. IsFiniteSet(la) /\ IsFiniteSet(ab)
    BY <1>5
  <2> HIDE DEF la, ab, A, B, number, read, logged, abandoned
  <2>6. /\ Cardinality(A) \in Nat /\ Cardinality(la) \in Nat /\ Cardinality(A) <= Cardinality(la)
        /\ A # {} => Cardinality(A) >= 1
    BY <2>1, <2>5, Smaller
  <2>7. /\ Cardinality(B) \in Nat /\ Cardinality(ab) \in Nat /\ Cardinality(B) <= Cardinality(ab)
        /\ B # {} => Cardinality(B) >= 1
    BY <2>1, <2>5, Smaller
  <2> QED BY <1>5, <2>1, <2>2, <2>3, <2>4, <2>6, <2>7
<1>7. last' \in Nat /\ last <= last'
  <2> DEFINE x == Cardinality(logged) y == Cardinality(abandoned)
  <2>1. x \in Nat /\ y \in Nat
    <3> HIDE DEF logged, abandoned
    <3> QED BY <1>5, FS_CardinalityType
  <2>2. last' = last + x + y
    BY <1>1
  <2> HIDE DEF x, y
  <2> QED BY <1>5, <2>1, <2>2
<1>8. ASSUME NEW c \in Conn
      PROVE  /\ id(c) \in Nat /\ IsEntry(sing, c, id(c), Entry("slave", c))
             /\ Entry("slave", c).row = before[c]
             /\ before[c].there => before[c] = row["slave"][c] /\ SameNode("slave", c)
             /\ IsRow(before[c]) /\ Real(sing, c, before[c])
             /\ before[c].there => before[c].of = id(c)
  <2>1. Entry("slave", c).row = before[c]
    BY DEF Entry
  <2>2. /\ id(c) \in Nat /\ IsEntry(sing, c, id(c), Entry("slave", c))
        /\ Entry("slave", c).row.there => Entry("slave", c).row = row["slave"][c] /\ SameNode("slave", c)
    BY <1>2, SyncedIsEntry
  <2> HIDE DEF before
  <2> QED BY <2>1, <2>2 DEF IsEntry
<1>9. ASSUME NEW c \in read \cup abandoned
      PROVE  /\ IsEvent(event(c)) /\ Real(sing, c, event(c)) /\ event(c).seq = number(c)
             /\ event(c).c = c
             /\ ~event(c).lost => event(c).of = id(c)
             /\ c \in read <=> ~event(c).lost
             /\ c \in read => event(c).bytes = reading(c).bytes
             /\ c \in read => (event(c).closed <=> reading(c).closed)
  <2>1. CASE c \in read
    <3> DEFINE e == [seq |-> number(c), c |-> c, of |-> acct["slave"][Owner[c]].id,
                     bytes |-> reading(c).bytes, closed |-> reading(c).closed, lost |-> FALSE]
    <3>1. event(c) = e
      BY <2>1
    <3>2. /\ e.seq = number(c) /\ e.c = c /\ e.of = id(c) /\ e.bytes = reading(c).bytes
          /\ e.closed = reading(c).closed /\ ~e.lost
      OBVIOUS
    <3>3. c \in Conn /\ reading(c).bytes \in Nat /\ Real(sing, c, reading(c))
      BY <1>3, <2>1
    <3>4. number(c) \in Nat /\ id(c) \in Nat
      BY <1>6, <1>8, <3>3
    <3> HIDE DEF e, number, reading, event, read, abandoned, id
    <3> QED BY <2>1, <3>1, <3>2, <3>3, <3>4 DEF IsEvent, Real
  <2>2. CASE c \notin read
    <3> DEFINE e == [seq |-> number(c), c |-> c, of |-> before[c].of,
                     bytes |-> before[c].bytes, closed |-> FALSE, lost |-> TRUE]
    <3>1. event(c) = e
      BY <2>2
    <3>2. /\ e.seq = number(c) /\ e.c = c /\ e.of = before[c].of /\ e.bytes = before[c].bytes
          /\ ~e.closed /\ e.lost
      OBVIOUS
    <3>3. c \in Conn
      BY <1>4, <2>2
    <3>4. /\ number(c) \in Nat
          /\ before[c].bytes \in Nat /\ before[c].of \in Nat /\ Real(sing, c, before[c])
      BY <1>6, <1>8, <3>3 DEF IsRow
    <3> HIDE DEF e, number, reading, event, read, abandoned, id, before
    <3> QED BY <2>2, <3>1, <3>2, <3>3, <3>4 DEF IsEvent, Real
  <2> QED BY <2>1, <2>2
<1>10. IsSing(sing)
  BY DEF FlowInv
<1>11. ASSUME NEW c \in Conn
       PROVE  IsEntry(sing, c, id(c), after[c]) /\ Follows(after[c], Entry("slave", c))
  <2>1. CASE c \in read \cup abandoned
    <3>1. after[c] = Upsert(Entry("slave", c), event(c))
      BY <2>1
    <3> DEFINE x == Entry("slave", c) e == event(c) i == id(c)
    <3>2. i \in Nat /\ IsEntry(sing, c, i, x)
      BY <1>8
    <3>3. IsEvent(e) /\ Real(sing, c, e) /\ (~e.lost => e.of = i)
      <4> HIDE DEF event, id, read, abandoned
      <4> QED BY <1>9, <2>1
    <3>4. after[c] = Upsert(x, e)
      BY <3>1
    <3> HIDE DEF x, e, i, after
    <3>5. IsEntry(sing, c, i, Upsert(x, e)) /\ Follows(Upsert(x, e), x)
      BY <1>10, <3>2, <3>3, UpsertFollows
    <3>6. IsEntry(sing, c, i, after[c]) /\ Follows(after[c], x)
      BY <3>4, <3>5
    <3> QED BY <3>6 DEF x, i
  <2>2. CASE c \notin read \cup abandoned
    <3>1. after[c] = Entry("slave", c)
      BY <2>2
    <3>2. Follows(Entry("slave", c), Entry("slave", c))
      BY <1>8 DEF Follows, IsEntry, IsRow
    <3> HIDE DEF after
    <3> QED BY <1>8, <3>1, <3>2
  <2> QED BY <2>1, <2>2
<1>12. ASSUME NEW c \in Conn, after[c].row.there
       PROVE  \/ /\ before[c].there /\ after[c].row.bytes = before[c].bytes
                 /\ (after[c].row.closed <=> before[c].closed) /\ after[c].row.of = before[c].of
              \/ /\ c \in logged /\ ~event(c).lost /\ event(c).of = after[c].row.of
                 /\ event(c).bytes = after[c].row.bytes /\ (after[c].row.closed => event(c).closed)
  <2>1. CASE c \notin read \cup abandoned
    <3>1. after[c] = Entry("slave", c)
      BY <2>1
    <3> HIDE DEF after
    <3> QED BY <1>8, <1>12, <3>1
  <2>2. CASE c \in read \cup abandoned
    <3>1. after[c] = Upsert(Entry("slave", c), event(c))
      BY <2>2
    <3>2. c \in logged <=> c \in read /\ Logged(before[c], reading(c))
      OBVIOUS
    <3>3. c \in read => (Logged(before[c], reading(c)) <=> Logged(before[c], event(c)))
      <4> HIDE DEF event, read, abandoned, reading, before
      <4> QED BY <1>9, <2>2 DEF Logged
    <3> DEFINE x == Entry("slave", c) e == event(c)
    <3>4. /\ e.lost \/ ~Logged(x.row, e) =>
               /\ after[c].row.there <=> x.row.there
               /\ after[c].row.bytes = x.row.bytes /\ (after[c].row.closed <=> x.row.closed)
               /\ after[c].row.there => after[c].row.of = x.row.of
          /\ ~e.lost /\ Logged(x.row, e) =>
               after[c].row.bytes = e.bytes /\ after[c].row.of = e.of /\ (after[c].row.closed => e.closed)
      <4> DEFINE i == id(c)
      <4>1. i \in Nat /\ IsEntry(sing, c, i, x)
        BY <1>8
      <4>2. IsEvent(e) /\ Real(sing, c, e) /\ (~e.lost => e.of = i)
        <5> HIDE DEF event, id, read, abandoned
        <5> QED BY <1>9, <2>2
      <4>3. after[c] = Upsert(x, e)
        BY <3>1
      <4> HIDE DEF i, x, e, after
      <4> QED BY <1>10, <4>1, <4>2, <4>3, UpsertLogged
    <3>5. x.row = before[c] /\ (c \in read <=> ~e.lost)
      BY <1>8, <1>9, <2>2
    <3> HIDE DEF event, read, abandoned, after, logged, before, x, e
    <3> QED BY <1>12, <3>2, <3>3, <3>4, <3>5 DEF e
  <2> QED BY <2>1, <2>2
<1> HIDE DEF after
<1>13. ASSUME NEW c \in Conn
       PROVE  /\ row'["slave"][c] = after[c].row /\ credit'["slave"][c] = after[c].credit
              /\ row'["master"][c] = row["master"][c] /\ credit'["master"][c] = credit["master"][c]
  BY <1>1, <1>2 DEF FlowInv, RowInv
<1>14. known'["master"] = known["master"] /\ known'["slave"] = acct["slave"]
  BY <1>1, <1>2 DEF FlowInv, IdInv
<1>15. /\ events \subseteq queue \cup {event(c) : c \in logged \cup abandoned}
       /\ SyncedQueue \subseteq events /\ \A c \in logged \cup abandoned : event(c) \in events
  BY DEF SyncedQueue
<1>16. ASSUME NEW e \in events
       PROVE  /\ IsEvent(e) /\ e.seq \in Nat /\ e.seq <= last' /\ Real(sing, e.c, e)
              /\ e \in queue \/ e.seq > last
  <2>1. CASE e \in queue
    <3>1. IsEvent(e) /\ e.seq \in Nat /\ e.seq <= last /\ Real(sing, e.c, e)
      BY <2>1 DEF FlowInv, QueueInv, IsEvent
    <3> HIDE DEF events, logged, abandoned
    <3> QED BY <1>5, <1>7, <2>1, <3>1
  <2>2. CASE e \notin queue
    <3>1. PICK c \in logged \cup abandoned : e = event(c)
      BY <1>15, <2>2
    <3>2. c \in read \cup abandoned
      BY <3>1
    <3> HIDE DEF event, read, abandoned, logged, number
    <3>3. number(c) \in Nat /\ last < number(c) /\ number(c) <= last'
      BY <1>6, <3>1, <3>2
    <3>4. IsEvent(event(c)) /\ Real(sing, c, event(c)) /\ event(c).seq = number(c) /\ event(c).c = c
      BY <1>9, <3>2
    <3> QED BY <1>5, <3>1, <3>3, <3>4
  <2> QED BY <2>1, <2>2
<1>17. IsFiniteSet(events)
  <2> DEFINE C == logged \cup abandoned N == {event(c) : c \in C}
  <2>1. IsFiniteSet(C)
    <3> HIDE DEF logged, abandoned
    <3> QED BY <1>5, FS_Union
  <2>2. IsFiniteSet(N)
    <3> DEFINE f == [c \in C |-> event(c)]
    <3> HIDE DEF C, event
    <3>1. f \in Surjection(C, N)
      BY DEF Surjection
    <3> HIDE DEF f
    <3> QED BY <2>1, <3>1, FS_Surjection
  <2>3. IsFiniteSet(SyncedQueue)
    BY SyncedEvents DEF FlowInv
  <2>4. IsFiniteSet(SyncedQueue \cup N)
    <3> HIDE DEF N
    <3> QED BY <2>2, <2>3, FS_Union
  <2> QED BY <2>4
<1> HIDE DEF events, event, read, logged, abandoned, before, number, reading
<1>18. ASSUME NEW e \in events, e \notin queue' PROVE \A f \in queue' : f.seq > e.seq
  <2>1. ~(e.seq > newest - QueueLimit)
    BY <1>1, <1>18
  <2>2. newest \in Nat
    <3> DEFINE T == {f.seq : f \in events}
    <3>1. T \subseteq Nat /\ T # {} /\ \A y \in T : y <= last'
      BY <1>16
    <3>2. MaxOf(T) \in T
      <4> HIDE DEF T
      <4> QED BY <1>7, <3>1, MaxIsGreatest
    <3> QED BY <3>1, <3>2
  <2>3. e.seq <= newest - QueueLimit
    <3> HIDE DEF newest
    <3> QED BY <1>16, <2>1, <2>2, FlowAssumption
  <2>4. \A f \in events : f.seq > newest - QueueLimit => f.seq > e.seq
    BY <1>7, <1>16, <2>3, PrunedIsHole
  <2> QED BY <1>1, <2>4
<1>19. queue' \subseteq events
  BY <1>1
<1> HIDE DEF newest
\* An event that is not taken from the queue waits there, or leaves a hole.
<1>20. ASSUME NEW p \in Nat, p <= last, NEW c \in Conn, NEW e \in events, e.seq > p, Carries(e, c)'
       PROVE  Waits(c, p)' \/ Hole(p)'
  <2>1. CASE e \in queue'
    BY <1>20, <2>1 DEF Waits
  <2>2. CASE e \notin queue'
    <3>1. p < last'
      BY <1>7, <1>16, <1>20
    <3>2. \A f \in queue' : f.seq > p + 1
      BY <1>16, <1>18, <1>19, <1>20, <2>2
    <3> QED BY <3>1, <3>2 DEF Hole
  <2> QED BY <2>1, <2>2
<1>21. ASSUME NEW p \in Nat, Hole(p) PROVE Hole(p)'
  <2>1. p < last'
    BY <1>5, <1>7, <1>21 DEF Hole
  <2>2. \A f \in queue' : f.seq > p + 1
    BY <1>5, <1>16, <1>19, <1>21 DEF Hole
  <2> QED BY <2>1, <2>2 DEF Hole
<1>22. ASSUME NEW c \in Conn, row'["slave"][c].there
       PROVE  \/ /\ row["slave"][c].there /\ row["slave"][c].of = id(c)
                 /\ row'["slave"][c].bytes = row["slave"][c].bytes
                 /\ (row'["slave"][c].closed <=> row["slave"][c].closed)
                 /\ row'["slave"][c].of = row["slave"][c].of
              \/ \E e \in events : e.seq > last /\ Carries(e, c)'
  <2>1. CASE /\ before[c].there /\ after[c].row.bytes = before[c].bytes
             /\ (after[c].row.closed <=> before[c].closed) /\ after[c].row.of = before[c].of
    BY <1>8, <1>13, <2>1
  <2>2. CASE /\ c \in logged /\ ~event(c).lost /\ event(c).of = after[c].row.of
             /\ event(c).bytes = after[c].row.bytes /\ (after[c].row.closed => event(c).closed)
    <3>1. PICK d : d = event(c)
      OBVIOUS
    <3>0. c \in read \cup abandoned /\ c \in logged \cup abandoned
      BY <1>4, <2>2
    <3>2. d.c = c /\ d.seq = number(c) /\ last < number(c) /\ d \in events
      BY <1>6, <1>9, <1>15, <3>0, <3>1
    <3>3. number(c) \in Nat
      BY <1>4, <1>6, <2>2
    <3>4. Carries(d, c)'
      BY <1>13, <2>2, <3>1, <3>2 DEF Carries
    <3>5. d.seq > last
      BY <1>5, <3>2, <3>3
    <3> QED BY <3>2, <3>4, <3>5
  <2>3. after[c].row.there
    BY <1>13, <1>22
  <2> QED BY <1>12, <2>1, <2>2, <2>3
\* What the slave shows reaches as far as before.
<1>23. ASSUME NEW p \in Nat, p <= last, NEW c \in Conn, Shown(c)'
       PROVE  \/ Waits(c, p)' \/ Hole(p)'
              \/ /\ Shown(c) /\ (Holds(c) => Holds(c)')
                 /\ \A e : Carries(e, c) => Carries(e, c)'
                 /\ Waits(c, p) => Waits(c, p)' \/ Hole(p)'
  <2>1. row'["slave"][c].there
    BY <1>23 DEF Shown
  <2>2. CASE \E e \in events : e.seq > last /\ Carries(e, c)'
    <3>1. PICK e \in events : e.seq > last /\ Carries(e, c)'
      BY <2>2
    <3>2. e.seq > p
      BY <1>5, <1>16, <1>23, <3>1
    <3> QED BY <1>20, <1>23, <3>1, <3>2
  <2>3. CASE /\ row["slave"][c].there /\ row["slave"][c].of = id(c)
             /\ row'["slave"][c].bytes = row["slave"][c].bytes
             /\ (row'["slave"][c].closed <=> row["slave"][c].closed)
             /\ row'["slave"][c].of = row["slave"][c].of
    <3>1. Shown(c)
      BY <1>1, <1>23, <2>3 DEF Shown
    <3>2. Holds(c) => Holds(c)'
      BY <1>13, <1>14, <2>3 DEF Holds
    <3>3. \A e : Carries(e, c) => Carries(e, c)'
      BY <2>3 DEF Carries
    <3>4. ASSUME Waits(c, p) PROVE Waits(c, p)' \/ Hole(p)'
      <4>1. PICK e \in queue : e.seq > p /\ Carries(e, c)
        BY <3>4 DEF Waits
      <4>2. e \in events
        BY <1>15, <2>3, <4>1 DEF Carries, SyncedQueue
      <4>3. Carries(e, c)'
        BY <3>3, <4>1
      <4> QED BY <1>20, <1>23, <4>1, <4>2, <4>3
    <3> QED BY <3>1, <3>2, <3>3, <3>4
  <2> QED BY <1>22, <2>1, <2>2, <2>3
<1>24. IsSing(sing') /\ BatchInv'
  BY <1>1 DEF FlowInv, IsSing, BatchInv, NoBatch
<1>25. IdInv'
  BY <1>1, <1>2, IdsSynced DEF FlowInv
<1>26. RowInv'
  <2>1. ASSUME NEW c \in Conn
        PROVE  /\ IsEntry(sing', c, known'["slave"][Owner[c]].id, Held("slave", c)')
               /\ IsEntry(sing', c, known'["master"][Owner[c]].id, Held("master", c)')
    <3>1. Held("master", c)' = Held("master", c)
      BY <1>13 DEF Held
    <3>2. IsEntry(sing, c, known["master"][Owner[c]].id, Held("master", c))
      BY <1>2 DEF FlowInv, RowInv
    <3> DEFINE y == [row |-> after[c].row, credit |-> after[c].credit]
    <3>3. Held("slave", c)' = y
      BY <1>13 DEF Held
    <3>4. IsEntry(sing, c, id(c), y)
      BY <1>11 DEF IsEntry
    <3> QED BY <1>1, <1>14, <3>1, <3>2, <3>3, <3>4
  <2>2. /\ DOMAIN row' = Host /\ \A h \in Host : DOMAIN row'[h] = Conn
        /\ DOMAIN credit' = Host /\ \A h \in Host : DOMAIN credit'[h] = Conn
    BY <1>1 DEF FlowInv, RowInv
  <2> QED BY <2>1, <2>2 DEF RowInv, Host
<1>27. CountedInv'
  <2>1. ASSUME NEW c \in Conn, Unrotated("master", Owner[c])'
        PROVE  credit'["master"][c] <= row'["master"][c].bytes
    BY <1>2, <1>13, <1>14, <2>1 DEF FlowInv, CountedInv, Unrotated
  <2>2. ASSUME NEW c \in Conn, Unrotated("slave", Owner[c])'
        PROVE  credit'["slave"][c] <= row'["slave"][c].bytes
    <3>1. Entry("slave", c).credit <= Entry("slave", c).row.bytes
      BY <1>2, <1>14, <2>2, SyncedIsEntry DEF Unrotated
    <3> QED BY <1>11, <1>13, <3>1 DEF Follows
  <2> QED BY <2>1, <2>2 DEF CountedInv, Host
<1>28. QueueInv'
  <2>1. IsFiniteSet(queue')
    BY <1>17, <1>19, FS_Subset
  <2>2. \A e \in queue' : IsEvent(e) /\ e.seq <= last' /\ Real(sing', e.c, e)
    BY <1>1, <1>16, <1>19
  <2> QED BY <1>7, <2>1, <2>2 DEF QueueInv
<1>29. /\ cursor.sequence \in Nat /\ cursor.epoch \in Nat /\ made \in Nat /\ made >= 1
       /\ epoch = 0 \/ epoch = made
       /\ epoch' = made /\ cursor.epoch <= made
       /\ epoch = 0 => last = 0 /\ cursor.epoch < made
       /\ cursor.epoch = 0 => cursor.sequence = 0
       /\ cursor.epoch = epoch => cursor.sequence <= last
  BY <1>1 DEF FlowInv, CursorInv
<1>30. CursorInv'
  BY <1>1, <1>5, <1>7, <1>29 DEF CursorInv
<1>31. ProcInv'
  <2>1. ASSUME proc.at = "merge" PROVE IsPage(proc.page)'
    <3>1. IsPage(proc.page)
      BY <2>1 DEF FlowInv, ProcInv
    <3>2. /\ proc.page.epoch = epoch' => proc.page.next <= last'
          /\ epoch' # 0
      BY <1>5, <1>7, <1>29, <3>1 DEF IsPage
    <3> QED BY <1>1, <3>1, <3>2 DEF IsPage
  <2> QED BY <1>1, <2>1 DEF FlowInv, ProcInv
<1>32. CoveredInv'
  <2> SUFFICES ASSUME ~cursor.gaps, cursor.epoch \in {0, epoch'}, NEW c \in Conn, Shown(c)'
               PROVE  Holds(c)' \/ Waits(c, cursor.sequence)' \/ Hole(cursor.sequence)'
    BY <1>1 DEF CoveredInv
  <2>0. PICK p : p = cursor.sequence
    OBVIOUS
  <2>1. cursor.epoch \in {0, epoch} /\ p \in Nat /\ p <= last
    BY <1>5, <1>29, <2>0
  <2>2. cursor'.sequence = p
    BY <1>1, <2>0
  <2>3. Shown(c) => Holds(c) \/ Waits(c, p) \/ Hole(p)
    BY <2>0, <2>1 DEF FlowInv, CoveredInv
  <2>4. Holds(c)' \/ Waits(c, p)' \/ Hole(p)'
    BY <1>21, <1>23, <2>1, <2>3
  <2> QED BY <2>2, <2>4 DEF Waits, Hole
<1>33. PageInv'
  <2> SUFFICES ASSUME ~cursor.gaps, proc.at = "merge", proc.page.epoch = epoch',
                      ~Rewound(cursor.sequence, cursor.epoch, proc.page),
                      NEW c \in Conn, Shown(c)'
               PROVE  Arrives(proc.page, c)'
    BY <1>1 DEF PageInv
  <2>0. PICK page, p : page = proc.page /\ p = End(page)
    OBVIOUS
  <2>1. IsPage(page)
    BY <2>0 DEF FlowInv, ProcInv
  <2>2. page.epoch = epoch /\ page.next \in Nat /\ page.next <= last
    BY <1>29, <2>0, <2>1 DEF IsPage
  <2>3. cursor.sequence <= last
    BY <1>5, <1>29, <2>0, <2>2 DEF Rewound
  <2>4. p \in Nat /\ p <= last
    BY <1>29, <2>0, <2>2, <2>3 DEF End
  <2>5. End(page)' = p /\ proc'.page = page /\ cursor' = cursor
    BY <1>1, <2>0 DEF End
  <2>6. Shown(c) => \/ Holds(c) \/ Brings(page, c) \/ Waits(c, p) \/ Hole(p)
                    \/ page.gap /\ page.next > cursor.sequence
    BY <2>0, <2>2 DEF FlowInv, PageInv, Arrives
  <2>7. (\A e : Carries(e, c) => Carries(e, c)') /\ Brings(page, c) => Brings(page, c)'
    BY <2>5 DEF Brings
  <2>8. \/ Holds(c)' \/ Brings(page, c)' \/ Waits(c, p)' \/ Hole(p)'
        \/ page.gap /\ page.next > cursor.sequence
    <3>1. CASE Waits(c, p)' \/ Hole(p)'
      BY <3>1
    <3>2. CASE /\ Shown(c) /\ (Holds(c) => Holds(c)')
               /\ \A e : Carries(e, c) => Carries(e, c)'
               /\ Waits(c, p) => Waits(c, p)' \/ Hole(p)'
      BY <1>21, <2>4, <2>6, <2>7, <3>2
    <3> QED BY <1>23, <2>4, <3>1, <3>2
  <2>9. Arrives(page, c)'
    BY <2>5, <2>8 DEF Arrives, Waits, Hole
  <2> QED BY <2>5, <2>9 DEF Arrives, Brings, End, Waits, Hole
<1> QED BY <1>24, <1>25, <1>26, <1>27, <1>28, <1>30, <1>31, <1>32, <1>33 DEF FlowInv

--------------------------------------------------------------------------------
(* Theorems *)

LEMMA FlowStep == ASSUME FlowInv, [FlowNext]_flowVars PROVE FlowInv'
<1>1. CASE UNCHANGED flowVars
  <2>1. UNCHANGED <<sing, batch, acct, here, known, row, credit, queue, last, made, epoch, cursor, proc>>
    BY <1>1 DEF flowVars
  <2>2. IsSing(sing') /\ Grows(sing, sing') /\ BatchInv' /\ IdInv'
    BY <2>1 DEF FlowInv, IsSing, Grows, BatchInv, IdInv
  <2> QED BY <2>1, <2>2, QuietStep DEF Shown
<1>2. ASSUME NEW c \in Conn, Connect(c) \/ Transfer(c) \/ CloseConnection(c) PROVE FlowInv'
  BY <1>2, SingStep
<1>3. ASSUME NEW n \in Node, Rotate(n) \/ Recreate(n) PROVE FlowInv'
  BY <1>3, EditStep
<1>4. ASSUME NEW n \in Node, MoveAway(n) PROVE FlowInv'
  BY <1>4, MoveAwayStep
<1>5. ASSUME Restart \/ IngestFails PROVE FlowInv'
  BY <1>5, RestartStep, IngestFailsStep
<1>6. ASSUME GiveUp \/ AskAgain \/ MergeRefused PROVE FlowInv'
  BY <1>6, GiveUpStep
<1>7. ASSUME NEW b \in Applied, Grant(b) PROVE FlowInv'
  BY <1>7, GrantStep
<1>8. ASSUME NEW b \in BOOLEAN, Receive(b) \/ LoseDatabase(b) PROVE FlowInv'
  BY <1>8, ReceiveStep, LoseDatabaseStep
<1>9. ASSUME Exchange(cursor.sequence, cursor.epoch) PROVE FlowInv'
  <2>1. PICK after, seen : after = cursor.sequence /\ seen = cursor.epoch
    OBVIOUS
  <2>2. after \in Nat /\ Exchange(after, seen)
    BY <1>9, <2>1 DEF FlowInv, CursorInv
  <2> QED BY <2>1, <2>2, ExchangeStep
<1>10. ASSUME Exchange(0, proc.epoch) PROVE FlowInv'
  <2>1. PICK seen : seen = proc.epoch
    OBVIOUS
  <2>2. Exchange(0, seen)
    BY <1>10, <2>1
  <2> QED BY <2>2, ExchangeStep
<1>11. ASSUME Ingest \/ Merge PROVE FlowInv'
  BY <1>11, IngestStep, MergeStep
<1> QED BY <1>1, <1>2, <1>3, <1>4, <1>5, <1>6, <1>7, <1>8, <1>9, <1>10, <1>11 DEF FlowNext, Cycle

LEMMA FlowAlways == FlowSpec => []FlowInv
BY InitFlow, FlowStep, PTL DEF FlowSpec

\* What a database shows of a node was recorded of its present identity: a row
\* of a node that was rotated, deleted or made again, or a late page, is never
\* taken over, whatever restarts, is lost or is fetched twice.
THEOREM NothingInherited == FlowSpec => []NeverInherited
<1>1. FlowInv => NeverInherited
  BY DEF FlowInv, RowInv, IsEntry, Held, NeverInherited
<1> QED BY <1>1, FlowAlways, PTL

\* However readings and pages are repeated, after reconnects, gaps, restarts
\* and lost databases, a host's days hold no byte of a connection twice, of
\* nodes whose UUID was not rotated under a device that stays.
THEOREM NothingCountedTwice == FlowSpec => []ReplayCountsOnce
<1>1. ASSUME FlowInv, NEW h \in Host, NEW c \in Conn, Unrotated(h, Owner[c])
      PROVE  credit[h][c] <= sing[c].bytes
  <2>1. IsEntry(sing, c, known[h][Owner[c]].id, Held(h, c)) /\ credit[h][c] <= row[h][c].bytes
    BY <1>1 DEF FlowInv, RowInv, CountedInv
  <2>2. /\ credit[h][c] \in Int /\ row[h][c].bytes \in Nat /\ row[h][c].bytes <= sing[c].bytes
    BY <2>1 DEF IsEntry, IsRow, Real, Held
  <2>3. sing[c].bytes \in Nat
    BY <1>1 DEF FlowInv, IsSing
  <2> QED BY <2>1, <2>2, <2>3
<1>2. FlowInv => ReplayCountsOnce
  BY <1>1 DEF ReplayCountsOnce
<1> QED BY <1>2, FlowAlways, PTL

\* As long as the master has recorded no gap, what its cursor has passed is in
\* its history: nothing that is pruned from the slave's queue, skipped by a page
\* or lost with a database is lost in silence.
THEOREM NothingLostInSilence == FlowSpec => []NoSilentLoss
<1>1. ASSUME FlowInv, ~cursor.gaps, cursor.epoch = epoch, cursor.sequence = last, NEW c \in Conn, Shown(c)
      PROVE  Holds(c)
  <2>1. Holds(c) \/ Waits(c, cursor.sequence) \/ Hole(cursor.sequence)
    BY <1>1 DEF FlowInv, CoveredInv
  <2>2. last \in Nat /\ \A e \in queue : e.seq \in Nat /\ e.seq <= last
    BY <1>1 DEF FlowInv, QueueInv, IsEvent
  <2>3. ~Waits(c, cursor.sequence) /\ ~Hole(cursor.sequence)
    BY <1>1, <2>2 DEF Waits, Hole
  <2> QED BY <2>1, <2>3
<1>2. FlowInv => NoSilentLoss
  BY <1>1 DEF NoSilentLoss, Shown, Holds
<1> QED BY <1>2, FlowAlways, PTL
================================================================================
