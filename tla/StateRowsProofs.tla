---------------------------- MODULE StateRowsProofs ----------------------------
(***************************************************************************)
(* Proofs about StateRows for any devices, names, uuids and groups, any    *)
(* number of nodes, samples and alerts and, but for the last theorem, any  *)
(* number of edits between a read and a save.                              *)
(***************************************************************************)
EXTENDS StateRows, FiniteSetTheorems, TLAPS

--------------------------------------------------------------------------------
(* Numbers *)

\* A set of numbers has a least one.
LEMMA LeastNumber ==
  ASSUME NEW T, T \subseteq Nat, T # {}
  PROVE  \E m \in T : \A l \in T : m <= l
<1>1. PICK m \in T : \A l \in T : <<l, m>> \notin OpToRel(<, Nat)
  BY WFMin, NatLessThanWellFounded
<1>2. OpToRel(<, Nat) = {p \in Nat \X Nat : p[1] < p[2]}
  BY DEF OpToRel
<1>3. \A l \in T : ~(l < m)
  BY <1>1, <1>2
<1> QED BY <1>3

\* Induction over the numbers: what fails at no least number fails at none.
LEMMA NoneFails ==
  ASSUME NEW T, T \subseteq Nat, \A k \in T : \E l \in T : l < k
  PROVE  T = {}
<1> SUFFICES ASSUME T # {} PROVE FALSE
  OBVIOUS
<1>1. PICK m \in T : \A l \in T : m <= l
  BY LeastNumber
<1>2. PICK l \in T : l < m
  OBVIOUS
<1>3. m \in Nat /\ l \in Nat /\ m <= l
  BY <1>1
<1> QED BY <1>2, <1>3

\* Max, as the folds use it, is the greatest of some numbers.
LEMMA MaxOfInterval ==
  ASSUME NEW n \in Nat, NEW s, s \subseteq 1..n, s # {}
  PROVE  Max(s) \in s /\ \A y \in s : Max(s) >= y
<1> DEFINE Above == {m \in 0..n : \A y \in s : y <= m}
<1>1. \E m \in Above : \A l \in Above : m <= l
  <2>1. n \in Above
    OBVIOUS
  <2>2. Above \subseteq Nat
    OBVIOUS
  <2> HIDE DEF Above
  <2> QED BY <2>1, <2>2, LeastNumber
<1>2. PICK m \in Above : \A l \in Above : m <= l
  BY <1>1
<1>3. m \in s
  <2> SUFFICES ASSUME m \notin s PROVE FALSE
    OBVIOUS
  <2>1. m - 1 \in Above
    <3>1. PICK y \in s : TRUE
      OBVIOUS
    <3> QED BY <3>1
  <2> QED BY <1>2, <2>1
<1>4. \A y \in s : m >= y
  OBVIOUS
<1> QED BY <1>3, <1>4 DEF Max

\* A set of n numbers has the places 1 to n, one for each number.
LEMMA Places ==
  ASSUME NEW S, S \subseteq Nat, IsFiniteSet(S)
  PROVE  /\ Cardinality(S) \in Nat
         /\ \A x \in S : Rank(S, x) \in 1..Cardinality(S) /\ Nth(S, Rank(S, x)) = x
         /\ \A k \in 1..Cardinality(S) : Nth(S, k) \in S /\ Rank(S, Nth(S, k)) = k
<1> DEFINE n == Cardinality(S)
<1>1. n \in Nat
  BY FS_CardinalityType
<1>2. \A x \in S : Rank(S, x) \in 1..n
  <2> TAKE x \in S
  <2> DEFINE T == {y \in S : y <= x}
  <2>1. IsFiniteSet(T) /\ Cardinality(T) <= n
    BY FS_Subset
  <2>2. Cardinality(T) \in Nat /\ Cardinality(T) # 0
    BY <2>1, FS_CardinalityType, FS_EmptySet
  <2> QED BY <1>1, <2>1, <2>2 DEF Rank
<1>3. \A x, y \in S : x < y => Rank(S, x) < Rank(S, y)
  <2> SUFFICES ASSUME NEW x \in S, NEW y \in S, x < y PROVE Rank(S, x) < Rank(S, y)
    OBVIOUS
  <2> DEFINE T == {z \in S : z <= x}  U == {z \in S : z <= y}
  <2>1. IsFiniteSet(U)
    BY FS_Subset
  <2>2. T \subseteq U /\ y \in U /\ y \notin T
    <3>1. \A z \in S : z <= x => z <= y
      OBVIOUS
    <3>2. y <= y /\ ~(y <= x)
      OBVIOUS
    <3> QED BY <3>1, <3>2
  <2>3. IsFiniteSet(T) /\ Cardinality(T) <= Cardinality(U) /\ Cardinality(T) # Cardinality(U)
    <3> HIDE DEF T, U
    <3> QED BY <2>1, <2>2, FS_Subset
  <2>4. Cardinality(T) \in Nat /\ Cardinality(U) \in Nat
    BY <2>1, <2>3, FS_CardinalityType
  <2> QED BY <2>3, <2>4 DEF Rank
<1>4. \A x, y \in S : Rank(S, x) = Rank(S, y) => x = y
  <2> SUFFICES ASSUME NEW x \in S, NEW y \in S, Rank(S, x) = Rank(S, y) PROVE x = y
    OBVIOUS
  <2>1. x \in Nat /\ y \in Nat /\ Rank(S, x) \in Nat
    BY <1>2
  <2>2. ~(x < y) /\ ~(y < x)
    BY <1>3, <2>1
  <2> QED BY <2>1, <2>2
<1> DEFINE f == [x \in S |-> Rank(S, x)]
<1>5. f \in Injection(S, 1..n)
  BY <1>2, <1>4 DEF Injection, IsInjective
<1>6. f \in Surjection(S, 1..n)
  <2>1. IsFiniteSet(1..n) /\ Cardinality(1..n) = n
    BY <1>1, FS_Interval
  <2> HIDE DEF f
  <2> QED BY <1>1, <1>5, <2>1, FS_Injection
<1>7. \A k \in 1..n : \E x \in S : Rank(S, x) = k
  BY <1>6 DEF Surjection
<1>8. \A x \in S : Nth(S, Rank(S, x)) = x
  BY <1>4 DEF Nth
<1>9. \A k \in 1..n : Nth(S, k) \in S /\ Rank(S, Nth(S, k)) = k
  BY <1>7 DEF Nth
<1> QED BY <1>1, <1>2, <1>8, <1>9

--------------------------------------------------------------------------------
(* Rows with ordinals *)

\* Rows whose ordinals are 1 to n come back in the order of a list.
LEMMA OrderedRows ==
  ASSUME NEW n \in Nat, NEW f, f = [i \in 1..n |-> f[i]],
         \A i \in 1..n : f[i].ordinal = i,
         NEW R, R = {f[i] : i \in 1..n}
  PROVE  Cardinality(R) = n /\ IsFiniteSet(R) /\ InOrder(R) = f
<1>1. f \in Bijection(1..n, R)
  <2>1. f \in [1..n -> R]
    OBVIOUS
  <2>2. \A i, j \in 1..n : f[i] = f[j] => i = j
    OBVIOUS
  <2> QED BY <2>1, <2>2 DEF Bijection, Injection, Surjection, IsInjective
<1>2. Cardinality(R) = n /\ IsFiniteSet(R)
  BY <1>1, FS_CountingElements, FS_NatBijection DEF ExistsBijection
<1>3. \A i \in 1..n : (CHOOSE r \in R : r.ordinal = i) = f[i]
  OBVIOUS
<1>4. InOrder(R) = [i \in 1..n |-> f[i]]
  BY <1>2, <1>3 DEF InOrder
<1> QED BY <1>2, <1>4

\* No two elements of a list have the same key.
LEMMA KeysDiffer ==
  ASSUME NEW n \in Nat, NEW ids, NEW i \in 1..n, NEW j \in 1..n, i # j
  PROVE  SequenceKey(ids, i) # SequenceKey(ids, j)
<1>1. ASSUME NEW a \in 1..n, NEW b \in 1..n, a < b
      PROVE  SequenceKey(ids, a) # SequenceKey(ids, b)
  <2> SUFFICES ASSUME ids[a] = ids[b]
               PROVE Cardinality({l \in 1..a - 1 : ids[l] = ids[a]}) # Cardinality({l \in 1..b - 1 : ids[l] = ids[b]})
    BY DEF SequenceKey
  <2> DEFINE T == {l \in 1..a - 1 : ids[l] = ids[a]}  U == {l \in 1..b - 1 : ids[l] = ids[b]}
  <2>1. T \subseteq U /\ a \in U /\ a \notin T
    BY <1>1
  <2>2. IsFiniteSet(U)
    <3>1. IsFiniteSet(1..b - 1)
      BY FS_Interval
    <3> QED BY <3>1, FS_Subset
  <2>3. Cardinality(T) # Cardinality(U)
    <3> HIDE DEF T, U
    <3> QED BY <2>1, <2>2, FS_Subset
  <2> QED BY <2>3
<1> QED BY <1>1

RowsOf(ids, data) ==
  {[key |-> SequenceKey(ids, i), ordinal |-> i, data |-> data[i]] : i \in DOMAIN ids}

Upserted(old, ids, data, i) ==
  {r \in old : r.key # SequenceKey(ids, i)}
    \cup {[key |-> SequenceKey(ids, i), ordinal |-> i, data |-> data[i]]}
Upserts(rows, ids, data) ==
  FoldLeft(LAMBDA old, i : Upserted(old, ids, data, i), rows, [i \in DOMAIN ids |-> i])

\* The upserts of a list, one after the other.
IsUpserts(f, rows, ids, data, n) ==
  /\ f[0] = rows /\ f[n] = Upserts(rows, ids, data)
  /\ \A k \in 1..n : f[k] = Upserted(f[k - 1], ids, data, k)

\* That is what the fold computes, by the least k where it does not.
LEMMA SequenceFold ==
  ASSUME NEW rows, NEW ids, NEW data, NEW n \in Nat, DOMAIN ids = 1..n
  PROVE  \E f : IsUpserts(f, rows, ids, data, n)
<1> DEFINE Value(g, s) ==
             IF s = {} THEN rows ELSE Upserted(g[s \ {Max(s)}], ids, data, Max(s))
           order == [i \in DOMAIN ids |-> i]
           Folded(g, s) ==
             IF s = {} THEN rows ELSE LET x == Max(s) IN Upserted(g[s \ {x}], ids, data, order[x])
           folded == CHOOSE g : g = [s \in SUBSET (DOMAIN order) |-> Folded(g, s)]
<1>1. Upserts(rows, ids, data) = folded[1..n]
  <2>1. Upserts(rows, ids, data) = folded[DOMAIN order]
    BY DEF Upserts, FoldLeft, MapThenFoldSet
  <2> QED BY <2>1
<1>2. \A k \in Nat : \E g : g = [s \in SUBSET (1..k) |-> Value(g, s)]
  <2> DEFINE Bad == {k \in Nat : ~ \E g : g = [s \in SUBSET (1..k) |-> Value(g, s)]}
  <2> SUFFICES Bad = {}
    OBVIOUS
  <2> SUFFICES ASSUME NEW k \in Bad PROVE \E l \in Bad : l < k
    <3>1. Bad \subseteq Nat
      OBVIOUS
    <3> HIDE DEF Bad
    <3> QED BY <3>1, NoneFails
  <2>1. CASE k = 0
    <3> DEFINE g == [s \in SUBSET (1..0) |-> rows]
    <3>1. SUBSET (1..0) = {{}}
      OBVIOUS
    <3>2. \A s \in SUBSET (1..0) : Value(g, s) = rows
      BY <3>1
    <3>3. g = [s \in SUBSET (1..0) |-> Value(g, s)]
      <4> HIDE DEF Value
      <4> QED BY <3>2
    <3> HIDE DEF g, Value
    <3> QED BY <2>1, <3>3
  <2>2. CASE k # 0 /\ k - 1 \notin Bad
    <3>0. k - 1 \in Nat /\ k \in Nat
      BY <2>2
    <3>1. PICK f : f = [s \in SUBSET (1..k - 1) |-> Value(f, s)]
      <4> HIDE DEF Value
      <4> QED BY <2>2, <3>0
    <3> DEFINE g == [s \in SUBSET (1..k) |-> Value(f, s)]
    <3>2. \A s \in SUBSET (1..k) : Value(f, s) = Value(g, s)
      <4> SUFFICES ASSUME NEW s \in SUBSET (1..k), s # {} PROVE Value(f, s) = Value(g, s)
        OBVIOUS
      <4> DEFINE less == s \ {Max(s)}
      <4>1. less \in SUBSET (1..k - 1) /\ less \in SUBSET (1..k)
        <5>1. Max(s) \in 1..k /\ \A y \in s : y \in 1..k /\ Max(s) >= y
          BY <3>0, MaxOfInterval
        <5>2. \A y \in less : y \in 1..k - 1
          BY <3>0, <5>1
        <5> QED BY <5>2
      <4>2. f[less] = Value(f, less) /\ g[less] = Value(f, less)
        <5> HIDE DEF Value, less
        <5> QED BY <3>1, <4>1
      <4> HIDE DEF g
      <4> QED BY <4>2
    <3>3. g = [s \in SUBSET (1..k) |-> Value(g, s)]
      <4> HIDE DEF Value
      <4> QED BY <3>2
    <3>4. k \notin Bad
      <4> HIDE DEF g, Value
      <4> QED BY <3>3
    <3> QED BY <3>4
  <2>3. k \in Nat
    OBVIOUS
  <2> HIDE DEF Bad
  <2> QED BY <2>1, <2>2, <2>3
<1>3. folded = [s \in SUBSET (1..n) |-> Value(folded, s)]
  <2>1. \E g : g = [s \in SUBSET (1..n) |-> Value(g, s)]
    <3>1. n \in Nat
      OBVIOUS
    <3> HIDE DEF Value
    <3> QED BY <1>2, <3>1
  <2>2. \A g : \A s \in SUBSET (1..n) : Folded(g, s) = Value(g, s)
    <3>1. \A s \in SUBSET (1..n) : s # {} => order[Max(s)] = Max(s)
      BY MaxOfInterval
    <3> HIDE DEF order
    <3> QED BY <3>1
  <2>3. DOMAIN order = 1..n
    OBVIOUS
  <2> HIDE DEF Value, Folded, order
  <2>4. PICK g : g = [s \in SUBSET (1..n) |-> Value(g, s)]
    BY <2>1
  <2>5. g = [s \in SUBSET (DOMAIN order) |-> Folded(g, s)]
    BY <2>2, <2>3, <2>4
  <2>6. folded = [s \in SUBSET (DOMAIN order) |-> Folded(folded, s)]
    BY <2>5
  <2> HIDE DEF folded
  <2> QED BY <2>2, <2>3, <2>6
<1> DEFINE f == [k \in 0..n |-> folded[1..k]]
<1>4. f[0] = rows
  <2>1. 1..0 = {} /\ {} \in SUBSET (1..n)
    OBVIOUS
  <2>2. folded[{}] = Value(folded, {})
    <3> HIDE DEF folded, Value
    <3> QED BY <1>3, <2>1
  <2> HIDE DEF folded
  <2> QED BY <2>1, <2>2
<1>5. ASSUME NEW k \in 1..n
      PROVE  f[k] = Upserted(f[k - 1], ids, data, k)
  <2>1. k \in Nat /\ 1..k \in SUBSET (1..n) /\ k \in 1..k /\ 1..k \in SUBSET (1..k)
    OBVIOUS
  <2>2. Max(1..k) = k
    <3>1. Max(1..k) \in 1..k /\ Max(1..k) >= k
      BY <2>1, MaxOfInterval
    <3> QED BY <2>1, <3>1
  <2>3. (1..k) \ {k} = 1..k - 1
    OBVIOUS
  <2>4. folded[1..k] = Value(folded, 1..k)
    <3> HIDE DEF folded, Value
    <3> QED BY <1>3, <2>1
  <2> HIDE DEF folded
  <2>5. f[k - 1] = folded[1..k - 1] /\ f[k] = folded[1..k]
    BY <2>1
  <2>6. 1..k # {}
    BY <2>1
  <2> QED BY <2>2, <2>3, <2>4, <2>5, <2>6
<1> HIDE DEF folded
<1>6. f[n] = folded[1..n]
  OBVIOUS
<1> QED BY <1>1, <1>4, <1>5, <1>6 DEF IsUpserts

\* Whatever rows there were, those of the list are left.
LEMMA SequenceWritten ==
  ASSUME NEW rows, NEW ids, NEW data, NEW n \in Nat, DOMAIN ids = 1..n
  PROVE  WriteSequence(rows, ids, data) = RowsOf(ids, data)
<1> DEFINE row(i) == [key |-> SequenceKey(ids, i), ordinal |-> i, data |-> data[i]]
<1>1. WriteSequence(rows, ids, data) =
        {r \in Upserts(rows, ids, data) : r.key \in {SequenceKey(ids, i) : i \in DOMAIN ids}}
  BY DEF WriteSequence, Upserts, Upserted
<1>2. PICK f : IsUpserts(f, rows, ids, data, n)
  BY SequenceFold
<1> DEFINE Done(k) == {r \in f[k] : r.key \in {SequenceKey(ids, i) : i \in 1..k}} = {row(i) : i \in 1..k}
           Bad == {k \in 0..n : ~Done(k)}
<1>3. Bad = {}
  <2> SUFFICES ASSUME NEW k \in Bad PROVE \E l \in Bad : l < k
    <3>1. Bad \subseteq Nat
      OBVIOUS
    <3> HIDE DEF Bad
    <3> QED BY <3>1, NoneFails
  <2>1. k # 0
    <3>1. 1..0 = {}
      OBVIOUS
    <3>2. Done(0)
      BY <1>2, <3>1 DEF IsUpserts
    <3> HIDE DEF Done
    <3> QED BY <3>2
  <2>2. ASSUME Done(k - 1) PROVE FALSE
    <3> k \in 1..n /\ k - 1 \in 0..n
      BY <2>1
    <3>1. f[k] = {r \in f[k - 1] : r.key # SequenceKey(ids, k)} \cup {row(k)}
      BY <1>2 DEF IsUpserts, Upserted
    <3>2. \A i \in 1..k - 1 : SequenceKey(ids, i) # SequenceKey(ids, k)
      BY KeysDiffer
    <3>3. 1..k = (1..k - 1) \cup {k}
      OBVIOUS
    <3>4. {SequenceKey(ids, i) : i \in 1..k} = {SequenceKey(ids, i) : i \in 1..k - 1} \cup {SequenceKey(ids, k)}
      BY <3>3
    <3>5. {row(i) : i \in 1..k} = {row(i) : i \in 1..k - 1} \cup {row(k)}
      BY <3>3
    <3>6. row(k).key = SequenceKey(ids, k)
      OBVIOUS
    <3>7. SequenceKey(ids, k) \notin {SequenceKey(ids, i) : i \in 1..k - 1}
      BY <3>2
    <3> DEFINE K == {SequenceKey(ids, i) : i \in 1..k - 1}
    <3>8. {r \in f[k] : r.key \in K \cup {SequenceKey(ids, k)}} = {r \in f[k - 1] : r.key \in K} \cup {row(k)}
      <4> DEFINE key == SequenceKey(ids, k)  R == row(k)
      <4>1. f[k] = {r \in f[k - 1] : r.key # key} \cup {R} /\ R.key = key /\ key \notin K
        BY <3>1, <3>6, <3>7
      <4> HIDE DEF row, K, key, R
      <4>2. \A r : (r \in f[k] /\ r.key \in K \cup {key}) <=> ((r \in f[k - 1] /\ r.key \in K) \/ r = R)
        BY <4>1
      <4>3. {r \in f[k] : r.key \in K \cup {key}} = {r \in f[k - 1] : r.key \in K} \cup {R}
        BY <4>2
      <4> QED BY <4>3 DEF key, R
    <3>9. Done(k)
      BY <2>2, <3>4, <3>5, <3>8
    <3> HIDE DEF Done
    <3> QED BY <3>9
  <2>3. k - 1 \in 0..n
    BY <2>1
  <2> HIDE DEF Done
  <2> QED BY <2>2, <2>3
<1>4. Done(n)
  <2> HIDE DEF Done
  <2> QED BY <1>3
<1> QED BY <1>1, <1>2, <1>4 DEF RowsOf, IsUpserts

--------------------------------------------------------------------------------
(* States and rows *)

Auth == ({<<"user">>} \cup {<<d, Slug[n]>> : d \in Device, n \in Name}) \X Nat

Node == [device : Device, name : Name, auth : Auth, uuid : Uuid, dest : {0, 1}]
Row == [id : Nat, device : Device, name : Name, auth : Auth, uuid : Uuid, ordinal : Nat]

StateType ==
  [groups : SUBSET Group, group : Group \cup {NoGroup}, user : BOOLEAN,
   seen : Seq(Moment), nodes : Seq(Node), alerts : Seq(BOOLEAN)]

SameKey(x, y) == x.device = y.device /\ x.name = y.name

\* No two of them have a name on a device, an auth_user or a uuid in common.
Apart(x, y) == ~SameKey(x, y) /\ x.auth # y.auth /\ x.uuid # y.uuid

\* The States commands make
Valid(st) ==
  /\ st \in StateType
  /\ Len(st.nodes) <= MaxNodes
  /\ \A i, j \in DOMAIN st.nodes : i # j => Apart(st.nodes[i], st.nodes[j])
  /\ st.group \in st.groups \cup {NoGroup}
  /\ ~st.user => st.nodes = <<>> /\ st.seen = <<>> /\ st.group = NoGroup

\* A database and what a transaction works on, as records
IsDb(db) ==
  db = [groups |-> db.groups, member |-> db.member, user |-> db.user, seen |-> db.seen,
        nodes |-> db.nodes, alerts |-> db.alerts, dest |-> db.dest, hash |-> db.hash]
IsTx(t) == t = [ok |-> t.ok, db |-> t.db] /\ t.ok \in BOOLEAN /\ IsDb(t.db)

\* Tables other than those of the nodes are as they were.
Beside(db, e) ==
  /\ db.groups = e.groups /\ db.member = e.member /\ db.user = e.user
  /\ db.seen = e.seen /\ db.alerts = e.alerts /\ db.hash = e.hash

NodeRow(n, i, id) ==
  [id |-> id, device |-> n.device, name |-> n.name, auth |-> n.auth, uuid |-> n.uuid, ordinal |-> i]

\* The rows and destination counts of these nodes, whatever ids they have
Stored(rows, dest, nodes) ==
  /\ dest \in [1..Len(nodes) -> {0, 1}]
  /\ \E id \in Injection(1..Len(nodes), 1..Len(nodes)) :
       /\ rows = {NodeRow(nodes[i], i, id[i]) : i \in 1..Len(nodes)}
       /\ \A i \in 1..Len(nodes) : dest[id[i]] = nodes[i].dest

Alike(list) == [i \in DOMAIN list |-> "alert"]

\* The database holds the State whose hash it carries.
Holds(db) ==
  /\ IsDb(db) /\ Valid(db.hash)
  /\ db.groups = db.hash.groups /\ db.member = db.hash.group /\ db.user = db.hash.user
  /\ db.seen = RowsOf(db.hash.seen, db.hash.seen)
  /\ db.alerts = RowsOf(Alike(db.hash.alerts), db.hash.alerts)
  /\ Stored(db.nodes, db.dest, db.hash.nodes)

\* The rows of a list come back in its order.
LEMMA RowsOfRead ==
  ASSUME NEW n \in Nat, NEW ids, DOMAIN ids = 1..n, NEW data
  PROVE  /\ Cardinality(RowsOf(ids, data)) = n
         /\ InOrder(RowsOf(ids, data)) =
              [i \in 1..n |-> [key |-> SequenceKey(ids, i), ordinal |-> i, data |-> data[i]]]
<1> DEFINE f == [i \in 1..n |-> [key |-> SequenceKey(ids, i), ordinal |-> i, data |-> data[i]]]
<1>1. RowsOf(ids, data) = {f[i] : i \in 1..n}
  BY DEF RowsOf
<1>2. f = [i \in 1..n |-> f[i]] /\ \A i \in 1..n : f[i].ordinal = i
  OBVIOUS
<1> HIDE DEF f
<1>3. Cardinality(RowsOf(ids, data)) = n /\ InOrder(RowsOf(ids, data)) = f
  BY <1>1, <1>2, OrderedRows
<1> QED BY <1>3 DEF f

\* Stored nodes are read as the nodes they are.
LEMMA NodesRead ==
  ASSUME NEW nodes \in Seq(Node), NEW db, Stored(db.nodes, db.dest, nodes)
  PROVE  ReadNodes(db) = nodes
<1> DEFINE n == Len(nodes)
<1>1. n \in Nat /\ DOMAIN nodes = 1..n /\ \A i \in 1..n : nodes[i] \in Node
  OBVIOUS
<1>2. PICK id \in Injection(1..n, 1..n) :
        /\ db.nodes = {NodeRow(nodes[i], i, id[i]) : i \in 1..n}
        /\ \A i \in 1..n : db.dest[id[i]] = nodes[i].dest
  BY DEF Stored
<1> DEFINE f == [i \in 1..n |-> NodeRow(nodes[i], i, id[i])]
<1>3. f = [i \in 1..n |-> f[i]] /\ \A i \in 1..n : f[i].ordinal = i
  BY DEF NodeRow
<1>4. db.nodes = {f[i] : i \in 1..n}
  BY <1>2
<1>5. InOrder(db.nodes) = f
  <2> HIDE DEF f
  <2> QED BY <1>1, <1>3, <1>4, OrderedRows
<1> DEFINE g == [i \in 1..n |-> [device |-> f[i].device, name |-> f[i].name, auth |-> f[i].auth,
                                 uuid |-> f[i].uuid, dest |-> db.dest[f[i].id]]]
<1>6. ReadNodes(db) = g
  BY <1>5 DEF ReadNodes
<1>7. \A i \in 1..n : g[i] = nodes[i]
  <2> TAKE i \in 1..n
  <2>1. nodes[i] \in Node
    BY <1>1
  <2>2. g[i] = [device |-> nodes[i].device, name |-> nodes[i].name, auth |-> nodes[i].auth,
                uuid |-> nodes[i].uuid, dest |-> nodes[i].dest]
    BY <1>2 DEF NodeRow
  <2> HIDE DEF g
  <2> QED BY <2>1, <2>2 DEF Node
<1>8. g = [i \in 1..n |-> g[i]] /\ nodes = [i \in 1..n |-> nodes[i]]
  OBVIOUS
<1> HIDE DEF g
<1> QED BY <1>6, <1>7, <1>8

\* Stored samples are read as they were taken.
LEMMA SamplesRead ==
  ASSUME NEW S, NEW list \in Seq(S)
  PROVE  ReadSamples(RowsOf(list, list)) = list
<1>1. Len(list) \in Nat /\ DOMAIN list = 1..Len(list)
  OBVIOUS
<1>2. /\ Cardinality(RowsOf(list, list)) = Len(list)
      /\ InOrder(RowsOf(list, list)) =
           [i \in 1..Len(list) |-> [key |-> SequenceKey(list, i), ordinal |-> i, data |-> list[i]]]
  BY <1>1, RowsOfRead
<1>3. \A i \in 1..Len(list) : SequenceKey(list, i)[1] = list[i]
  BY DEF SequenceKey
<1>4. ReadSamples(RowsOf(list, list)) = [i \in 1..Len(list) |-> SequenceKey(list, i)[1]]
  BY <1>2 DEF ReadSamples
<1>5. ReadSamples(RowsOf(list, list)) = [i \in 1..Len(list) |-> list[i]]
  BY <1>3, <1>4
<1> QED BY <1>5

\* Stored alerts are read as they were raised.
LEMMA AlertsRead ==
  ASSUME NEW S, NEW list \in Seq(S)
  PROVE  ReadAlerts(RowsOf(Alike(list), list)) = list
<1>1. Len(list) \in Nat /\ DOMAIN Alike(list) = 1..Len(list)
  BY DEF Alike
<1>2. /\ Cardinality(RowsOf(Alike(list), list)) = Len(list)
      /\ InOrder(RowsOf(Alike(list), list)) =
           [i \in 1..Len(list) |-> [key |-> SequenceKey(Alike(list), i), ordinal |-> i, data |-> list[i]]]
  BY <1>1, RowsOfRead
<1>3. ReadAlerts(RowsOf(Alike(list), list)) = [i \in 1..Len(list) |-> list[i]]
  BY <1>2 DEF ReadAlerts
<1> QED BY <1>3

\* What a database holds is what a reader finds.
LEMMA HeldIsRead ==
  ASSUME NEW db, Holds(db)
  PROVE  Read(db) = db.hash
<1>1. db.hash \in StateType
  BY DEF Holds, Valid
<1>2. db.hash.nodes \in Seq(Node) /\ db.hash.seen \in Seq(Moment) /\ db.hash.alerts \in Seq(BOOLEAN)
  BY <1>1 DEF StateType
<1>3. ReadNodes(db) = db.hash.nodes
  BY <1>2, NodesRead DEF Holds
<1>4. ReadSamples(db.seen) = db.hash.seen
  BY <1>2, SamplesRead DEF Holds
<1>5. ReadAlerts(db.alerts) = db.hash.alerts
  BY <1>2, AlertsRead DEF Holds
<1>6. Read(db) = [groups |-> db.hash.groups, group |-> db.hash.group, user |-> db.hash.user,
                  nodes |-> db.hash.nodes, seen |-> db.hash.seen, alerts |-> db.hash.alerts]
  BY <1>3, <1>4, <1>5 DEF Read, ReadGroups, Holds
<1> QED BY <1>1, <1>6 DEF StateType

\* A new database holds the State that names nothing.
LEMMA EmptyHolds == Holds(Empty)
<1>1. Absent \in StateType /\ Absent.nodes = <<>> /\ Absent.seen = <<>> /\ Absent.alerts = <<>>
  BY DEF Absent, StateType
<1>2. Valid(Absent)
  BY <1>1, RowsAssumption DEF Valid, Absent
<1>3. \A ids, data : ids = <<>> => RowsOf(ids, data) = {}
  BY DEF RowsOf
<1>4. Alike(<<>>) = <<>>
  BY DEF Alike
<1>5. Stored({}, <<>>, <<>>)
  <2>1. <<>> \in Injection(1..0, 1..0)
    BY DEF Injection, IsInjective
  <2> QED BY <2>1 DEF Stored
<1> QED BY <1>1, <1>2, <1>3, <1>4, <1>5 DEF Holds, IsDb, Empty, Absent

--------------------------------------------------------------------------------
(* Writing the nodes *)

Named(rows, n) == {r \in rows : SameKey(r, n)}
Renamed(rows, n) == {r \in rows : r.device = n.device /\ r.auth = n.auth /\ r.uuid = n.uuid /\ r.name # n.name}

\* The rows after a rename and an upsert
AfterRename(rows, n) ==
  (rows \ Renamed(rows, n)) \cup {[r EXCEPT !.name = n.name] : r \in Renamed(rows, n)}
IdOf(rows, dest, n) ==
  IF Named(rows, n) = {} THEN 1 + Cardinality(DOMAIN dest) ELSE (CHOOSE r \in Named(rows, n) : TRUE).id
AfterUpsert(rows, dest, n, i) ==
  (rows \ Named(rows, n)) \cup {NodeRow(n, i, IdOf(rows, dest, n))}
DestOf(rows, dest, n) == IF Named(rows, n) = {} THEN Append(dest, 0) ELSE dest

Changed(db, rows, dest) == [db EXCEPT !.nodes = rows, !.dest = dest]

\* A database with other nodes and counts is one still.
LEMMA ChangedIsDb ==
  ASSUME NEW db, IsDb(db), NEW rows, NEW dest
  PROVE  LET e == Changed(db, rows, dest)
         IN  IsDb(e) /\ Beside(e, db) /\ e.nodes = rows /\ e.dest = dest
<1> DEFINE e == Changed(db, rows, dest)
<1> DEFINE d == [db EXCEPT !.nodes = rows]
<1>1. IsDb(d) /\ Beside(d, db) /\ d.nodes = rows
  BY DEF IsDb, Beside
<1>2. e = [d EXCEPT !.dest = dest]
  BY DEF Changed
<1> HIDE DEF d, e
<1>3. IsDb(e) /\ Beside(e, d) /\ e.nodes = d.nodes /\ e.dest = dest
  BY <1>1, <1>2 DEF IsDb, Beside
<1>4. IsDb(e) /\ Beside(e, db) /\ e.nodes = rows /\ e.dest = dest
  BY <1>1, <1>3 DEF Beside
<1> QED BY <1>4 DEF e

\* What a transaction works on, put together.
LEMMA Pair ==
  ASSUME NEW ok \in BOOLEAN, NEW db, IsDb(db), NEW t, t = [ok |-> ok, db |-> db]
  PROVE  IsTx(t) /\ t.ok = ok /\ t.db = db
BY DEF IsTx

\* What Rename does: it fails where the name is taken, and changes no more than
\* the name of a row.
LEMMA RenameDoes ==
  ASSUME NEW t, IsTx(t), NEW n, t.ok
  PROVE  LET u == Rename(t, n)
         IN  /\ IsTx(u) /\ Beside(u.db, t.db) /\ u.db.dest = t.db.dest
             /\ u.db.nodes = AfterRename(t.db.nodes, n)
             /\ u.ok <=> Renamed(t.db.nodes, n) = {} \/ Named(t.db.nodes, n) = {}
<1> DEFINE same == {r \in t.db.nodes : r.device = n.device /\ r.auth = n.auth /\ r.uuid = n.uuid /\ r.name # n.name}
           taken == \E r \in t.db.nodes : r.device = n.device /\ r.name = n.name
           after == (t.db.nodes \ same) \cup {[r EXCEPT !.name = n.name] : r \in same}
<1>1. same = Renamed(t.db.nodes, n) /\ (taken <=> Named(t.db.nodes, n) # {}) /\ after = AfterRename(t.db.nodes, n)
  BY DEF Renamed, Named, SameKey, AfterRename
<1>2. CASE same = {}
  <2>1. Rename(t, n) = t
    BY <1>2 DEF Rename
  <2>2. AfterRename(t.db.nodes, n) = t.db.nodes
    BY <1>1, <1>2 DEF AfterRename
  <2> QED BY <1>1, <1>2, <2>1, <2>2 DEF Beside
<1>3. CASE same # {}
  <2>1. Rename(t, n) = [ok |-> ~taken, db |-> [t.db EXCEPT !.nodes = after]]
    BY <1>3 DEF Rename
  <2>2. taken \in BOOLEAN
    OBVIOUS
  <2> DEFINE e == [t.db EXCEPT !.nodes = after]
  <2> HIDE DEF same, taken, after
  <2>3. IsDb(e) /\ Beside(e, t.db) /\ e.dest = t.db.dest /\ e.nodes = after
    BY DEF IsTx, IsDb, Beside
  <2>4. Rename(t, n) = [ok |-> ~taken, db |-> e]
    BY <2>1
  <2> DEFINE ok == ~taken
  <2>5. ok \in BOOLEAN /\ Rename(t, n) = [ok |-> ok, db |-> e]
    BY <2>2, <2>4
  <2> HIDE DEF e, ok
  <2>6. IsTx(Rename(t, n)) /\ Rename(t, n).db = e /\ Rename(t, n).ok = ok
    BY <2>3, <2>5, Pair
  <2>7. Rename(t, n).ok <=> Named(t.db.nodes, n) = {}
    BY <1>1, <2>6 DEF ok
  <2> QED BY <1>1, <1>3, <2>3, <2>6, <2>7
<1> QED BY <1>2, <1>3

\* What Upsert does: it fails where another row has the auth_user or the uuid.
LEMMA UpsertDoes ==
  ASSUME NEW t, IsTx(t), NEW n, NEW i
  PROVE  LET u == Upsert(t, n, i)
         IN  /\ IsTx(u) /\ Beside(u.db, t.db)
             /\ u.db.nodes = AfterUpsert(t.db.nodes, t.db.dest, n, i)
             /\ u.db.dest = DestOf(t.db.nodes, t.db.dest, n)
             /\ u.ok <=> t.ok /\ \A r \in t.db.nodes \ Named(t.db.nodes, n) : r.auth # n.auth /\ r.uuid # n.uuid
<1> DEFINE old == Named(t.db.nodes, n)
           id == IF old = {} THEN NewId(t.db) ELSE (CHOOSE r \in old : TRUE).id
           unique == \A r \in t.db.nodes \ old : r.auth # n.auth /\ r.uuid # n.uuid
           rows == (t.db.nodes \ old) \cup {NodeRow(n, i, id)}
           dest == IF old = {} THEN Append(t.db.dest, 0) ELSE t.db.dest
<1>0. IsDb(t.db) /\ t.ok \in BOOLEAN
  BY DEF IsTx
<1>1. old = Named(t.db.nodes, n)
  OBVIOUS
<1>2. id = IdOf(t.db.nodes, t.db.dest, n) /\ dest = DestOf(t.db.nodes, t.db.dest, n)
  BY DEF IdOf, DestOf, NewId
<1>3. rows = AfterUpsert(t.db.nodes, t.db.dest, n, i)
  BY <1>1, <1>2 DEF AfterUpsert
<1>4. Upsert(t, n, i) = [ok |-> t.ok /\ unique, db |-> [t.db EXCEPT !.nodes = rows, !.dest = dest]]
  BY DEF Upsert, NodeRow, Named, SameKey
<1>5. (t.ok /\ unique) \in BOOLEAN
  OBVIOUS
<1>6. unique <=> \A r \in t.db.nodes \ Named(t.db.nodes, n) : r.auth # n.auth /\ r.uuid # n.uuid
  BY <1>1
<1> HIDE DEF old, id, unique, rows, dest
<1> DEFINE e == [t.db EXCEPT !.nodes = rows, !.dest = dest]
<1>7. IsDb(e) /\ Beside(e, t.db) /\ e.dest = dest /\ e.nodes = rows
  <2>1. e = Changed(t.db, rows, dest)
    BY DEF Changed
  <2> HIDE DEF e
  <2> QED BY <1>0, <2>1, ChangedIsDb
<1> DEFINE ok == t.ok /\ unique
<1>8. ok \in BOOLEAN /\ Upsert(t, n, i) = [ok |-> ok, db |-> e]
  BY <1>4, <1>5
<1> HIDE DEF e, ok
<1>9. IsTx(Upsert(t, n, i)) /\ Upsert(t, n, i).db = e /\ Upsert(t, n, i).ok = ok
  BY <1>7, <1>8, Pair
<1>10. Upsert(t, n, i).ok <=> t.ok /\ unique
  BY <1>9 DEF ok
<1> QED BY <1>2, <1>3, <1>6, <1>7, <1>9, <1>10

\* The rows a transaction finds: no two have an id, a name on a device, an
\* auth_user or a uuid in common.
Table(rows, dest) ==
  /\ rows \subseteq Row /\ dest \in Seq({0, 1})
  /\ \A r \in rows : r.id \in 1..Len(dest)
  /\ \A r, q \in rows : r # q => r.id # q.id /\ Apart(r, q)

\* The first k nodes are written.
Written(rows, st, k) == \A j \in 1..k : \E r \in rows : r = NodeRow(st.nodes[j], j, r.id)

\* The rows have the ids, names and counts they had.
Kept(rows, dest, rows0, dest0) ==
  /\ dest = dest0
  /\ \A r \in rows : \E q \in rows0 : q.id = r.id /\ SameKey(q, r)
  /\ \A q \in rows0 : \E r \in rows : q.id = r.id /\ SameKey(q, r)

\* The unique columns stay unique through a rename.
LEMMA RenameKeepsTable ==
  ASSUME NEW rows, NEW dest, Table(rows, dest), NEW n \in Node,
         Renamed(rows, n) = {} \/ Named(rows, n) = {}
  PROVE  Table(AfterRename(rows, n), dest)
<1>1. CASE Renamed(rows, n) = {}
  <2>1. AfterRename(rows, n) = rows
    BY <1>1 DEF AfterRename
  <2> QED BY <2>1
<1>2. CASE Renamed(rows, n) # {} /\ Named(rows, n) = {}
  <2>1. PICK r \in rows : r \in Renamed(rows, n)
    BY <1>2 DEF Renamed
  <2>2. Renamed(rows, n) = {r}
    BY <2>1 DEF Renamed, Table, Apart
  <2> DEFINE x == [r EXCEPT !.name = n.name]
  <2>3. AfterRename(rows, n) = (rows \ {r}) \cup {x}
    BY <2>2 DEF AfterRename
  <2>4. /\ x \in Row /\ x.id = r.id /\ x.device = r.device /\ x.auth = r.auth /\ x.uuid = r.uuid /\ x.name = n.name
        /\ r.device = n.device
    BY <2>1 DEF Table, Row, Node, Renamed
  <2>5. \A q \in rows \ {r} : q.id # x.id /\ Apart(q, x) /\ Apart(x, q)
    BY <1>2, <2>1, <2>4 DEF Table, Apart, SameKey, Named
  <2> HIDE DEF x
  <2> QED BY <2>1, <2>3, <2>4, <2>5 DEF Table
<1> QED BY <1>1, <1>2

\* The unique columns stay unique through an upsert.
LEMMA UpsertKeepsTable ==
  ASSUME NEW rows, NEW dest, Table(rows, dest), NEW n \in Node, NEW i \in Nat,
         \A r \in rows \ Named(rows, n) : r.auth # n.auth /\ r.uuid # n.uuid
  PROVE  Table(AfterUpsert(rows, dest, n, i), DestOf(rows, dest, n))
<1> DEFINE id == IdOf(rows, dest, n)  x == NodeRow(n, i, id)
<1>0. Len(dest) \in Nat /\ DOMAIN dest = 1..Len(dest)
  BY DEF Table
<1>1. /\ DestOf(rows, dest, n) \in Seq({0, 1}) /\ Len(DestOf(rows, dest, n)) \in Nat
      /\ id \in 1..Len(DestOf(rows, dest, n)) /\ Len(DestOf(rows, dest, n)) >= Len(dest)
      /\ \A r \in rows \ Named(rows, n) : r.id # id
  <2>1. CASE Named(rows, n) = {}
    <3>1. Cardinality(DOMAIN dest) = Len(dest)
      BY <1>0, FS_Interval
    <3>2. id = Len(dest) + 1 /\ DestOf(rows, dest, n) = Append(dest, 0)
      BY <1>0, <2>1, <3>1 DEF IdOf, DestOf
    <3>3. Append(dest, 0) \in Seq({0, 1}) /\ Len(Append(dest, 0)) = Len(dest) + 1
      BY DEF Table
    <3>4. \A r \in rows : r.id \in 1..Len(dest)
      BY DEF Table
    <3> QED BY <1>0, <3>2, <3>3, <3>4
  <2>2. CASE Named(rows, n) # {}
    <3> DEFINE o == CHOOSE r \in Named(rows, n) : TRUE
    <3>1. o \in Named(rows, n) /\ id = o.id /\ DestOf(rows, dest, n) = dest
      BY <2>2 DEF IdOf, DestOf
    <3>2. o \in rows
      BY <3>1 DEF Named
    <3> HIDE DEF o, id
    <3> QED BY <1>0, <3>1, <3>2 DEF Table
  <2> QED BY <2>1, <2>2
<1>2. /\ x \in Row /\ x.id = id /\ x.device = n.device /\ x.name = n.name
      /\ x.auth = n.auth /\ x.uuid = n.uuid
  <2>1. id \in Nat
    BY <1>1
  <2> HIDE DEF id
  <2> QED BY <2>1 DEF NodeRow, Row, Node
<1>3. \A r \in rows \ Named(rows, n) : r.id # x.id /\ Apart(r, x) /\ Apart(x, r)
  <2> HIDE DEF x, id
  <2> QED BY <1>1, <1>2 DEF Apart, SameKey, Named
<1>4. AfterUpsert(rows, dest, n, i) = (rows \ Named(rows, n)) \cup {x}
  BY DEF AfterUpsert
<1> DEFINE rest == rows \ Named(rows, n)  dest1 == DestOf(rows, dest, n)
<1>5. \A r \in rest : r \in Row /\ r.id \in 1..Len(dest1)
  <2>1. \A r \in rest : r \in Row /\ r.id \in 1..Len(dest)
    BY DEF Table
  <2> HIDE DEF rest, dest1
  <2>2. Len(dest1) \in Nat /\ Len(dest1) >= Len(dest)
    BY <1>1 DEF dest1
  <2> QED BY <1>0, <2>1, <2>2
<1>6. \A r, q \in rest : r # q => r.id # q.id /\ Apart(r, q)
  BY DEF Table
<1>7. \A r \in rest : r.id # x.id /\ Apart(r, x) /\ Apart(x, r)
  BY <1>3
<1>8. x.id \in 1..Len(dest1) /\ dest1 \in Seq({0, 1})
  BY <1>1, <1>2
<1> HIDE DEF x, id, rest, dest1
<1>9. Table(rest \cup {x}, dest1)
  BY <1>2, <1>5, <1>6, <1>7, <1>8 DEF Table
<1> QED BY <1>4, <1>9 DEF rest, dest1

\* The row of a node that is written stays while others are.
LEMMA NodeWritten ==
  ASSUME NEW st, Valid(st), NEW k \in 1..Len(st.nodes),
         NEW rows, NEW dest, Table(rows, dest), Written(rows, st, k - 1),
         Renamed(rows, st.nodes[k]) = {} \/ Named(rows, st.nodes[k]) = {}
  PROVE  Written(AfterUpsert(AfterRename(rows, st.nodes[k]), dest, st.nodes[k], k), st, k)
<1> DEFINE n == st.nodes[k]  middle == AfterRename(rows, n)  after == AfterUpsert(middle, dest, n, k)
<1>0. st.nodes \in Seq(Node) /\ DOMAIN st.nodes = 1..Len(st.nodes) /\ Len(st.nodes) \in Nat
  BY DEF Valid, StateType
<1>1. ASSUME NEW j \in 1..k, j # k
      PROVE  \E r \in after : r = NodeRow(st.nodes[j], j, r.id)
  <2>1. j \in 1..k - 1 /\ j \in DOMAIN st.nodes /\ k \in DOMAIN st.nodes
    BY <1>0, <1>1
  <2>2. PICK r \in rows : r = NodeRow(st.nodes[j], j, r.id)
    BY <2>1 DEF Written
  <2>3. Apart(st.nodes[j], n)
    BY <1>1, <2>1 DEF Valid
  <2>4. r.uuid = st.nodes[j].uuid /\ SameKey(r, st.nodes[j])
    BY <2>2 DEF NodeRow, SameKey
  <2>5. r \in middle
    BY <2>3, <2>4 DEF AfterRename, Renamed, Apart
  <2>6. r \in after
    BY <2>3, <2>4, <2>5 DEF AfterUpsert, Named, Apart, SameKey
  <2> QED BY <2>2, <2>6
<1>2. \E r \in after : r = NodeRow(n, k, r.id)
  <2>1. \A id : NodeRow(n, k, id).id = id
    BY DEF NodeRow
  <2>2. NodeRow(n, k, IdOf(middle, dest, n)) \in after
    BY DEF AfterUpsert
  <2> HIDE DEF after, n, middle
  <2> QED BY <2>1, <2>2
<1> QED BY <1>1, <1>2 DEF Written

\* A node that has a row keeps the id and the count of it.
LEMMA NodeKept ==
  ASSUME NEW st, NEW n \in Node, NEW i,
         NEW rows, NEW dest, Table(rows, dest), NEW rows0, NEW dest0, Kept(rows, dest, rows0, dest0),
         Renamed(rows, n) = {}, \E q \in rows0 : SameKey(q, n)
  PROVE  Kept(AfterUpsert(AfterRename(rows, n), dest, n, i),
              DestOf(AfterRename(rows, n), dest, n), rows0, dest0)
<1>1. AfterRename(rows, n) = rows
  BY DEF AfterRename
<1>2. PICK q \in rows0 : SameKey(q, n)
  OBVIOUS
<1>3. PICK o \in rows : q.id = o.id /\ SameKey(q, o)
  BY DEF Kept
<1>4. SameKey(o, n)
  BY <1>2, <1>3 DEF SameKey
<1>5. Named(rows, n) = {o}
  BY <1>4 DEF Named, Table, Apart, SameKey
<1>6. IdOf(rows, dest, n) = o.id /\ DestOf(rows, dest, n) = dest
  BY <1>5 DEF IdOf, DestOf
<1> DEFINE x == NodeRow(n, i, o.id)
<1>7. AfterUpsert(rows, dest, n, i) = (rows \ {o}) \cup {x}
  BY <1>5, <1>6 DEF AfterUpsert
<1>8. x.id = o.id /\ SameKey(o, x) /\ q.id = x.id /\ SameKey(q, x)
  BY <1>2, <1>3, <1>4 DEF NodeRow, SameKey
<1> DEFINE after == (rows \ {o}) \cup {x}
<1>9. \A r \in after : \E p \in rows0 : p.id = r.id /\ SameKey(p, r)
  <2> HIDE DEF x
  <2> QED BY <1>8 DEF Kept
<1>10. \A p \in rows0 : \E r \in after : p.id = r.id /\ SameKey(p, r)
  <2> TAKE p \in rows0
  <2>1. PICK r \in rows : p.id = r.id /\ SameKey(p, r)
    BY DEF Kept
  <2>2. CASE r = o
    <3>1. p.id = x.id /\ SameKey(p, x)
      BY <1>8, <2>1, <2>2 DEF SameKey
    <3> HIDE DEF x
    <3> QED BY <3>1
  <2>3. CASE r # o
    BY <2>1, <2>3
  <2> QED BY <2>2, <2>3
<1> HIDE DEF after
<1>11. Kept(after, dest, rows0, dest0)
  BY <1>9, <1>10 DEF Kept
<1> QED BY <1>1, <1>6, <1>7, <1>11 DEF after

\* No row stands in the way of the nodes after the first k: a row is the node's
\* own, or has nothing unique of it, or differs from it in a name that is free.
Clear(rows, st, k) ==
  \A j \in k + 1..Len(st.nodes) : \A r \in rows :
    LET n == st.nodes[j]
    IN  \/ SameKey(r, n)
        \/ r.auth # n.auth /\ r.uuid # n.uuid
        \/ /\ r.device = n.device /\ r.auth = n.auth /\ r.uuid = n.uuid
           /\ \A q \in rows : ~SameKey(q, n)

\* A node with nothing in its way is accepted, and is in the way of none that
\* follows.
LEMMA NodeAccepted ==
  ASSUME NEW st, Valid(st), NEW k \in 1..Len(st.nodes),
         NEW rows, NEW dest, Table(rows, dest), Clear(rows, st, k - 1)
  PROVE  LET n == st.nodes[k]
             middle == AfterRename(rows, n)
         IN  /\ Renamed(rows, n) = {} \/ Named(rows, n) = {}
             /\ \A r \in middle \ Named(middle, n) : r.auth # n.auth /\ r.uuid # n.uuid
             /\ Clear(AfterUpsert(middle, dest, n, k), st, k)
<1> DEFINE n == st.nodes[k]  middle == AfterRename(rows, n)  after == AfterUpsert(middle, dest, n, k)
<1>0. /\ st.nodes \in Seq(Node) /\ DOMAIN st.nodes = 1..Len(st.nodes) /\ Len(st.nodes) \in Nat
      /\ k \in k - 1 + 1..Len(st.nodes)
  BY DEF Valid, StateType
<1>1. \A r \in rows :
        \/ SameKey(r, n)
        \/ r.auth # n.auth /\ r.uuid # n.uuid
        \/ /\ r.device = n.device /\ r.auth = n.auth /\ r.uuid = n.uuid
           /\ \A q \in rows : ~SameKey(q, n)
  BY <1>0 DEF Clear
<1>2. Renamed(rows, n) = {} \/ Named(rows, n) = {}
  BY <1>1 DEF Renamed, Named, SameKey
<1>3. ASSUME NEW r \in middle, ~SameKey(r, n)
      PROVE  r.auth # n.auth /\ r.uuid # n.uuid /\ r \in rows
  <2>1. r \in rows /\ r \notin Renamed(rows, n)
    <3> SUFFICES ASSUME NEW q \in Renamed(rows, n), r = [q EXCEPT !.name = n.name] PROVE FALSE
      BY DEF AfterRename
    <3>1. q \in Row /\ q.device = n.device
      BY DEF Renamed, Table
    <3>2. r.name = n.name /\ r.device = n.device
      BY <3>1 DEF Row
    <3> QED BY <1>3, <3>2 DEF SameKey
  <2> QED BY <1>1, <1>3, <2>1 DEF Renamed, SameKey
<1>4. ASSUME NEW j \in k + 1..Len(st.nodes), NEW r \in after
      PROVE  LET m == st.nodes[j]
             IN  \/ SameKey(r, m)
                 \/ r.auth # m.auth /\ r.uuid # m.uuid
                 \/ /\ r.device = m.device /\ r.auth = m.auth /\ r.uuid = m.uuid
                    /\ \A q \in after : ~SameKey(q, m)
  <2> DEFINE m == st.nodes[j]  x == NodeRow(n, k, IdOf(middle, dest, n))
  <2>1. j \in k - 1 + 1..Len(st.nodes) /\ j # k /\ j \in DOMAIN st.nodes /\ k \in DOMAIN st.nodes
    BY <1>0
  <2>2. Apart(n, m)
    BY <2>1 DEF Valid
  <2>3. x.device = n.device /\ x.name = n.name /\ x.auth = n.auth /\ x.uuid = n.uuid
    BY DEF NodeRow
  <2>4. \A q \in after : q = x \/ (q \in middle /\ ~SameKey(q, n))
    <3>1. after = (middle \ Named(middle, n)) \cup {x}
      BY DEF AfterUpsert
    <3> HIDE DEF after, x, middle
    <3> QED BY <3>1 DEF Named
  <2>5. \A q \in after : q = x \/ q \in rows
    BY <1>3, <2>4
  <2>6. ~SameKey(x, m) /\ x.auth # m.auth /\ x.uuid # m.uuid
    BY <2>2, <2>3 DEF Apart, SameKey
  <2>7. CASE r = x
    BY <2>6, <2>7
  <2>8. CASE r \in rows
    <3>1. \/ SameKey(r, m)
          \/ r.auth # m.auth /\ r.uuid # m.uuid
          \/ /\ r.device = m.device /\ r.auth = m.auth /\ r.uuid = m.uuid
             /\ \A q \in rows : ~SameKey(q, m)
      BY <2>1, <2>8 DEF Clear
    <3>2. (\A q \in rows : ~SameKey(q, m)) => \A q \in after : ~SameKey(q, m)
      <4> HIDE DEF x, m, after
      <4> QED BY <2>5, <2>6
    <3> QED BY <3>1, <3>2
  <2> QED BY <2>5, <2>7, <2>8
<1> HIDE DEF after, middle
<1>5. Clear(after, st, k)
  BY <1>4 DEF Clear
<1>6. \A r \in middle \ Named(middle, n) : r.auth # n.auth /\ r.uuid # n.uuid
  BY <1>3 DEF Named
<1> QED BY <1>2, <1>5, <1>6 DEF after, middle

\* The nodes are written one after the other.
IsNodeWrites(f, st, t, n) ==
  /\ f[0] = t /\ f[n] = WriteNodes(st, t)
  /\ \A k \in 1..n : f[k] = WriteNode(st, f[k - 1], k)

\* That is what the fold computes, by the least k where it does not.
LEMMA NodesFold ==
  ASSUME NEW st, NEW t, NEW n \in Nat, DOMAIN st.nodes = 1..n
  PROVE  \E f : IsNodeWrites(f, st, t, n)
<1> DEFINE Value(g, s) ==
             IF s = {} THEN t ELSE WriteNode(st, g[s \ {Max(s)}], Max(s))
           order == [i \in DOMAIN st.nodes |-> i]
           Folded(g, s) ==
             IF s = {} THEN t ELSE LET x == Max(s) IN WriteNode(st, g[s \ {x}], order[x])
           folded == CHOOSE g : g = [s \in SUBSET (DOMAIN order) |-> Folded(g, s)]
<1>1. WriteNodes(st, t) = folded[1..n]
  <2>1. WriteNodes(st, t) = folded[DOMAIN order]
    BY DEF WriteNodes, FoldLeft, MapThenFoldSet
  <2> QED BY <2>1
<1>2. \A k \in Nat : \E g : g = [s \in SUBSET (1..k) |-> Value(g, s)]
  <2> DEFINE Bad == {k \in Nat : ~ \E g : g = [s \in SUBSET (1..k) |-> Value(g, s)]}
  <2> SUFFICES Bad = {}
    OBVIOUS
  <2> SUFFICES ASSUME NEW k \in Bad PROVE \E l \in Bad : l < k
    <3>1. Bad \subseteq Nat
      OBVIOUS
    <3> HIDE DEF Bad
    <3> QED BY <3>1, NoneFails
  <2>1. CASE k = 0
    <3> DEFINE g == [s \in SUBSET (1..0) |-> t]
    <3>1. SUBSET (1..0) = {{}}
      OBVIOUS
    <3>2. \A s \in SUBSET (1..0) : Value(g, s) = t
      BY <3>1
    <3>3. g = [s \in SUBSET (1..0) |-> Value(g, s)]
      <4> HIDE DEF Value
      <4> QED BY <3>2
    <3> HIDE DEF g, Value
    <3> QED BY <2>1, <3>3
  <2>2. CASE k # 0 /\ k - 1 \notin Bad
    <3>0. k - 1 \in Nat /\ k \in Nat
      BY <2>2
    <3>1. PICK f : f = [s \in SUBSET (1..k - 1) |-> Value(f, s)]
      <4> HIDE DEF Value
      <4> QED BY <2>2, <3>0
    <3> DEFINE g == [s \in SUBSET (1..k) |-> Value(f, s)]
    <3>2. \A s \in SUBSET (1..k) : Value(f, s) = Value(g, s)
      <4> SUFFICES ASSUME NEW s \in SUBSET (1..k), s # {} PROVE Value(f, s) = Value(g, s)
        OBVIOUS
      <4> DEFINE less == s \ {Max(s)}
      <4>1. less \in SUBSET (1..k - 1) /\ less \in SUBSET (1..k)
        <5>1. Max(s) \in 1..k /\ \A y \in s : y \in 1..k /\ Max(s) >= y
          BY <3>0, MaxOfInterval
        <5>2. \A y \in less : y \in 1..k - 1
          BY <3>0, <5>1
        <5> QED BY <5>2
      <4>2. f[less] = Value(f, less) /\ g[less] = Value(f, less)
        <5> HIDE DEF Value, less
        <5> QED BY <3>1, <4>1
      <4> HIDE DEF g
      <4> QED BY <4>2
    <3>3. g = [s \in SUBSET (1..k) |-> Value(g, s)]
      <4> HIDE DEF Value
      <4> QED BY <3>2
    <3>4. k \notin Bad
      <4> HIDE DEF g, Value
      <4> QED BY <3>3
    <3> QED BY <3>4
  <2>3. k \in Nat
    OBVIOUS
  <2> HIDE DEF Bad
  <2> QED BY <2>1, <2>2, <2>3
<1>3. folded = [s \in SUBSET (1..n) |-> Value(folded, s)]
  <2>1. \E g : g = [s \in SUBSET (1..n) |-> Value(g, s)]
    <3>1. n \in Nat
      OBVIOUS
    <3> HIDE DEF Value
    <3> QED BY <1>2, <3>1
  <2>2. \A g : \A s \in SUBSET (1..n) : Folded(g, s) = Value(g, s)
    <3>1. \A s \in SUBSET (1..n) : s # {} => order[Max(s)] = Max(s)
      BY MaxOfInterval
    <3> HIDE DEF order
    <3> QED BY <3>1
  <2>3. DOMAIN order = 1..n
    OBVIOUS
  <2> HIDE DEF Value, Folded, order
  <2>4. PICK g : g = [s \in SUBSET (1..n) |-> Value(g, s)]
    BY <2>1
  <2>5. g = [s \in SUBSET (DOMAIN order) |-> Folded(g, s)]
    BY <2>2, <2>3, <2>4
  <2>6. folded = [s \in SUBSET (DOMAIN order) |-> Folded(folded, s)]
    BY <2>5
  <2> HIDE DEF folded
  <2> QED BY <2>2, <2>3, <2>6
<1> DEFINE f == [k \in 0..n |-> folded[1..k]]
<1>4. f[0] = t
  <2>1. 1..0 = {} /\ {} \in SUBSET (1..n)
    OBVIOUS
  <2>2. folded[{}] = Value(folded, {})
    <3> HIDE DEF folded, Value
    <3> QED BY <1>3, <2>1
  <2> HIDE DEF folded
  <2> QED BY <2>1, <2>2
<1>5. ASSUME NEW k \in 1..n
      PROVE  f[k] = WriteNode(st, f[k - 1], k)
  <2>1. k \in Nat /\ 1..k \in SUBSET (1..n) /\ k \in 1..k /\ 1..k \in SUBSET (1..k)
    OBVIOUS
  <2>2. Max(1..k) = k
    <3>1. Max(1..k) \in 1..k /\ Max(1..k) >= k
      BY <2>1, MaxOfInterval
    <3> QED BY <2>1, <3>1
  <2>3. (1..k) \ {k} = 1..k - 1
    OBVIOUS
  <2>4. folded[1..k] = Value(folded, 1..k)
    <3> HIDE DEF folded, Value
    <3> QED BY <1>3, <2>1
  <2> HIDE DEF folded
  <2>5. f[k - 1] = folded[1..k - 1] /\ f[k] = folded[1..k]
    BY <2>1
  <2>6. 1..k # {}
    BY <2>1
  <2> QED BY <2>2, <2>3, <2>4, <2>5, <2>6
<1> HIDE DEF folded
<1>6. f[n] = folded[1..n]
  OBVIOUS
<1> QED BY <1>1, <1>4, <1>5, <1>6 DEF IsNodeWrites

\* What the nodes' statements do: if none fails, every node has its row, and
\* where all had one before, rows keep ids and counts.
LEMMA NodesWritten ==
  ASSUME NEW st, Valid(st), NEW t, IsTx(t), Table(t.db.nodes, t.db.dest)
  PROVE  LET u == WriteNodes(st, t)
         IN  /\ IsTx(u) /\ Beside(u.db, t.db)
             /\ u.ok => /\ t.ok /\ Table(u.db.nodes, u.db.dest)
                        /\ Written(u.db.nodes, st, Len(st.nodes))
                        /\ (\A i \in 1..Len(st.nodes) : \E q \in t.db.nodes : SameKey(q, st.nodes[i]))
                             => Kept(u.db.nodes, u.db.dest, t.db.nodes, t.db.dest)
             /\ t.ok /\ Clear(t.db.nodes, st, 0) => u.ok
<1> DEFINE n == Len(st.nodes)
           known == \A i \in 1..n : \E q \in t.db.nodes : SameKey(q, st.nodes[i])
           clear == t.ok /\ Clear(t.db.nodes, st, 0)
           Good(v, k) ==
             /\ IsTx(v) /\ Beside(v.db, t.db)
             /\ v.ok => /\ t.ok /\ Table(v.db.nodes, v.db.dest) /\ Written(v.db.nodes, st, k)
                        /\ known => Kept(v.db.nodes, v.db.dest, t.db.nodes, t.db.dest)
             /\ clear => v.ok /\ Clear(v.db.nodes, st, k)
<1>1. n \in Nat /\ DOMAIN st.nodes = 1..n /\ \A i \in 1..n : st.nodes[i] \in Node
  BY DEF Valid, StateType
<1>2. PICK f : IsNodeWrites(f, st, t, n)
  BY <1>1, NodesFold
<1>3. Good(f[0], 0)
  <2>1. f[0] = t
    BY <1>2 DEF IsNodeWrites
  <2>2. Beside(t.db, t.db) /\ Kept(t.db.nodes, t.db.dest, t.db.nodes, t.db.dest) /\ Written(t.db.nodes, st, 0)
    BY DEF Beside, Kept, SameKey, Written
  <2> QED BY <2>1, <2>2
<1>4. ASSUME NEW v, NEW k \in 1..n, Good(v, k - 1)
      PROVE  Good(WriteNode(st, v, k), k)
  <2> DEFINE m == st.nodes[k]  w == Rename(v, m)  u == Upsert(w, m, k)
             rows == v.db.nodes  dest == v.db.dest  middle == AfterRename(rows, m)
  <2>0. WriteNode(st, v, k) = u /\ m \in Node /\ k \in Nat
    BY <1>1 DEF WriteNode
  <2>1. CASE ~v.ok
    <3>1. w = v
      BY <2>1 DEF Rename
    <3>2. IsTx(u) /\ Beside(u.db, v.db) /\ ~u.ok
      BY <1>4, <2>1, <3>1, UpsertDoes
    <3>3. Beside(u.db, t.db) /\ ~clear
      BY <1>4, <2>1, <3>2 DEF Beside
    <3> QED BY <2>0, <3>2, <3>3
  <2>2. CASE v.ok
    <3>1. /\ IsTx(v) /\ Beside(v.db, t.db) /\ t.ok /\ Table(rows, dest) /\ Written(rows, st, k - 1)
          /\ known => Kept(rows, dest, t.db.nodes, t.db.dest)
          /\ clear => Clear(rows, st, k - 1)
      BY <1>4, <2>2
    <3>2. /\ IsTx(w) /\ Beside(w.db, v.db) /\ w.db.dest = dest /\ w.db.nodes = middle
          /\ w.ok <=> (Renamed(rows, m) = {} \/ Named(rows, m) = {})
      BY <2>2, <3>1, RenameDoes
    <3>3. /\ IsTx(u) /\ Beside(u.db, w.db)
          /\ u.db.nodes = AfterUpsert(middle, dest, m, k) /\ u.db.dest = DestOf(middle, dest, m)
          /\ u.ok <=> (w.ok /\ \A r \in middle \ Named(middle, m) : r.auth # m.auth /\ r.uuid # m.uuid)
      <4> HIDE DEF w, m, u
      <4>1. u = Upsert(w, m, k)
        BY DEF u
      <4> QED BY <3>2, <4>1, UpsertDoes
    <3> DEFINE rows1 == AfterUpsert(middle, dest, m, k)  dest1 == DestOf(middle, dest, m)
    <3>4. ASSUME u.ok PROVE Table(rows1, dest1) /\ Written(rows1, st, k)
      <4>1. w.ok /\ \A r \in middle \ Named(middle, m) : r.auth # m.auth /\ r.uuid # m.uuid
        BY <3>3, <3>4
      <4>2. Renamed(rows, m) = {} \/ Named(rows, m) = {}
        BY <3>2, <4>1
      <4>3. Table(middle, dest)
        <5> HIDE DEF rows, dest, m
        <5> QED BY <2>0, <3>1, <4>2, RenameKeepsTable
      <4>4. Table(rows1, dest1)
        <5> HIDE DEF rows, dest, m, middle
        <5> QED BY <2>0, <4>1, <4>3, UpsertKeepsTable
      <4>5. Written(rows1, st, k)
        <5> HIDE DEF rows, dest
        <5> QED BY <3>1, <4>2, NodeWritten
      <4> QED BY <4>4, <4>5
    <3>5. ASSUME u.ok, known PROVE Kept(rows1, dest1, t.db.nodes, t.db.dest)
      <4>1. Kept(rows, dest, t.db.nodes, t.db.dest) /\ \E q \in t.db.nodes : SameKey(q, m)
        BY <3>1, <3>5
      <4>2. Named(rows, m) # {}
        <5>1. PICK q \in t.db.nodes : SameKey(q, m)
          BY <4>1
        <5>2. PICK r \in rows : SameKey(q, r)
          BY <4>1 DEF Kept
        <5> QED BY <5>1, <5>2 DEF Named, SameKey
      <4>3. Renamed(rows, m) = {}
        BY <3>2, <3>3, <3>5, <4>2
      <4> HIDE DEF rows, dest, m
      <4> QED BY <2>0, <3>1, <4>1, <4>3, NodeKept
    <3>6. ASSUME clear PROVE u.ok /\ Clear(rows1, st, k)
      <4>1. Clear(rows, st, k - 1)
        BY <3>1, <3>6
      <4>2. /\ Renamed(rows, m) = {} \/ Named(rows, m) = {}
            /\ \A r \in middle \ Named(middle, m) : r.auth # m.auth /\ r.uuid # m.uuid
            /\ Clear(rows1, st, k)
        <5> HIDE DEF rows, dest
        <5> QED BY <3>1, <4>1, NodeAccepted
      <4> QED BY <3>2, <3>3, <4>2
    <3>7. Beside(u.db, t.db)
      BY <3>1, <3>2, <3>3 DEF Beside
    <3> HIDE DEF u, rows1, dest1, known, clear, w, m, rows, dest, middle
    <3>8. u.db.nodes = rows1 /\ u.db.dest = dest1
      BY <3>3 DEF rows1, dest1
    <3>9. Good(u, k)
      BY <3>1, <3>3, <3>4, <3>5, <3>6, <3>7, <3>8
    <3> QED BY <2>0, <3>9
  <2>3. v.ok \in BOOLEAN
    BY <1>4 DEF IsTx
  <2> QED BY <2>1, <2>2, <2>3
<1> DEFINE Bad == {k \in 0..n : ~Good(f[k], k)}
<1>5. Bad = {}
  <2> SUFFICES ASSUME NEW k \in Bad PROVE \E l \in Bad : l < k
    <3>1. Bad \subseteq Nat
      OBVIOUS
    <3> HIDE DEF Bad
    <3> QED BY <3>1, NoneFails
  <2> HIDE DEF Good
  <2>1. k # 0
    BY <1>3
  <2>2. k \in 1..n /\ k - 1 \in 0..n
    BY <1>1, <2>1
  <2>3. f[k] = WriteNode(st, f[k - 1], k)
    BY <1>2, <2>2 DEF IsNodeWrites
  <2>4. ~Good(f[k - 1], k - 1)
    BY <1>4, <2>2, <2>3
  <2> QED BY <2>2, <2>4
<1>6. Good(f[n], n)
  <2> HIDE DEF Good
  <2> QED BY <1>1, <1>5
<1>7. f[n] = WriteNodes(st, t)
  BY <1>2 DEF IsNodeWrites
<1> QED BY <1>6, <1>7

--------------------------------------------------------------------------------
(* The other steps of a save *)

\* What WriteGroups does.
LEMMA GroupsDone ==
  ASSUME NEW db, IsDb(db), NEW st
  PROVE  LET u == [ok |-> TRUE, db |-> WriteGroups(st, db)]
         IN  /\ IsTx(u) /\ u.ok
             /\ u.db.groups = db.groups \cup st.groups /\ u.db.member = db.member /\ u.db.user = db.user
             /\ u.db.seen = db.seen /\ u.db.nodes = db.nodes /\ u.db.alerts = db.alerts
             /\ u.db.dest = db.dest /\ u.db.hash = db.hash
BY DEF IsTx, IsDb, WriteGroups

\* What WriteUser does.
LEMMA UserDone ==
  ASSUME NEW t, IsTx(t), NEW st, Valid(st)
  PROVE  LET u == WriteUser(st, t)
         IN  /\ IsTx(u)
             /\ u.ok <=> t.ok /\ (st.user => st.group \in t.db.groups \cup {NoGroup})
             /\ st.user => u.db.user = st.user /\ u.db.member = st.group
             /\ ~st.user => u.db.user = t.db.user /\ u.db.member = t.db.member
             /\ u.db.groups = t.db.groups /\ u.db.seen = t.db.seen /\ u.db.nodes = t.db.nodes
             /\ u.db.alerts = t.db.alerts /\ u.db.dest = t.db.dest /\ u.db.hash = t.db.hash
<1>1. CASE ~st.user
  BY <1>1 DEF WriteUser
<1>2. CASE st.user
  <2> DEFINE d == [t.db EXCEPT !.user = st.user]  e == [d EXCEPT !.member = st.group]
             ok == t.ok /\ st.group \in t.db.groups \cup {NoGroup}
  <2>1. IsDb(t.db) /\ t.ok \in BOOLEAN /\ t = [ok |-> t.ok, db |-> t.db]
    BY DEF IsTx
  <2>2. [t EXCEPT !.db.user = st.user] = [ok |-> t.ok, db |-> d]
    BY <2>1
  <2>3. /\ IsDb(d) /\ d.groups = t.db.groups /\ d.user = st.user
        /\ d.seen = t.db.seen /\ d.nodes = t.db.nodes /\ d.alerts = t.db.alerts
        /\ d.dest = t.db.dest /\ d.hash = t.db.hash
    BY <2>1 DEF IsDb
  <2> HIDE DEF d
  <2>4. /\ IsDb(e) /\ e.groups = d.groups /\ e.user = st.user /\ e.member = st.group
        /\ e.seen = d.seen /\ e.nodes = d.nodes /\ e.alerts = d.alerts
        /\ e.dest = d.dest /\ e.hash = d.hash
    BY <2>3 DEF IsDb
  <2>5. WriteUser(st, t) = [ok |-> ok, db |-> e]
    BY <1>2, <2>2, <2>3 DEF WriteUser, WriteGroupMember
  <2>6. ok \in BOOLEAN
    OBVIOUS
  <2> HIDE DEF e, ok
  <2>7. IsTx(WriteUser(st, t)) /\ WriteUser(st, t).ok = ok /\ WriteUser(st, t).db = e
    BY <2>4, <2>5, <2>6, Pair
  <2>8. WriteUser(st, t).ok <=> t.ok /\ st.group \in t.db.groups \cup {NoGroup}
    BY <2>7 DEF ok
  <2> QED BY <1>2, <2>3, <2>4, <2>7, <2>8
<1>3. st.user \in BOOLEAN
  BY DEF Valid, StateType
<1> QED BY <1>1, <1>2, <1>3

\* What DeleteGone does.
LEMMA GoneDone ==
  ASSUME NEW t, IsTx(t), NEW st, Valid(st)
  PROVE  LET u == DeleteGone(st, t)
             named == {r \in t.db.nodes : r.name \in Names(st, r.device)}
         IN  /\ IsTx(u)
             /\ u.ok <=> t.ok
             /\ u.db.nodes = named
             /\ u.db.dest = [id \in DOMAIN t.db.dest |->
                               IF \E r \in named : r.id = id THEN t.db.dest[id] ELSE 0]
             /\ u.db.user = st.user
             /\ st.user => u.db.member = t.db.member /\ u.db.seen = t.db.seen
             /\ ~st.user => u.db.member = NoGroup /\ u.db.seen = {}
             /\ u.db.groups = t.db.groups /\ u.db.alerts = t.db.alerts /\ u.db.hash = t.db.hash
<1> DEFINE named == {r \in t.db.nodes : r.name \in Names(st, r.device)}
           dest == [id \in DOMAIN t.db.dest |-> IF \E r \in named : r.id = id THEN t.db.dest[id] ELSE 0]
           member == IF st.user THEN t.db.member ELSE NoGroup
           seen == IF st.user THEN t.db.seen ELSE {}
           e == [groups |-> t.db.groups, member |-> member, user |-> st.user, seen |-> seen,
                 nodes |-> named, alerts |-> t.db.alerts, dest |-> dest, hash |-> t.db.hash]
<1>1. IsDb(t.db) /\ t.ok \in BOOLEAN
  BY DEF IsTx
<1> DEFINE d1 == [t.db EXCEPT !.nodes = named]
           d2 == [d1 EXCEPT !.dest = dest]
           d3 == [d2 EXCEPT !.user = st.user]
           d4 == [d3 EXCEPT !.member = member]
           d5 == [d4 EXCEPT !.seen = seen]
<1>2. DeleteGone(st, t) = [ok |-> t.ok, db |-> d5]
  <2>1. t.db.dest = t.db["dest"] /\ t.db.member = t.db["member"] /\ t.db.seen = t.db["seen"]
    OBVIOUS
  <2> QED BY <2>1 DEF DeleteGone
<1> HIDE DEF named, dest, member, seen
<1>3. d5 = e
  <2>1. d1 = [groups |-> t.db.groups, member |-> t.db.member, user |-> t.db.user, seen |-> t.db.seen,
              nodes |-> named, alerts |-> t.db.alerts, dest |-> t.db.dest, hash |-> t.db.hash]
    BY <1>1 DEF IsDb
  <2> HIDE DEF d1
  <2>2. d2 = [groups |-> t.db.groups, member |-> t.db.member, user |-> t.db.user, seen |-> t.db.seen,
              nodes |-> named, alerts |-> t.db.alerts, dest |-> dest, hash |-> t.db.hash]
    BY <2>1
  <2> HIDE DEF d2
  <2>3. d3 = [groups |-> t.db.groups, member |-> t.db.member, user |-> st.user, seen |-> t.db.seen,
              nodes |-> named, alerts |-> t.db.alerts, dest |-> dest, hash |-> t.db.hash]
    BY <2>2
  <2> HIDE DEF d3
  <2>4. d4 = [groups |-> t.db.groups, member |-> member, user |-> st.user, seen |-> t.db.seen,
              nodes |-> named, alerts |-> t.db.alerts, dest |-> dest, hash |-> t.db.hash]
    BY <2>3
  <2> HIDE DEF d4
  <2> QED BY <2>4
<1>4. IsDb(e)
  BY DEF IsDb
<1>5. IsTx(DeleteGone(st, t)) /\ DeleteGone(st, t).ok = t.ok /\ DeleteGone(st, t).db = e
  <2> HIDE DEF e
  <2> QED BY <1>1, <1>2, <1>3, <1>4, Pair
<1>6. st.user \in BOOLEAN
  BY DEF Valid, StateType
<1> QED BY <1>5, <1>6 DEF named, dest, member, seen

\* What PruneGroups does.
LEMMA PruneDone ==
  ASSUME NEW t, IsTx(t), NEW st
  PROVE  LET u == PruneGroups(st, t)
         IN  /\ IsTx(u)
             /\ u.ok <=> t.ok /\ t.db.member \in st.groups \cup {NoGroup}
             /\ u.db.groups = st.groups /\ u.db.member = t.db.member /\ u.db.user = t.db.user
             /\ u.db.seen = t.db.seen /\ u.db.nodes = t.db.nodes /\ u.db.alerts = t.db.alerts
             /\ u.db.dest = t.db.dest /\ u.db.hash = t.db.hash
<1> DEFINE e == [t.db EXCEPT !.groups = st.groups]  ok == t.ok /\ t.db.member \in st.groups \cup {NoGroup}
<1>1. /\ IsDb(e) /\ e.groups = st.groups /\ e.member = t.db.member /\ e.user = t.db.user
      /\ e.seen = t.db.seen /\ e.nodes = t.db.nodes /\ e.alerts = t.db.alerts
      /\ e.dest = t.db.dest /\ e.hash = t.db.hash
  BY DEF IsTx, IsDb
<1>2. PruneGroups(st, t) = [ok |-> ok, db |-> e] /\ ok \in BOOLEAN
  BY DEF PruneGroups, IsTx
<1> HIDE DEF e, ok
<1>3. IsTx(PruneGroups(st, t)) /\ PruneGroups(st, t).ok = ok /\ PruneGroups(st, t).db = e
  BY <1>1, <1>2, Pair
<1>4. PruneGroups(st, t).ok <=> t.ok /\ t.db.member \in st.groups \cup {NoGroup}
  BY <1>3 DEF ok
<1> QED BY <1>1, <1>3, <1>4

\* What WriteAlerts does.
LEMMA AlertsDone ==
  ASSUME NEW t, IsTx(t), NEW st, Valid(st)
  PROVE  LET u == WriteAlerts(st, t)
         IN  /\ IsTx(u)
             /\ u.ok <=> t.ok
             /\ u.db.alerts = RowsOf(Alike(st.alerts), st.alerts)
             /\ u.db.groups = t.db.groups /\ u.db.member = t.db.member /\ u.db.user = t.db.user
             /\ u.db.seen = t.db.seen /\ u.db.nodes = t.db.nodes
             /\ u.db.dest = t.db.dest /\ u.db.hash = t.db.hash
<1> DEFINE rows == WriteSequence(t.db.alerts, Alike(st.alerts), st.alerts)
           e == [t.db EXCEPT !.alerts = rows]
<1>1. rows = RowsOf(Alike(st.alerts), st.alerts)
  <2>1. Len(st.alerts) \in Nat /\ DOMAIN Alike(st.alerts) = 1..Len(st.alerts)
    BY DEF Valid, StateType, Alike
  <2> QED BY <2>1, SequenceWritten
<1>2. WriteAlerts(st, t) = [ok |-> t.ok, db |-> e]
  BY DEF WriteAlerts, IsTx, Alike
<1> HIDE DEF rows
<1>3. /\ IsDb(e) /\ e.groups = t.db.groups /\ e.member = t.db.member /\ e.user = t.db.user
      /\ e.seen = t.db.seen /\ e.nodes = t.db.nodes /\ e.alerts = rows
      /\ e.dest = t.db.dest /\ e.hash = t.db.hash
  BY DEF IsTx, IsDb
<1>4. t.ok \in BOOLEAN
  BY DEF IsTx
<1> HIDE DEF e
<1>5. IsTx(WriteAlerts(st, t)) /\ WriteAlerts(st, t).ok = t.ok /\ WriteAlerts(st, t).db = e
  BY <1>2, <1>3, <1>4, Pair
<1> QED BY <1>1, <1>3, <1>5

\* What WriteHistories does.
LEMMA HistoriesDone ==
  ASSUME NEW t, IsTx(t), NEW st, Valid(st), NEW sn, NEW old
  PROVE  LET u == WriteHistories(sn, old, st, t)
         IN  /\ IsTx(u)
             /\ u.ok <=> t.ok
             /\ st.user /\ Included(sn, old, st, "seen") => u.db.seen = RowsOf(st.seen, st.seen)
             /\ ~(st.user /\ Included(sn, old, st, "seen")) => u.db.seen = t.db.seen
             /\ Included(sn, old, st, "dest") =>
                  u.db.dest = [id \in DOMAIN t.db.dest |->
                    IF \E r \in t.db.nodes : r.id = id
                    THEN st.nodes[(CHOOSE r \in t.db.nodes : r.id = id).ordinal].dest
                    ELSE 0]
             /\ ~Included(sn, old, st, "dest") => u.db.dest = t.db.dest
             /\ u.db.groups = t.db.groups /\ u.db.member = t.db.member /\ u.db.user = t.db.user
             /\ u.db.nodes = t.db.nodes /\ u.db.alerts = t.db.alerts /\ u.db.hash = t.db.hash
<1> DEFINE seen == IF st.user /\ Included(sn, old, st, "seen") 
                   THEN WriteSequence(t.db.seen, st.seen, st.seen) ELSE t.db.seen
           dest == IF Included(sn, old, st, "dest")
                   THEN [id \in DOMAIN t.db.dest |->
                           IF \E r \in t.db.nodes : r.id = id
                           THEN st.nodes[(CHOOSE r \in t.db.nodes : r.id = id).ordinal].dest
                           ELSE 0]
                   ELSE t.db.dest
           d == [t.db EXCEPT !.seen = seen]
           e == [d EXCEPT !.dest = dest]
<1>1. IsDb(t.db) /\ t.ok \in BOOLEAN
  BY DEF IsTx
<1>2. WriteHistories(sn, old, st, t) = [ok |-> t.ok, db |-> e]
  BY DEF WriteHistories
<1>3. WriteSequence(t.db.seen, st.seen, st.seen) = RowsOf(st.seen, st.seen)
  <2>1. Len(st.seen) \in Nat /\ DOMAIN st.seen = 1..Len(st.seen)
    BY DEF Valid, StateType
  <2> QED BY <2>1, SequenceWritten
<1>4. /\ st.user /\ Included(sn, old, st, "seen") => seen = RowsOf(st.seen, st.seen)
      /\ ~(st.user /\ Included(sn, old, st, "seen")) => seen = t.db.seen
  BY <1>3
<1> HIDE DEF seen
<1>5. /\ Included(sn, old, st, "dest") =>
           dest = [id \in DOMAIN t.db.dest |->
             IF \E r \in t.db.nodes : r.id = id
             THEN st.nodes[(CHOOSE r \in t.db.nodes : r.id = id).ordinal].dest
             ELSE 0]
      /\ ~Included(sn, old, st, "dest") => dest = t.db.dest
  OBVIOUS
<1> HIDE DEF dest
<1>6. /\ IsDb(d) /\ d.groups = t.db.groups /\ d.member = t.db.member /\ d.user = t.db.user
      /\ d.seen = seen /\ d.nodes = t.db.nodes /\ d.alerts = t.db.alerts /\ d.hash = t.db.hash
  BY <1>1 DEF IsDb
<1> HIDE DEF d
<1>7. /\ IsDb(e) /\ e.groups = d.groups /\ e.member = d.member /\ e.user = d.user /\ e.dest = dest
      /\ e.seen = d.seen /\ e.nodes = d.nodes /\ e.alerts = d.alerts /\ e.hash = d.hash
  BY <1>6 DEF IsDb
<1>8. /\ IsTx(WriteHistories(sn, old, st, t)) /\ WriteHistories(sn, old, st, t).ok = t.ok
      /\ WriteHistories(sn, old, st, t).db = e
  <2> HIDE DEF e
  <2> QED BY <1>1, <1>2, <1>7, Pair
<1> HIDE DEF e
<1> QED BY <1>4, <1>5, <1>6, <1>7, <1>8

--------------------------------------------------------------------------------
(* A save *)

\* In the rows a State was written to, what is unique is.
LEMMA StoredIsTable ==
  ASSUME NEW st, Valid(st), NEW rows, NEW dest, Stored(rows, dest, st.nodes)
  PROVE  /\ Table(rows, dest)
         /\ \A r \in rows : \E i \in 1..Len(st.nodes) : r = NodeRow(st.nodes[i], i, r.id)
<1> DEFINE n == Len(st.nodes)
<1>1. n \in Nat /\ DOMAIN st.nodes = 1..n /\ \A i \in 1..n : st.nodes[i] \in Node
  BY DEF Valid, StateType
<1>2. PICK id \in Injection(1..n, 1..n) : rows = {NodeRow(st.nodes[i], i, id[i]) : i \in 1..n}
  BY DEF Stored
<1>3. \A i \in 1..n : id[i] \in 1..n /\ \A j \in 1..n : i # j => id[i] # id[j]
  BY <1>2 DEF Injection, IsInjective
<1>4. dest \in Seq({0, 1}) /\ Len(dest) = n
  BY <1>1 DEF Stored
<1>5. \A i \in 1..n : NodeRow(st.nodes[i], i, id[i]) \in Row
  BY <1>1, <1>3 DEF NodeRow, Row, Node
<1>6. \A i, j \in 1..n : i # j =>
        LET r == NodeRow(st.nodes[i], i, id[i])
            q == NodeRow(st.nodes[j], j, id[j])
        IN  r.id # q.id /\ Apart(r, q)
  <2> SUFFICES ASSUME NEW i \in 1..n, NEW j \in 1..n, i # j
               PROVE LET r == NodeRow(st.nodes[i], i, id[i])
                         q == NodeRow(st.nodes[j], j, id[j])
                     IN  r.id # q.id /\ Apart(r, q)
    OBVIOUS
  <2>1. Apart(st.nodes[i], st.nodes[j])
    BY <1>1 DEF Valid
  <2> QED BY <1>3, <2>1 DEF NodeRow, Apart, SameKey
<1>7. \A i \in 1..n : NodeRow(st.nodes[i], i, id[i]).id = id[i]
  BY DEF NodeRow
<1>8. Table(rows, dest)
  BY <1>2, <1>3, <1>4, <1>5, <1>6, <1>7 DEF Table
<1>9. \A r \in rows : \E i \in 1..n : r = NodeRow(st.nodes[i], i, r.id)
  BY <1>2, <1>7
<1> QED BY <1>8, <1>9

\* The rows that are left when those that no node names are gone
LEMMA NamedRows ==
  ASSUME NEW st, Valid(st), NEW rows, NEW dest, Table(rows, dest), Written(rows, st, Len(st.nodes))
  PROVE  \E id \in Injection(1..Len(st.nodes), 1..Len(dest)) :
           {r \in rows : r.name \in Names(st, r.device)} =
             {NodeRow(st.nodes[i], i, id[i]) : i \in 1..Len(st.nodes)}
<1> DEFINE n == Len(st.nodes)
           RowOf(i) == CHOOSE r \in rows : r = NodeRow(st.nodes[i], i, r.id)
           id == [i \in 1..n |-> RowOf(i).id]
           named == {r \in rows : r.name \in Names(st, r.device)}
<1>1. n \in Nat /\ DOMAIN st.nodes = 1..n
  BY DEF Valid, StateType
<1>2. \A i \in 1..n : RowOf(i) \in rows /\ RowOf(i) = NodeRow(st.nodes[i], i, RowOf(i).id)
  BY DEF Written
<1>3. \A i \in 1..n : id[i] \in 1..Len(dest) /\ NodeRow(st.nodes[i], i, id[i]) = RowOf(i)
  <2> HIDE DEF RowOf
  <2> QED BY <1>2 DEF Table
<1>4. \A i \in 1..n : SameKey(RowOf(i), st.nodes[i]) /\ RowOf(i).ordinal = i
  <2> HIDE DEF RowOf
  <2>1. \A i, k : NodeRow(st.nodes[i], i, k).ordinal = i /\ SameKey(NodeRow(st.nodes[i], i, k), st.nodes[i])
    BY DEF NodeRow, SameKey
  <2> TAKE i \in 1..n
  <2> DEFINE x == RowOf(i)  y == NodeRow(st.nodes[i], i, x.id)
  <2>2. x = y /\ y.ordinal = i /\ SameKey(y, st.nodes[i])
    BY <1>2, <2>1
  <2> HIDE DEF y
  <2> QED BY <2>2
<1>5. id \in Injection(1..n, 1..Len(dest))
  <2>1. \A i, j \in 1..n : id[i] = id[j] => i = j
    <3> HIDE DEF RowOf
    <3> QED BY <1>2, <1>4 DEF Table
  <2>2. id \in [1..n -> 1..Len(dest)]
    <3> HIDE DEF RowOf
    <3> QED BY <1>3
  <2> HIDE DEF id
  <2> QED BY <2>1, <2>2 DEF Injection, IsInjective
<1>6. \A r \in named : \E i \in 1..n : r = RowOf(i)
  <2> TAKE r \in named
  <2>1. PICK i \in 1..n : st.nodes[i].device = r.device /\ st.nodes[i].name = r.name
    BY <1>1 DEF Names, On
  <2> HIDE DEF RowOf
  <2>2. SameKey(r, RowOf(i))
    BY <1>4, <2>1 DEF SameKey
  <2>3. r = RowOf(i)
    BY <1>2, <2>2 DEF Table, Apart
  <2> QED BY <2>3
<1>7. \A i \in 1..n : RowOf(i) \in named
  <2> TAKE i \in 1..n
  <2> HIDE DEF RowOf
  <2> QED BY <1>1, <1>2, <1>4 DEF Names, On, SameKey
<1> HIDE DEF RowOf, named, id
<1>8. named = {NodeRow(st.nodes[i], i, id[i]) : i \in 1..n}
  BY <1>3, <1>6, <1>7
<1> QED BY <1>5, <1>8 DEF named

\* Row ids can be compacted.
LEMMA CompactStores ==
  ASSUME NEW nodes \in Seq(Node), NEW L \in Nat, NEW id \in Injection(1..Len(nodes), 1..L),
         NEW e, IsDb(e), e.nodes = {NodeRow(nodes[i], i, id[i]) : i \in 1..Len(nodes)},
         \A i \in 1..Len(nodes) : e.dest[id[i]] = nodes[i].dest
  PROVE  LET c == Compact(e)
         IN  IsDb(c) /\ Beside(c, e) /\ Stored(c.nodes, c.dest, nodes)
<1> DEFINE n == Len(nodes)  ids == {r.id : r \in e.nodes}
           id2 == [i \in 1..n |-> Rank(ids, id[i])]
           rows2 == {[r EXCEPT !.id = Rank(ids, r.id)] : r \in e.nodes}
           dest2 == [k \in 1..Cardinality(ids) |-> e.dest[Nth(ids, k)]]
<1>1. n \in Nat /\ DOMAIN nodes = 1..n /\ \A i \in 1..n : nodes[i] \in Node
  OBVIOUS
<1>2. \A i \in 1..n : id[i] \in 1..L /\ \A j \in 1..n : id[i] = id[j] => i = j
  BY DEF Injection, IsInjective
<1> DEFINE row(i) == NodeRow(nodes[i], i, id[i])
<1>3. e.nodes = {row(i) : i \in 1..n} /\ \A i : row(i).id = id[i]
  BY DEF NodeRow
<1>4. ids = {id[i] : i \in 1..n}
  <2> HIDE DEF row
  <2>1. ASSUME NEW x \in ids PROVE \E i \in 1..n : x = id[i]
    <3>1. PICK r \in e.nodes : x = r.id
      OBVIOUS
    <3>2. PICK i \in 1..n : r = row(i)
      BY <1>3
    <3> QED BY <1>3, <3>1, <3>2
  <2>2. ASSUME NEW i \in 1..n PROVE id[i] \in ids
    <3>1. row(i) \in e.nodes /\ row(i).id = id[i]
      BY <1>3
    <3> QED BY <3>1
  <2> HIDE DEF ids
  <2> QED BY <2>1, <2>2
<1>5. ids \subseteq Nat /\ IsFiniteSet(ids) /\ Cardinality(ids) = n
  <2>1. id \in [1..n -> ids]
    BY <1>4 DEF Injection
  <2> HIDE DEF ids
  <2>2. id \in Bijection(1..n, ids)
    BY <1>2, <1>4, <2>1 DEF Bijection, Injection, Surjection, IsInjective
  <2>3. Cardinality(ids) = n /\ IsFiniteSet(ids)
    BY <1>1, <2>2, FS_CountingElements, FS_NatBijection DEF ExistsBijection
  <2>4. ids \subseteq Nat
    BY <1>2, <1>4
  <2> QED BY <2>3, <2>4
<1>6. /\ \A x \in ids : Rank(ids, x) \in 1..n /\ Nth(ids, Rank(ids, x)) = x
      /\ \A k \in 1..n : Nth(ids, k) \in ids
  <2> HIDE DEF ids
  <2> QED BY <1>5, Places
<1>7. id2 \in Injection(1..n, 1..n)
  <2>1. \A i \in 1..n : id2[i] \in 1..n /\ Nth(ids, id2[i]) = id[i]
    <3> HIDE DEF ids
    <3> QED BY <1>4, <1>6
  <2>2. \A i, j \in 1..n : id2[i] = id2[j] => i = j
    <3> HIDE DEF id2
    <3> SUFFICES ASSUME NEW i \in 1..n, NEW j \in 1..n, id2[i] = id2[j] PROVE i = j
      OBVIOUS
    <3>1. id[i] = id[j]
      BY <2>1
    <3> QED BY <1>2, <3>1
  <2>3. id2 \in [1..n -> 1..n]
    <3> HIDE DEF ids
    <3> QED BY <1>4, <1>6
  <2> HIDE DEF id2
  <2> QED BY <2>2, <2>3 DEF Injection, IsInjective
<1>8. rows2 = {NodeRow(nodes[i], i, id2[i]) : i \in 1..n}
  <2> DEFINE row2(i) == NodeRow(nodes[i], i, id2[i])
             moved(r) == [r EXCEPT !.id = Rank(ids, r.id)]
  <2>1. \A i \in 1..n : moved(row(i)) = row2(i)
    <3> HIDE DEF ids
    <3> QED BY DEF NodeRow
  <2>2. rows2 = {moved(r) : r \in e.nodes}
    OBVIOUS
  <2> HIDE DEF id2, ids, row, moved, rows2
  <2>3. rows2 = {row2(i) : i \in 1..n}
    <3> HIDE DEF row2
    <3> QED BY <1>3, <2>1, <2>2
  <2> QED BY <2>3
<1>9. dest2 \in [1..n -> {0, 1}] /\ \A i \in 1..n : dest2[id2[i]] = nodes[i].dest
  <2>1. \A i \in 1..n : nodes[i].dest \in {0, 1}
    BY <1>1 DEF Node
  <2>2. \A x \in ids : e.dest[x] \in {0, 1}
    <3> HIDE DEF ids
    <3> QED BY <1>4, <2>1
  <2>3. dest2 \in [1..n -> {0, 1}]
    <3> HIDE DEF ids
    <3> QED BY <1>5, <1>6, <2>2
  <2>4. \A i \in 1..n : id2[i] \in 1..n /\ Nth(ids, id2[i]) = id[i]
    <3> HIDE DEF ids
    <3> QED BY <1>4, <1>6
  <2>5. \A i \in 1..n : dest2[id2[i]] = e.dest[id[i]]
    <3> HIDE DEF ids, id2
    <3> QED BY <1>5, <2>4
  <2> HIDE DEF dest2, id2
  <2> QED BY <2>3, <2>5
<1>10. Compact(e) = Changed(e, rows2, dest2)
  BY DEF Compact, Changed
<1> HIDE DEF rows2, dest2, id2
<1>11. Stored(rows2, dest2, nodes)
  BY <1>7, <1>8, <1>9 DEF Stored
<1> QED BY <1>10, <1>11, ChangedIsDb

\* A save that is accepted leaves a database that holds the State; one whose
\* nodes meet nothing in the way is accepted.
LEMMA SaveStores ==
  ASSUME NEW db, Holds(db), NEW st, Valid(st), NEW sn, sn = Snapshot(sn.path, sn.state)
  PROVE  LET done == Write(sn, db, st)
         IN  /\ done.ok \in BOOLEAN
             /\ done.ok => Holds(Compact(done.db)) /\ Compact(done.db).hash = st
             /\ Clear(db.nodes, st, 0) => done.ok
<1> DEFINE n == Len(st.nodes)
           t0 == [ok |-> TRUE, db |-> WriteGroups(st, db)]
           t1 == WriteUser(st, t0)
           t2 == WriteNodes(st, t1)
           t3 == DeleteGone(st, t2)
           t4 == PruneGroups(st, t3)
           t5 == WriteAlerts(st, t4)
           t6 == WriteHistories(sn, db, st, t5)
           done == Write(sn, db, st)
           named == {r \in t2.db.nodes : r.name \in Names(st, r.device)}
<1>0. /\ n \in Nat /\ DOMAIN st.nodes = 1..n /\ \A i \in 1..n : st.nodes[i] \in Node
      /\ st.user \in BOOLEAN /\ st \in StateType
  BY DEF Valid, StateType
<1>1. done = [t6 EXCEPT !.db = [@ EXCEPT !.hash = st]]
  BY DEF Write
<1>2. IsDb(db) /\ Valid(db.hash) /\ Table(db.nodes, db.dest)
  BY StoredIsTable DEF Holds
<1>3. /\ IsTx(t0) /\ t0.ok
      /\ t0.db.groups = db.groups \cup st.groups /\ t0.db.member = db.member /\ t0.db.user = db.user
      /\ t0.db.seen = db.seen /\ t0.db.nodes = db.nodes /\ t0.db.dest = db.dest
  BY <1>2, GroupsDone
<1> HIDE DEF t0
<1>4. /\ IsTx(t1) /\ t1.ok
      /\ st.user => t1.db.member = st.group
      /\ t1.db.seen = db.seen /\ t1.db.nodes = db.nodes /\ t1.db.dest = db.dest
  <2>1. st.group \in t0.db.groups \cup {NoGroup}
    BY <1>3 DEF Valid
  <2> QED BY <1>3, <2>1, UserDone
<1> HIDE DEF t1
<1>5. /\ IsTx(t2) /\ Beside(t2.db, t1.db)
      /\ t2.ok => /\ Table(t2.db.nodes, t2.db.dest) /\ Written(t2.db.nodes, st, n)
                  /\ (\A i \in 1..n : \E q \in db.nodes : SameKey(q, st.nodes[i]))
                       => Kept(t2.db.nodes, t2.db.dest, db.nodes, db.dest)
      /\ Clear(db.nodes, st, 0) => t2.ok
  BY <1>2, <1>4, NodesWritten
<1> HIDE DEF t2
<1>6. /\ IsTx(t3)
      /\ t3.ok <=> t2.ok
      /\ t3.db.nodes = named
      /\ t3.db.dest = [id \in DOMAIN t2.db.dest |->
                         IF \E r \in named : r.id = id THEN t2.db.dest[id] ELSE 0]
      /\ t3.db.user = st.user /\ t3.db.member = st.group
      /\ st.user => t3.db.seen = db.seen
      /\ ~st.user => t3.db.seen = {}
  <2>1. /\ IsTx(t3)
        /\ t3.ok <=> t2.ok
        /\ t3.db.nodes = named
        /\ t3.db.dest = [id \in DOMAIN t2.db.dest |->
                           IF \E r \in named : r.id = id THEN t2.db.dest[id] ELSE 0]
        /\ t3.db.user = st.user
        /\ st.user => t3.db.member = t2.db.member /\ t3.db.seen = t2.db.seen
        /\ ~st.user => t3.db.member = NoGroup /\ t3.db.seen = {}
    BY <1>5, GoneDone
  <2>2. t3.db.member = st.group
    BY <1>0, <1>4, <1>5, <2>1 DEF Valid, Beside
  <2> QED BY <1>4, <1>5, <2>1, <2>2 DEF Beside
<1> HIDE DEF t3
<1>7. /\ IsTx(t4)
      /\ t4.ok <=> t3.ok
      /\ t4.db.groups = st.groups /\ t4.db.member = st.group /\ t4.db.user = st.user
      /\ t4.db.seen = t3.db.seen /\ t4.db.nodes = named /\ t4.db.dest = t3.db.dest
  <2>1. t3.db.member \in st.groups \cup {NoGroup}
    BY <1>6 DEF Valid
  <2> QED BY <1>6, <2>1, PruneDone
<1> HIDE DEF t4
<1>8. /\ IsTx(t5)
      /\ t5.ok <=> t4.ok
      /\ t5.db.alerts = RowsOf(Alike(st.alerts), st.alerts)
      /\ t5.db.groups = st.groups /\ t5.db.member = st.group /\ t5.db.user = st.user
      /\ t5.db.seen = t3.db.seen /\ t5.db.nodes = named /\ t5.db.dest = t3.db.dest
  BY <1>7, AlertsDone
<1> HIDE DEF t5
<1>9. /\ IsTx(t6)
      /\ t6.ok <=> t5.ok
      /\ st.user /\ Included(sn, db, st, "seen") => t6.db.seen = RowsOf(st.seen, st.seen)
      /\ ~(st.user /\ Included(sn, db, st, "seen")) => t6.db.seen = t3.db.seen
      /\ Included(sn, db, st, "dest") =>
           t6.db.dest = [id \in DOMAIN t3.db.dest |->
             IF \E r \in named : r.id = id
             THEN st.nodes[(CHOOSE r \in named : r.id = id).ordinal].dest
             ELSE 0]
      /\ ~Included(sn, db, st, "dest") => t6.db.dest = t3.db.dest
      /\ t6.db.groups = st.groups /\ t6.db.member = st.group /\ t6.db.user = st.user
      /\ t6.db.nodes = named /\ t6.db.alerts = RowsOf(Alike(st.alerts), st.alerts)
  BY <1>8, HistoriesDone
<1> HIDE DEF t6
<1> DEFINE e == [t6.db EXCEPT !.hash = st]
<1>10. done.ok = t6.ok /\ done.db = e
  <2> HIDE DEF done
  <2> QED BY <1>1, <1>9 DEF IsTx
<1>11. /\ IsDb(e) /\ e.groups = st.groups /\ e.member = st.group /\ e.user = st.user /\ e.hash = st
       /\ e.seen = t6.db.seen /\ e.alerts = t6.db.alerts /\ e.nodes = named /\ e.dest = t6.db.dest
  BY <1>9 DEF IsTx, IsDb
<1> HIDE DEF e, done
<1>12. \A table \in {"seen", "dest"} : ~Included(sn, db, st, table) =>
         Snapshot("state.db", db.hash)[table] = Snapshot("state.db", st)[table]
  BY DEF Included
<1>13. t6.db.seen = RowsOf(st.seen, st.seen)
  <2>1. CASE ~st.user
    <3>1. st.seen = <<>>
      BY <2>1 DEF Valid
    <3>2. RowsOf(st.seen, st.seen) = {}
      BY <3>1 DEF RowsOf
    <3> QED BY <1>6, <1>9, <2>1, <3>2
  <2>2. CASE st.user /\ Included(sn, db, st, "seen")
    BY <1>9, <2>2
  <2>3. CASE st.user /\ ~Included(sn, db, st, "seen")
    <3>1. db.hash.seen = st.seen
      BY <1>12, <2>3 DEF Snapshot
    <3>2. db.seen = RowsOf(st.seen, st.seen)
      BY <3>1 DEF Holds
    <3> QED BY <1>6, <1>9, <2>3, <3>2
  <2> QED BY <1>0, <2>1, <2>2, <2>3
<1>14. ASSUME t2.ok
       PROVE  \E L \in Nat : \E id \in Injection(1..n, 1..L) :
                /\ named = {NodeRow(st.nodes[i], i, id[i]) : i \in 1..n}
                /\ \A i \in 1..n : t6.db.dest[id[i]] = st.nodes[i].dest
  <2> DEFINE L == Len(t2.db.dest)
  <2>1. L \in Nat /\ DOMAIN t2.db.dest = 1..L
    BY <1>5, <1>14 DEF Table
  <2>2. PICK id \in Injection(1..n, 1..L) : named = {NodeRow(st.nodes[i], i, id[i]) : i \in 1..n}
    <3>1. Table(t2.db.nodes, t2.db.dest) /\ Written(t2.db.nodes, st, Len(st.nodes))
      BY <1>5, <1>14
    <3>2. \E id \in Injection(1..Len(st.nodes), 1..Len(t2.db.dest)) :
            {r \in t2.db.nodes : r.name \in Names(st, r.device)} =
              {NodeRow(st.nodes[i], i, id[i]) : i \in 1..Len(st.nodes)}
      BY <3>1, NamedRows
    <3> QED BY <3>2
  <2>3. \A i \in 1..n : id[i] \in 1..L /\ \A j \in 1..n : id[i] = id[j] => i = j
    BY <2>2 DEF Injection, IsInjective
  <2> DEFINE row(i) == NodeRow(st.nodes[i], i, id[i])
  <2>4. \A i \in 1..n : row(i) \in named /\ row(i).id = id[i] /\ row(i).ordinal = i /\ SameKey(row(i), st.nodes[i])
    BY <2>2 DEF NodeRow, SameKey
  <2>5. \A r \in named : \E i \in 1..n : r = row(i)
    BY <2>2
  <2> HIDE DEF row, named, L
  <2>6. \A i \in 1..n : \A r \in named : r.id = id[i] => r = row(i)
    BY <2>3, <2>4, <2>5
  <2>7. ASSUME Included(sn, db, st, "dest")
        PROVE  \A i \in 1..n : t6.db.dest[id[i]] = st.nodes[i].dest
    <3> TAKE i \in 1..n
    <3>1. id[i] \in DOMAIN t3.db.dest
      BY <1>6, <2>1, <2>3
    <3>2. (CHOOSE r \in named : r.id = id[i]) = row(i)
      BY <2>4, <2>6
    <3>3. t6.db.dest[id[i]] = st.nodes[row(i).ordinal].dest
      BY <1>9, <2>4, <2>7, <3>1, <3>2
    <3> QED BY <2>4, <3>3
  <2>8. ASSUME ~Included(sn, db, st, "dest")
        PROVE  \A i \in 1..n : t6.db.dest[id[i]] = st.nodes[i].dest
    <3> DEFINE old == db.hash.nodes
    <3>1. /\ DOMAIN old = 1..n
          /\ \A i \in 1..n : SameKey(old[i], st.nodes[i]) /\ old[i].dest = st.nodes[i].dest
      <4> DEFINE a == [i \in DOMAIN old |-> <<old[i].name, old[i].device, old[i].dest>>]
                 b == [i \in DOMAIN st.nodes |-> <<st.nodes[i].name, st.nodes[i].device, st.nodes[i].dest>>]
      <4>1. a = b
        BY <1>12, <2>8 DEF Snapshot
      <4>2. DOMAIN old = 1..n
        BY <1>0, <4>1
      <4>3. \A i \in 1..n : a[i] = b[i]
        BY <4>1
      <4> QED BY <1>0, <4>2, <4>3 DEF SameKey
    <3>2. PICK id0 \in Injection(1..Len(old), 1..Len(old)) :
            /\ db.nodes = {NodeRow(old[i], i, id0[i]) : i \in 1..Len(old)}
            /\ \A i \in 1..Len(old) : db.dest[id0[i]] = old[i].dest
      BY DEF Holds, Stored
    <3>3. Len(old) = n
      BY <1>0, <1>2, <3>1 DEF Valid, StateType
    <3> DEFINE row0(i) == NodeRow(old[i], i, id0[i])
    <3>4. \A i \in 1..n : row0(i) \in db.nodes /\ row0(i).id = id0[i] /\ SameKey(row0(i), st.nodes[i])
      BY <3>1, <3>2, <3>3 DEF NodeRow, SameKey
    <3>5. \A r \in db.nodes : \E i \in 1..n : r = row0(i)
      BY <3>2, <3>3
    <3> HIDE DEF row0, old
    <3>6. Kept(t2.db.nodes, t2.db.dest, db.nodes, db.dest)
      BY <1>5, <1>14, <3>4
    <3>7. ASSUME NEW i \in 1..n
          PROVE  t6.db.dest[id[i]] = st.nodes[i].dest
      <4>1. row(i) \in t2.db.nodes
        BY <2>4 DEF named
      <4>2. PICK q \in db.nodes : q.id = id[i] /\ SameKey(q, row(i))
        BY <2>4, <3>6, <4>1 DEF Kept
      <4>3. PICK j \in 1..n : q = row0(j)
        BY <3>5
      <4>4. SameKey(st.nodes[i], st.nodes[j])
        BY <2>4, <3>4, <4>2, <4>3 DEF SameKey
      <4>5. i = j
        BY <1>0, <4>4 DEF Valid, Apart
      <4>6. db.dest[id[i]] = st.nodes[i].dest
        BY <3>1, <3>2, <3>3, <3>4, <4>2, <4>3, <4>5 DEF old
      <4>7. t3.db.dest[id[i]] = t2.db.dest[id[i]]
        BY <1>6, <2>1, <2>3, <2>4
      <4>8. t2.db.dest = db.dest
        BY <3>6 DEF Kept
      <4> QED BY <1>9, <2>8, <4>6, <4>7, <4>8
    <3> QED BY <3>7
  <2>9. \A i \in 1..n : t6.db.dest[id[i]] = st.nodes[i].dest
    BY <2>7, <2>8
  <2> QED BY <2>1, <2>2, <2>9 DEF L
<1>15. ASSUME t2.ok PROVE Holds(Compact(e)) /\ Compact(e).hash = st
  <2>1. PICK L \in Nat : \E id \in Injection(1..n, 1..L) :
          /\ named = {NodeRow(st.nodes[i], i, id[i]) : i \in 1..n}
          /\ \A i \in 1..n : t6.db.dest[id[i]] = st.nodes[i].dest
    BY <1>14, <1>15
  <2>2. PICK id \in Injection(1..n, 1..L) :
          /\ named = {NodeRow(st.nodes[i], i, id[i]) : i \in 1..n}
          /\ \A i \in 1..n : t6.db.dest[id[i]] = st.nodes[i].dest
    BY <2>1
  <2>3. st.nodes \in Seq(Node)
    BY <1>0 DEF StateType
  <2> HIDE DEF named
  <2>4. LET c == Compact(e) IN IsDb(c) /\ Beside(c, e) /\ Stored(c.nodes, c.dest, st.nodes)
    BY <1>11, <2>2, <2>3, CompactStores
  <2> QED BY <1>9, <1>11, <1>13, <2>4 DEF Holds, Beside
<1>16. t6.ok \in BOOLEAN /\ (t6.ok <=> t2.ok)
  BY <1>6, <1>7, <1>8, <1>9 DEF IsTx
<1>17. /\ done.ok \in BOOLEAN
       /\ done.ok => Holds(Compact(done.db)) /\ Compact(done.db).hash = st
       /\ Clear(db.nodes, st, 0) => done.ok
  BY <1>5, <1>10, <1>15, <1>16
<1> QED BY <1>17 DEF done

--------------------------------------------------------------------------------
(* The edits *)

\* What stands in the way of a new State in the rows of an old one: nothing,
\* where each two of their nodes are one in name, or have nothing unique in
\* common, or are one renamed to a name that was free.
Meets(old, st) ==
  \A j \in 1..Len(st.nodes) : \A i \in 1..Len(old.nodes) :
    LET o == old.nodes[i]
        n == st.nodes[j]
    IN  \/ SameKey(o, n)
        \/ o.auth # n.auth /\ o.uuid # n.uuid
        \/ /\ o.device = n.device /\ o.auth = n.auth /\ o.uuid = n.uuid
           /\ \A l \in 1..Len(old.nodes) : ~SameKey(old.nodes[l], n)

\* What meets nothing in an old State meets nothing in the rows it is held by.
LEMMA ClearOfRows ==
  ASSUME NEW db, Holds(db), NEW st, Meets(db.hash, st)
  PROVE  Clear(db.nodes, st, 0)
<1> DEFINE old == db.hash.nodes
<1>1. PICK id \in Injection(1..Len(old), 1..Len(old)) :
        db.nodes = {NodeRow(old[i], i, id[i]) : i \in 1..Len(old)}
  BY DEF Holds, Stored
<1> DEFINE row(i) == NodeRow(old[i], i, id[i])
<1>2. \A i : /\ row(i).device = old[i].device /\ row(i).name = old[i].name
             /\ row(i).auth = old[i].auth /\ row(i).uuid = old[i].uuid
  BY DEF NodeRow
<1>3. \A r \in db.nodes : \E i \in 1..Len(old) : r = row(i)
  BY <1>1
<1> HIDE DEF row
<1>4. ASSUME NEW j \in 0 + 1..Len(st.nodes), NEW r \in db.nodes
      PROVE  LET n == st.nodes[j]
             IN  \/ SameKey(r, n)
                 \/ r.auth # n.auth /\ r.uuid # n.uuid
                 \/ /\ r.device = n.device /\ r.auth = n.auth /\ r.uuid = n.uuid
                    /\ \A q \in db.nodes : ~SameKey(q, n)
  <2>1. PICK i \in 1..Len(old) : r = row(i)
    BY <1>3
  <2> DEFINE n == st.nodes[j]  o == old[i]
  <2>2. \/ SameKey(o, n)
        \/ o.auth # n.auth /\ o.uuid # n.uuid
        \/ /\ o.device = n.device /\ o.auth = n.auth /\ o.uuid = n.uuid
           /\ \A l \in 1..Len(old) : ~SameKey(old[l], n)
    BY DEF Meets
  <2>3. (\A l \in 1..Len(old) : ~SameKey(old[l], n)) => \A q \in db.nodes : ~SameKey(q, n)
    BY <1>2, <1>3 DEF SameKey
  <2> HIDE DEF old, n
  <2>4. \/ SameKey(r, n)
        \/ r.auth # n.auth /\ r.uuid # n.uuid
        \/ /\ r.device = n.device /\ r.auth = n.auth /\ r.uuid = n.uuid
           /\ \A q \in db.nodes : ~SameKey(q, n)
    BY <1>2, <2>1, <2>2, <2>3 DEF SameKey
  <2> QED BY <2>4 DEF n
<1> QED BY <1>4 DEF Clear

\* The nodes of a valid State.
LEMMA NodesOf ==
  ASSUME NEW st, Valid(st)
  PROVE  /\ st \in StateType /\ st.nodes \in Seq(Node) /\ st.seen \in Seq(Moment) /\ st.alerts \in Seq(BOOLEAN)
         /\ Len(st.nodes) \in Nat /\ DOMAIN st.nodes = 1..Len(st.nodes)
         /\ \A i \in 1..Len(st.nodes) : st.nodes[i] \in Node
         /\ \A i, j \in 1..Len(st.nodes) : i # j => Apart(st.nodes[i], st.nodes[j])
<1>1. st.nodes \in Seq(Node) /\ st.seen \in Seq(Moment) /\ st.alerts \in Seq(BOOLEAN)
  BY DEF Valid, StateType
<1>2. DOMAIN st.nodes = 1..Len(st.nodes)
  BY <1>1
<1> QED BY <1>1, <1>2 DEF Valid

\* Nothing is in the way of what differs in other tables alone.
LEMMA SameNodesMeet ==
  ASSUME NEW old, Valid(old), NEW st, Len(st.nodes) = Len(old.nodes),
         \A i \in 1..Len(old.nodes) :
           /\ st.nodes[i].device = old.nodes[i].device /\ st.nodes[i].name = old.nodes[i].name
           /\ st.nodes[i].auth = old.nodes[i].auth /\ st.nodes[i].uuid = old.nodes[i].uuid
  PROVE  Meets(old, st)
BY NodesOf DEF Meets, Apart, SameKey

\* A State with other nodes
WithNodes(st, nodes) == [st EXCEPT !.nodes = nodes]

\* Nodes that are apart make a valid State.
LEMMA NodesReplaced ==
  ASSUME NEW st, Valid(st), st.user, NEW nodes \in Seq(Node), Len(nodes) <= MaxNodes,
         \A i, j \in 1..Len(nodes) : i # j => Apart(nodes[i], nodes[j])
  PROVE  LET new == WithNodes(st, nodes)
         IN  /\ Valid(new) /\ new.user = st.user /\ new.nodes = nodes
             /\ new.groups = st.groups /\ new.group = st.group
<1> DEFINE new == WithNodes(st, nodes)
<1>1. st \in StateType
  BY NodesOf
<1>2. /\ new \in StateType /\ new.user = st.user /\ new.nodes = nodes
      /\ new.groups = st.groups /\ new.group = st.group
  BY <1>1 DEF StateType, WithNodes
<1> HIDE DEF new
<1>3. DOMAIN nodes = 1..Len(nodes)
  OBVIOUS
<1>4. Valid(new)
  BY <1>2, <1>3 DEF Valid
<1> QED BY <1>2, <1>4 DEF new

\* Of n + 1 suffixes n nodes leave one free.
LEMMA AuthIsNew ==
  ASSUME NEW st, Valid(st), NEW base
  PROVE  \E k \in Nat : UniqueAuth(st, base) = <<base, k>> /\ <<base, k>> \notin Used(st, "auth")
<1> DEFINE n == Len(st.nodes)
           free(k) == <<base, k>> \notin Used(st, "auth")
           Free == {k \in 1..MaxNodes + 1 : free(k)}
<1>1. MaxNodes \in Nat /\ n \in Nat /\ n <= MaxNodes /\ DOMAIN st.nodes = 1..n
  BY NodesOf, RowsAssumption DEF Valid
<1>2. Free # {}
  <2> SUFFICES ASSUME \A k \in 1..MaxNodes + 1 : \E i \in 1..n : st.nodes[i].auth = <<base, k>>
               PROVE  FALSE
    BY <1>1 DEF Used
  <2> DEFINE f == [k \in 1..MaxNodes + 1 |-> CHOOSE i \in 1..n : st.nodes[i].auth = <<base, k>>]
  <2>1. \A k \in 1..MaxNodes + 1 : f[k] \in 1..n /\ st.nodes[f[k]].auth = <<base, k>>
    OBVIOUS
  <2>2. f \in [1..MaxNodes + 1 -> 1..n]
    BY <2>1
  <2> HIDE DEF f
  <2>3. \A k, l \in 1..MaxNodes + 1 : f[k] = f[l] => k = l
    <3> SUFFICES ASSUME NEW k \in 1..MaxNodes + 1, NEW l \in 1..MaxNodes + 1, f[k] = f[l] PROVE k = l
      OBVIOUS
    <3>1. <<base, k>> = <<base, l>>
      BY <2>1
    <3> QED BY <3>1
  <2>4. f \in Injection(1..MaxNodes + 1, 1..n)
    BY <2>2, <2>3 DEF Injection, IsInjective
  <2>5. IsFiniteSet(1..n) /\ Cardinality(1..n) = n /\ Cardinality(1..MaxNodes + 1) = MaxNodes + 1
    BY <1>1, FS_Interval
  <2>6. MaxNodes + 1 <= n
    BY <2>4, <2>5, FS_Injection
  <2> QED BY <1>1, <2>6
<1>3. PICK k \in Free : \A l \in Free : k <= l
  <2>1. Free \subseteq Nat
    BY <1>1
  <2> HIDE DEF Free
  <2> QED BY <1>2, <2>1, LeastNumber
<1>4. k \in 1..MaxNodes + 1 /\ free(k) /\ \A j \in 1..k - 1 : ~free(j)
  <2> HIDE DEF free
  <2> QED BY <1>1, <1>3
<1> DEFINE c == CHOOSE l \in 1..MaxNodes + 1 : free(l) /\ \A j \in 1..l - 1 : ~free(j)
<1>5. c \in 1..MaxNodes + 1 /\ free(c)
  <2> HIDE DEF free
  <2> QED BY <1>4
<1>6. UniqueAuth(st, base) = <<base, c>>
  BY DEF UniqueAuth
<1> HIDE DEF c
<1> QED BY <1>1, <1>5, <1>6

\* A new node has an auth_user nobody has.
LEMMA NewNodeIsNew ==
  ASSUME NEW st, Valid(st), NEW d \in Device, NEW n \in Name, NEW x \in Uuid,
         NEW base, base \in {<<"user">>} \cup {<<e, Slug[m]>> : e \in Device, m \in Name}
  PROVE  LET new == NewNode(st, base, d, n, x)
         IN  /\ new \in Node /\ new.device = d /\ new.name = n /\ new.uuid = x
             /\ \A i \in 1..Len(st.nodes) : st.nodes[i].auth # new.auth
<1>1. PICK k \in Nat : UniqueAuth(st, base) = <<base, k>> /\ <<base, k>> \notin Used(st, "auth")
  BY AuthIsNew
<1>2. <<base, k>> \in Auth
  BY DEF Auth
<1>3. \A i \in 1..Len(st.nodes) : st.nodes[i].auth # <<base, k>>
  BY <1>1, NodesOf DEF Used
<1> DEFINE a == <<base, k>>
<1> HIDE DEF a
<1>4. NewNode(st, base, d, n, x) = [device |-> d, name |-> n, auth |-> a, uuid |-> x, dest |-> 0]
  BY <1>1 DEF NewNode, a
<1>5. a \in Auth /\ \A i \in 1..Len(st.nodes) : st.nodes[i].auth # a
  BY <1>2, <1>3 DEF a
<1> QED BY <1>4, <1>5 DEF Node

\* st1 is st with one node more.
Appended(st, st1, new) ==
  /\ Valid(st1) /\ st1.user = st.user /\ st1.groups = st.groups /\ st1.group = st.group
  /\ Len(st1.nodes) = Len(st.nodes) + 1 /\ st1.nodes[Len(st.nodes) + 1] = new
  /\ \A i \in 1..Len(st.nodes) : st1.nodes[i] = st.nodes[i]

Room(st) == Valid(st) /\ st.user /\ Len(st.nodes) < MaxNodes

\* A node that is apart from the others can be appended.
LEMMA NodeAppended ==
  ASSUME NEW st, Room(st), NEW new, new \in Node,
         \A i \in 1..Len(st.nodes) : Apart(st.nodes[i], new),
         NEW st1, st1 = WithNodes(st, Append(st.nodes, new))
  PROVE  Appended(st, st1, new)
<1>0. Valid(st) /\ st.user = TRUE /\ Len(st.nodes) < MaxNodes /\ st.user
  BY DEF Room, Valid, StateType
<1> DEFINE nodes == Append(st.nodes, new)  n == Len(st.nodes)
<1>1. n \in Nat /\ st.nodes \in Seq(Node) /\ MaxNodes \in Nat
  BY <1>0, NodesOf, RowsAssumption
<1>2. /\ nodes \in Seq(Node) /\ Len(nodes) = n + 1 /\ nodes[n + 1] = new
      /\ \A i \in 1..n : nodes[i] = st.nodes[i]
  BY <1>1
<1> HIDE DEF nodes
<1>4. \A i, j \in 1..Len(nodes) : i # j => Apart(nodes[i], nodes[j])
  <2>1. \A i \in 1..Len(nodes) : i \in 1..n \/ i = n + 1
    BY <1>1, <1>2
  <2>2. \A i, j \in 1..n : i # j => Apart(st.nodes[i], st.nodes[j])
    BY <1>0, NodesOf
  <2>3. \A i \in 1..n : Apart(new, st.nodes[i])
    BY DEF Apart, SameKey
  <2> QED BY <1>2, <2>1, <2>2, <2>3
<1>5. Len(nodes) <= MaxNodes
  BY <1>0, <1>1, <1>2
<1>6. Valid(st1) /\ st1.user = st.user /\ st1.groups = st.groups /\ st1.group = st.group /\ st1.nodes = nodes
  <2> DEFINE w == WithNodes(st, nodes)
  <2>1. Valid(w) /\ w.user = st.user /\ w.groups = st.groups /\ w.group = st.group /\ w.nodes = nodes
    <3> HIDE DEF w
    <3>1. LET v == WithNodes(st, nodes)
          IN  Valid(v) /\ v.user = st.user /\ v.nodes = nodes /\ v.groups = st.groups /\ v.group = st.group
      BY <1>0, <1>2, <1>4, <1>5, NodesReplaced
    <3> QED BY <3>1 DEF w
  <2> HIDE DEF w
  <2>2. st1 = w
    BY DEF w, nodes
  <2> QED BY <2>1, <2>2
<1> QED BY <1>2, <1>6 DEF nodes, Appended

\* st1 is st with a node of this device, name and uuid, its auth_user new.
Added(st, st1, d, n, x) ==
  LET new == st1.nodes[Len(st.nodes) + 1]
  IN  /\ Appended(st, st1, new)
      /\ new.device = d /\ new.name = n /\ new.uuid = x
      /\ \A i \in 1..Len(st.nodes) : st.nodes[i].auth # new.auth

Unclaimed(st, d, n, x) ==
  \A i \in 1..Len(st.nodes) : st.nodes[i].uuid # x /\ ~(st.nodes[i].device = d /\ st.nodes[i].name = n)

\* So can a new one, under a name that is free and with a uuid of its own.
LEMMA NodeAdded ==
  ASSUME NEW st, Room(st), NEW d, d \in Device, NEW n, n \in Name, NEW x, x \in Uuid, Unclaimed(st, d, n, x)
  PROVE  Added(st, WithNode(st, d, n, x), d, n, x)
<1> DEFINE base == <<d, Slug[n]>>  new == NewNode(st, base, d, n, x)  st1 == WithNode(st, d, n, x)
<1>1. base \in {<<"user">>} \cup {<<e, Slug[m]>> : e \in Device, m \in Name}
  OBVIOUS
<1>2. st1 = WithNodes(st, Append(st.nodes, new))
  BY DEF WithNode, WithNodes
<1> HIDE DEF base, st1
<1>3. /\ new \in Node /\ new.device = d /\ new.name = n /\ new.uuid = x
      /\ \A i \in 1..Len(st.nodes) : st.nodes[i].auth # new.auth
  BY <1>1, NewNodeIsNew DEF Room
<1> HIDE DEF new
<1>4. \A i \in 1..Len(st.nodes) : Apart(st.nodes[i], new)
  BY <1>3 DEF Apart, SameKey, Unclaimed
<1>5. Appended(st, st1, new)
  BY <1>2, <1>3, <1>4, NodeAppended
<1>6. st1.nodes[Len(st.nodes) + 1] = new
  BY <1>5 DEF Appended
<1>7. Added(st, st1, d, n, x)
  BY <1>3, <1>5, <1>6 DEF Added
<1> QED BY <1>7 DEF st1

\* The copies are appended one after the other.
IsCopies(f, st, d, source, new, n) ==
  /\ f[0] = st /\ f[n] = WithCopies(st, d, source, new)
  /\ \A k \in 1..n : f[k] = WithNode(f[k - 1], d, st.nodes[Nth(source, k)].name, new[Nth(source, k)])

\* That is what the fold computes, by the least k where it does not.
LEMMA CopiesFold ==
  ASSUME NEW st, NEW d, NEW source, NEW new, NEW n \in Nat, n = Cardinality(source)
  PROVE  \E f : IsCopies(f, st, d, source, new, n)
<1> DEFINE Value(g, s) ==
             IF s = {} THEN st ELSE WithNode(g[s \ {Max(s)}], d, st.nodes[Nth(source, Max(s))].name, new[Nth(source, Max(s))])
           order == [i \in 1..Cardinality(source) |-> i]
           Folded(g, s) ==
             IF s = {} THEN st ELSE LET x == Max(s) IN WithNode(g[s \ {x}], d, st.nodes[Nth(source, order[x])].name, new[Nth(source, order[x])])
           folded == CHOOSE g : g = [s \in SUBSET (DOMAIN order) |-> Folded(g, s)]
<1>1. WithCopies(st, d, source, new) = folded[1..n]
  <2>1. WithCopies(st, d, source, new) = folded[DOMAIN order]
    BY DEF WithCopies, FoldLeft, MapThenFoldSet
  <2> QED BY <2>1
<1>2. \A k \in Nat : \E g : g = [s \in SUBSET (1..k) |-> Value(g, s)]
  <2> DEFINE Bad == {k \in Nat : ~ \E g : g = [s \in SUBSET (1..k) |-> Value(g, s)]}
  <2> SUFFICES Bad = {}
    OBVIOUS
  <2> SUFFICES ASSUME NEW k \in Bad PROVE \E l \in Bad : l < k
    <3>1. Bad \subseteq Nat
      OBVIOUS
    <3> HIDE DEF Bad
    <3> QED BY <3>1, NoneFails
  <2>1. CASE k = 0
    <3> DEFINE g == [s \in SUBSET (1..0) |-> st]
    <3>1. SUBSET (1..0) = {{}}
      OBVIOUS
    <3>2. \A s \in SUBSET (1..0) : Value(g, s) = st
      BY <3>1
    <3>3. g = [s \in SUBSET (1..0) |-> Value(g, s)]
      <4> HIDE DEF Value
      <4> QED BY <3>2
    <3> HIDE DEF g, Value
    <3> QED BY <2>1, <3>3
  <2>2. CASE k # 0 /\ k - 1 \notin Bad
    <3>0. k - 1 \in Nat /\ k \in Nat
      BY <2>2
    <3>1. PICK f : f = [s \in SUBSET (1..k - 1) |-> Value(f, s)]
      <4> HIDE DEF Value
      <4> QED BY <2>2, <3>0
    <3> DEFINE g == [s \in SUBSET (1..k) |-> Value(f, s)]
    <3>2. \A s \in SUBSET (1..k) : Value(f, s) = Value(g, s)
      <4> SUFFICES ASSUME NEW s \in SUBSET (1..k), s # {} PROVE Value(f, s) = Value(g, s)
        OBVIOUS
      <4> DEFINE less == s \ {Max(s)}
      <4>1. less \in SUBSET (1..k - 1) /\ less \in SUBSET (1..k)
        <5>1. Max(s) \in 1..k /\ \A y \in s : y \in 1..k /\ Max(s) >= y
          BY <3>0, MaxOfInterval
        <5>2. \A y \in less : y \in 1..k - 1
          BY <3>0, <5>1
        <5> QED BY <5>2
      <4>2. f[less] = Value(f, less) /\ g[less] = Value(f, less)
        <5> HIDE DEF Value, less
        <5> QED BY <3>1, <4>1
      <4> HIDE DEF g
      <4> QED BY <4>2
    <3>3. g = [s \in SUBSET (1..k) |-> Value(g, s)]
      <4> HIDE DEF Value
      <4> QED BY <3>2
    <3>4. k \notin Bad
      <4> HIDE DEF g, Value
      <4> QED BY <3>3
    <3> QED BY <3>4
  <2>3. k \in Nat
    OBVIOUS
  <2> HIDE DEF Bad
  <2> QED BY <2>1, <2>2, <2>3
<1>3. folded = [s \in SUBSET (1..n) |-> Value(folded, s)]
  <2>1. \E g : g = [s \in SUBSET (1..n) |-> Value(g, s)]
    <3>1. n \in Nat
      OBVIOUS
    <3> HIDE DEF Value
    <3> QED BY <1>2, <3>1
  <2>2. \A g : \A s \in SUBSET (1..n) : Folded(g, s) = Value(g, s)
    <3>1. \A s \in SUBSET (1..n) : s # {} => order[Max(s)] = Max(s)
      BY MaxOfInterval
    <3> HIDE DEF order
    <3> QED BY <3>1
  <2>3. DOMAIN order = 1..n
    OBVIOUS
  <2> HIDE DEF Value, Folded, order
  <2>4. PICK g : g = [s \in SUBSET (1..n) |-> Value(g, s)]
    BY <2>1
  <2>5. g = [s \in SUBSET (DOMAIN order) |-> Folded(g, s)]
    BY <2>2, <2>3, <2>4
  <2>6. folded = [s \in SUBSET (DOMAIN order) |-> Folded(folded, s)]
    BY <2>5
  <2> HIDE DEF folded
  <2> QED BY <2>2, <2>3, <2>6
<1> DEFINE f == [k \in 0..n |-> folded[1..k]]
<1>4. f[0] = st
  <2>1. 1..0 = {} /\ {} \in SUBSET (1..n)
    OBVIOUS
  <2>2. folded[{}] = Value(folded, {})
    <3> HIDE DEF folded, Value
    <3> QED BY <1>3, <2>1
  <2> HIDE DEF folded
  <2> QED BY <2>1, <2>2
<1>5. ASSUME NEW k \in 1..n
      PROVE  f[k] = WithNode(f[k - 1], d, st.nodes[Nth(source, k)].name, new[Nth(source, k)])
  <2>1. k \in Nat /\ 1..k \in SUBSET (1..n) /\ k \in 1..k /\ 1..k \in SUBSET (1..k)
    OBVIOUS
  <2>2. Max(1..k) = k
    <3>1. Max(1..k) \in 1..k /\ Max(1..k) >= k
      BY <2>1, MaxOfInterval
    <3> QED BY <2>1, <3>1
  <2>3. (1..k) \ {k} = 1..k - 1
    OBVIOUS
  <2>4. folded[1..k] = Value(folded, 1..k)
    <3> HIDE DEF folded, Value
    <3> QED BY <1>3, <2>1
  <2> HIDE DEF folded
  <2>5. f[k - 1] = folded[1..k - 1] /\ f[k] = folded[1..k]
    BY <2>1
  <2>6. 1..k # {}
    BY <2>1
  <2> QED BY <2>2, <2>3, <2>4, <2>5, <2>6
<1> HIDE DEF folded
<1>6. f[n] = folded[1..n]
  OBVIOUS
<1> QED BY <1>1, <1>4, <1>5, <1>6 DEF IsCopies

\* The nodes at some places copied to another device
LEMMA NodesCopied ==
  ASSUME NEW st, Valid(st), st.user, NEW source, source \subseteq 1..Len(st.nodes),
         Len(st.nodes) + Cardinality(source) <= MaxNodes,
         NEW from, \A i \in source : st.nodes[i].device = from,
         NEW d \in Device, \A i \in 1..Len(st.nodes) : st.nodes[i].device # d,
         NEW new \in [source -> Uuid], \A i, j \in source : i # j => new[i] # new[j],
         \A i \in 1..Len(st.nodes) : \A j \in source : st.nodes[i].uuid # new[j]
  PROVE  LET st1 == WithCopies(st, d, source, new)
         IN  Valid(st1) /\ Meets(st, st1)
<1> DEFINE n == Len(st.nodes)  c == Cardinality(source)  Place(k) == Nth(source, k)
           Good(v, k) ==
             /\ Valid(v) /\ v.user = st.user /\ Len(v.nodes) = n + k
             /\ \A i \in 1..n : v.nodes[i] = st.nodes[i]
             /\ \A j \in n + 1..n + k :
                  /\ v.nodes[j].device = d
                  /\ \A i \in 1..n : st.nodes[i].auth # v.nodes[j].auth
                  /\ \E l \in 1..k : v.nodes[j].name = st.nodes[Place(l)].name /\ v.nodes[j].uuid = new[Place(l)]
<1>1. n \in Nat /\ MaxNodes \in Nat
  BY NodesOf, RowsAssumption
<1>2. source \subseteq Nat /\ IsFiniteSet(source) /\ c \in Nat
  <2>1. IsFiniteSet(1..n)
    BY <1>1, FS_Interval
  <2>2. IsFiniteSet(source)
    BY <2>1, FS_Subset
  <2> QED BY <1>1, <2>2, FS_CardinalityType
<1>3. \A k \in 1..c : Place(k) \in source /\ \A l \in 1..c : Place(k) = Place(l) => k = l
  BY <1>2, Places
<1> HIDE DEF Place
<1>4. PICK f : IsCopies(f, st, d, source, new, c)
  BY <1>2, CopiesFold
<1>5. f[0] = st /\ f[c] = WithCopies(st, d, source, new)
  BY <1>4 DEF IsCopies
<1>6. \A k \in 1..c : f[k] = WithNode(f[k - 1], d, st.nodes[Place(k)].name, new[Place(k)])
  BY <1>4 DEF IsCopies, Place
<1>7. Good(f[0], 0)
  <2>1. n + 1..n + 0 = {} /\ n + 0 = n
    BY <1>1
  <2> QED BY <1>5, <2>1
<1>8. ASSUME NEW v, NEW k \in 1..c, Good(v, k - 1)
      PROVE  Good(WithNode(v, d, st.nodes[Place(k)].name, new[Place(k)]), k)
  <2> DEFINE name == st.nodes[Place(k)].name  x == new[Place(k)]  w == WithNode(v, d, name, x)
  <2>1. Place(k) \in source /\ Place(k) \in 1..n /\ name \in Name /\ x \in Uuid
    <3>1. Place(k) \in source /\ Place(k) \in 1..n
      BY <1>3
    <3>2. st.nodes[Place(k)] \in Node
      BY <3>1, NodesOf
    <3> QED BY <3>1, <3>2 DEF Node
  <2>2. ASSUME NEW i \in 1..Len(v.nodes)
        PROVE  v.nodes[i].uuid # x /\ ~(v.nodes[i].device = d /\ v.nodes[i].name = name)
    <3>1. CASE i \in 1..n
      BY <1>8, <2>1, <3>1
    <3>2. CASE i \in n + 1..n + k - 1
      <4>1. PICK l \in 1..k - 1 : v.nodes[i].name = st.nodes[Place(l)].name /\ v.nodes[i].uuid = new[Place(l)]
        BY <1>1, <1>8, <3>2
      <4>2. l \in 1..c /\ l # k
        BY <1>2
      <4>3. Place(l) \in source /\ Place(l) # Place(k) /\ Place(l) \in 1..n
        BY <1>3, <4>2
      <4>4. Apart(st.nodes[Place(l)], st.nodes[Place(k)])
        BY <2>1, <4>3, NodesOf
      <4>5. st.nodes[Place(l)].name # name
        BY <2>1, <4>3, <4>4 DEF Apart, SameKey
      <4>6. new[Place(l)] # x
        BY <2>1, <4>3
      <4> QED BY <4>1, <4>5, <4>6
    <3>3. i \in 1..n \/ i \in n + 1..n + k - 1
      BY <1>1, <1>8
    <3> QED BY <3>1, <3>2, <3>3
  <2>3. Valid(v) /\ v.user /\ Len(v.nodes) < MaxNodes /\ Len(v.nodes) = n + k - 1
    BY <1>1, <1>2, <1>8
  <2> DEFINE last == w.nodes[Len(v.nodes) + 1]
  <2>4. /\ Valid(w) /\ w.user = v.user /\ Len(w.nodes) = Len(v.nodes) + 1
        /\ \A i \in 1..Len(v.nodes) : w.nodes[i] = v.nodes[i] /\ v.nodes[i].auth # last.auth
        /\ last.device = d /\ last.name = name /\ last.uuid = x
    <3> HIDE DEF name, x
    <3>1. Unclaimed(v, d, name, x)
      BY <2>2 DEF Unclaimed
    <3>2. name \in Name /\ x \in Uuid /\ Room(v)
      BY <2>1, <2>3 DEF Room
    <3>3. Added(v, WithNode(v, d, name, x), d, name, x)
      BY <3>1, <3>2, NodeAdded
    <3>4. Added(v, w, d, name, x)
      BY <3>3
    <3> HIDE DEF w
    <3> QED BY <3>4 DEF Added, Appended
  <2> HIDE DEF w, name, x
  <2>5. Len(w.nodes) = n + k /\ w.user = st.user /\ last = w.nodes[n + k]
    BY <1>1, <1>8, <2>3, <2>4
  <2>6. \A i \in 1..n : w.nodes[i] = st.nodes[i] /\ st.nodes[i].auth # last.auth
    <3> TAKE i \in 1..n
    <3>1. i \in 1..Len(v.nodes) /\ v.nodes[i] = st.nodes[i]
      BY <1>1, <1>8, <2>3
    <3> HIDE DEF last
    <3> QED BY <2>4, <3>1
  <2>7. ASSUME NEW j \in n + 1..n + k
        PROVE  /\ w.nodes[j].device = d
               /\ \A i \in 1..n : st.nodes[i].auth # w.nodes[j].auth
               /\ \E l \in 1..k : w.nodes[j].name = st.nodes[Place(l)].name /\ w.nodes[j].uuid = new[Place(l)]
    <3>1. CASE j = n + k
      BY <2>4, <2>5, <2>6, <3>1 DEF name, x
    <3>2. CASE j \in n + 1..n + k - 1
      <4>1. w.nodes[j] = v.nodes[j]
        BY <1>1, <2>3, <2>4, <3>2
      <4>2. PICK l \in 1..k - 1 : v.nodes[j].name = st.nodes[Place(l)].name /\ v.nodes[j].uuid = new[Place(l)]
        BY <1>1, <1>8, <3>2
      <4>3. v.nodes[j].device = d /\ \A i \in 1..n : st.nodes[i].auth # v.nodes[j].auth
        BY <1>1, <1>8, <3>2
      <4>4. l \in 1..k
        OBVIOUS
      <4> QED BY <4>1, <4>2, <4>3, <4>4
    <3>3. j = n + k \/ j \in n + 1..n + k - 1
      <4>1. k \in Nat
        BY <1>2
      <4> QED BY <1>1, <4>1
    <3> QED BY <3>1, <3>2, <3>3
  <2>8. Good(w, k)
    BY <2>4, <2>5, <2>6, <2>7
  <2> QED BY <2>8 DEF w, name, x
<1> DEFINE Bad == {k \in 0..c : ~Good(f[k], k)}
<1>9. Bad = {}
  <2> SUFFICES ASSUME NEW k \in Bad PROVE \E l \in Bad : l < k
    <3>1. Bad \subseteq Nat
      <4> HIDE DEF Good
      <4> QED OBVIOUS
    <3> HIDE DEF Bad
    <3> QED BY <3>1, NoneFails
  <2> HIDE DEF Good
  <2>1. k # 0
    BY <1>7
  <2>2. k \in 1..c /\ k - 1 \in 0..c
    BY <1>2, <2>1
  <2>3. ~Good(f[k - 1], k - 1)
    BY <1>6, <1>8, <2>2
  <2> QED BY <2>2, <2>3
<1> DEFINE st1 == f[c]
<1>10. Good(st1, c)
  <2> HIDE DEF Good
  <2> QED BY <1>2, <1>9
<1>11. ASSUME NEW j \in 1..Len(st1.nodes), NEW i \in 1..n
       PROVE  LET o == st.nodes[i]
                  m == st1.nodes[j]
              IN  SameKey(o, m) \/ (o.auth # m.auth /\ o.uuid # m.uuid)
  <2>1. CASE j \in 1..n
    <3>1. st1.nodes[j] = st.nodes[j]
      BY <1>10, <2>1
    <3>2. i # j => Apart(st.nodes[i], st.nodes[j])
      BY <2>1, NodesOf
    <3> QED BY <3>1, <3>2 DEF Apart, SameKey
  <2>2. CASE j \in n + 1..n + c
    <3>1. PICK l \in 1..c : st1.nodes[j].uuid = new[Place(l)]
      BY <1>10, <2>2
    <3>2. st.nodes[i].uuid # st1.nodes[j].uuid
      BY <1>3, <3>1
    <3>3. st.nodes[i].auth # st1.nodes[j].auth
      BY <1>10, <2>2
    <3> QED BY <3>2, <3>3
  <2>3. j \in 1..n \/ j \in n + 1..n + c
    BY <1>1, <1>2, <1>10
  <2> QED BY <2>1, <2>2, <2>3
<1>12. Meets(st, st1)
  BY <1>11 DEF Meets
<1> QED BY <1>5, <1>10, <1>12

\* Some nodes taken out
LEMMA NodesTaken ==
  ASSUME NEW st, Valid(st), st.user, NEW gone
  PROVE  LET st1 == Without(st, gone)
         IN  /\ Valid(st1) /\ st1.user = st.user /\ st1.groups = st.groups /\ st1.group = st.group
             /\ \A j \in 1..Len(st1.nodes) : \E i \in 1..Len(st.nodes) : st1.nodes[j] = st.nodes[i]
             /\ Len(st1.nodes) <= Len(st.nodes)
             /\ (\E i \in 1..Len(st.nodes) : st.nodes[i] \in gone) => Len(st1.nodes) < Len(st.nodes)
<1> DEFINE n == Len(st.nodes)  kept == {i \in DOMAIN st.nodes : st.nodes[i] \notin gone}  c == Cardinality(kept)
           nodes == [k \in 1..c |-> st.nodes[Nth(kept, k)]]
<1>1. n \in Nat /\ DOMAIN st.nodes = 1..n /\ n <= MaxNodes /\ MaxNodes \in Nat
  BY NodesOf, RowsAssumption DEF Valid
<1>2. IsFiniteSet(1..n) /\ Cardinality(1..n) = n
  BY <1>1, FS_Interval
<1>3. kept \subseteq 1..n /\ kept \subseteq Nat
  BY <1>1
<1>4. IsFiniteSet(kept) /\ c \in Nat /\ c <= n /\ (kept # 1..n => c < n)
  <2> HIDE DEF kept
  <2>1. IsFiniteSet(kept) /\ c <= n /\ (kept # 1..n => c # n)
    BY <1>2, <1>3, FS_Subset
  <2>2. c \in Nat
    BY <2>1, FS_CardinalityType
  <2> QED BY <1>1, <2>1, <2>2
<1>5. \A k \in 1..c : Nth(kept, k) \in kept /\ Nth(kept, k) \in 1..n /\ \A l \in 1..c : Nth(kept, k) = Nth(kept, l) => k = l
  <2> HIDE DEF kept
  <2> QED BY <1>3, <1>4, Places
<1>6. Without(st, gone) = WithNodes(st, nodes)
  BY DEF Without, WithNodes
<1>7. (\E i \in 1..n : st.nodes[i] \in gone) => kept # 1..n
  OBVIOUS
<1> HIDE DEF kept
<1>8. nodes \in Seq(Node) /\ Len(nodes) = c
  BY <1>4, <1>5, NodesOf
<1>9. \A i, j \in 1..c : i # j => Apart(nodes[i], nodes[j])
  BY <1>5, NodesOf
<1>10. \A j \in 1..c : \E i \in 1..n : nodes[j] = st.nodes[i]
  BY <1>5
<1> HIDE DEF nodes
<1> DEFINE st1 == WithNodes(st, nodes)
<1>11. Valid(st1) /\ st1.user = st.user /\ st1.groups = st.groups /\ st1.group = st.group /\ st1.nodes = nodes
  <2>1. Len(nodes) <= MaxNodes
    BY <1>1, <1>4, <1>8
  <2> QED BY <1>8, <1>9, <2>1, NodesReplaced
<1> HIDE DEF st1
<1>12. Without(st, gone) = st1
  BY <1>6 DEF st1
<1> QED BY <1>4, <1>7, <1>8, <1>10, <1>11, <1>12

\* Nothing is in the way of nodes there were.
LEMMA FewerMeet ==
  ASSUME NEW old, Valid(old), NEW st,
         \A j \in 1..Len(st.nodes) : \E i \in 1..Len(old.nodes) : st.nodes[j] = old.nodes[i]
  PROVE  Meets(old, st)
BY NodesOf DEF Meets, Apart, SameKey

\* What an edit does: a State that is valid, and that nothing in the rows of the
\* State before it is in the way of.
Edited ==
  /\ phase = "open" /\ edits < Batch /\ edits' = edits + 1
  /\ UNCHANGED <<file, snap, backup, phase, clash>>
  /\ Valid(mem') /\ Meets(mem, mem')

\* An edit to a valid State that nothing is in the way of
LEMMA EditDone ==
  ASSUME NEW st, Editing(st), Valid(st), Meets(mem, st)
  PROVE  Edited
BY DEF Editing, Edited

\* A uuid drawn anew is nobody's.
LEMMA FreshIsNew ==
  ASSUME NEW x \in Fresh
  PROVE  x \in Uuid /\ \A i \in DOMAIN mem.nodes : mem.nodes[i].uuid # x
BY DEF Fresh, Used

\* Nodes are a user's.
LEMMA UserOfNodes ==
  ASSUME NEW st, Valid(st), NEW i \in DOMAIN st.nodes
  PROVE  st.user /\ st.user = TRUE /\ i \in 1..Len(st.nodes) /\ st.nodes[i] \in Node
<1>1. DOMAIN st.nodes = 1..Len(st.nodes) /\ \A j \in 1..Len(st.nodes) : st.nodes[j] \in Node
  BY NodesOf
<1>2. st.nodes # <<>>
  OBVIOUS
<1>3. st.user /\ st.user \in BOOLEAN
  BY <1>2 DEF Valid, StateType
<1> QED BY <1>1, <1>3

\* user add: the first node meets no other.
LEMMA AddUserEdits == ASSUME Valid(mem), AddUser PROVE Edited
<1>1. PICK d \in Device, n \in Name, x \in Fresh :
        ~mem.user /\ Editing([Absent EXCEPT !.groups = mem.groups, !.alerts = mem.alerts, !.user = TRUE,
                                !.nodes = <<NewNode(mem, <<"user">>, d, n, x)>>])
  BY DEF AddUser
<1> DEFINE new == NewNode(mem, <<"user">>, d, n, x)
           st == [Absent EXCEPT !.groups = mem.groups, !.alerts = mem.alerts, !.user = TRUE, !.nodes = <<new>>]
<1>2. new \in Node
  <2>1. x \in Uuid
    BY FreshIsNew
  <2>2. <<"user">> \in {<<"user">>} \cup {<<e, Slug[m]>> : e \in Device, m \in Name}
    OBVIOUS
  <2> DEFINE base == <<"user">>
  <2> HIDE DEF base
  <2>3. NewNode(mem, base, d, n, x) \in Node
    BY <2>1, <2>2, NewNodeIsNew DEF base
  <2> QED BY <2>3 DEF base
<1> HIDE DEF new
<1>3. mem \in StateType /\ mem.nodes = <<>>
  BY <1>1 DEF Valid
<1>4. /\ st.groups = mem.groups /\ st.group = NoGroup /\ st.user = TRUE /\ st.seen = <<>>
      /\ st.nodes = <<new>> /\ st.alerts = mem.alerts
      /\ st \in StateType
  <2>1. /\ st.groups = mem.groups /\ st.group = NoGroup /\ st.user = TRUE /\ st.seen = <<>>
        /\ st.nodes = <<new>> /\ st.alerts = mem.alerts
    BY DEF Absent
  <2>2. mem.groups \in SUBSET Group /\ mem.alerts \in Seq(BOOLEAN) /\ <<new>> \in Seq(Node) /\ <<>> \in Seq(Moment)
    BY <1>2, <1>3 DEF StateType
  <2>3. Absent \in StateType
    BY DEF Absent, StateType
  <2>4. st \in StateType
    BY <2>2, <2>3 DEF StateType
  <2> QED BY <2>1, <2>4
<1>5. Editing(st)
  BY <1>1 DEF new
<1> HIDE DEF st
<1>6. Valid(st)
  <2>1. Len(st.nodes) = 1 /\ DOMAIN st.nodes = {1} /\ 1 <= MaxNodes
    BY <1>4, RowsAssumption
  <2>2. \A i, j \in DOMAIN st.nodes : i = j
    BY <2>1
  <2> QED BY <1>4, <2>1, <2>2 DEF Valid
<1>7. Meets(mem, st)
  <2>1. 1..Len(mem.nodes) = {}
    BY <1>3
  <2> QED BY <2>1 DEF Meets
<1> QED BY <1>5, <1>6, <1>7, EditDone

\* user delete: nothing is left to meet.
LEMMA RemoveUserEdits == ASSUME Valid(mem), RemoveUser PROVE Edited
<1> DEFINE st == [Absent EXCEPT !.groups = mem.groups, !.alerts = mem.alerts]
<1>1. /\ st.groups = mem.groups /\ st.group = NoGroup /\ st.user = FALSE /\ st.seen = <<>>
      /\ st.nodes = <<>> /\ st.alerts = mem.alerts
  BY DEF Absent
<1>2. mem.groups \in SUBSET Group /\ mem.alerts \in Seq(BOOLEAN) /\ <<>> \in Seq(Node) /\ <<>> \in Seq(Moment)
  BY DEF Valid, StateType
<1>3. Editing(st)
  BY DEF RemoveUser
<1>4. st \in StateType
  <2>1. Absent \in StateType
    BY DEF Absent, StateType
  <2> QED BY <1>2, <2>1 DEF StateType
<1> HIDE DEF st
<1>5. Valid(st)
  BY <1>1, <1>4, RowsAssumption DEF Valid
<1>6. Meets(mem, st)
  <2>1. 1..Len(st.nodes) = {}
    BY <1>1
  <2> QED BY <2>1 DEF Meets
<1> QED BY <1>3, <1>5, <1>6, EditDone

\* node add: the auth_user and the uuid are new.
LEMMA AddNodeEdits == ASSUME Valid(mem), AddNode PROVE Edited
<1>1. PICK d \in Devices(mem), x \in Fresh : \E n \in Name \ Names(mem, d) :
        mem.user /\ Len(mem.nodes) < MaxNodes /\ Editing(WithNode(mem, d, n, x))
  BY DEF AddNode
<1>2. PICK n \in Name \ Names(mem, d) :
        mem.user /\ Len(mem.nodes) < MaxNodes /\ Editing(WithNode(mem, d, n, x))
  BY <1>1
<1>3. /\ DOMAIN mem.nodes = 1..Len(mem.nodes) /\ Len(mem.nodes) \in Nat
      /\ \A i \in 1..Len(mem.nodes) : mem.nodes[i] \in Node
  BY NodesOf
<1>4. d \in Device /\ x \in Uuid /\ n \in Name
  BY <1>3, FreshIsNew DEF Devices, Node
<1>5. Unclaimed(mem, d, n, x)
  BY <1>3, FreshIsNew DEF Unclaimed, Names, On
<1>6. Room(mem)
  BY <1>2 DEF Room
<1> DEFINE st == WithNode(mem, d, n, x)  new == st.nodes[Len(mem.nodes) + 1]
<1>7. Added(mem, st, d, n, x)
  BY <1>4, <1>5, <1>6, NodeAdded
<1>8. Editing(st)
  BY <1>2
<1> HIDE DEF st
<1>9. /\ Valid(st) /\ Len(st.nodes) = Len(mem.nodes) + 1
      /\ \A i \in 1..Len(mem.nodes) : st.nodes[i] = mem.nodes[i] /\ mem.nodes[i].auth # new.auth
      /\ new.uuid = x
  BY <1>7 DEF Added, Appended
<1>10. Meets(mem, st)
  <2> SUFFICES ASSUME NEW j \in 1..Len(st.nodes), NEW i \in 1..Len(mem.nodes)
               PROVE  LET o == mem.nodes[i]
                          m == st.nodes[j]
                      IN  SameKey(o, m) \/ (o.auth # m.auth /\ o.uuid # m.uuid)
    BY DEF Meets
  <2>1. CASE j = Len(mem.nodes) + 1
    BY <1>3, <1>9, <2>1, FreshIsNew
  <2>2. CASE j \in 1..Len(mem.nodes)
    <3>1. i # j => Apart(mem.nodes[i], mem.nodes[j])
      BY <2>2, NodesOf
    <3> QED BY <1>9, <2>2, <3>1 DEF Apart, SameKey
  <2> QED BY <1>3, <1>9, <2>1, <2>2
<1> QED BY <1>8, <1>9, <1>10, EditDone

\* device add: so are those of every copy.
LEMMA AddDeviceEdits == ASSUME Valid(mem), AddDevice PROVE Edited
<1>1. PICK d \in Device \ Devices(mem), from \in Devices(mem) :
        LET source == On(mem, from)
        IN  /\ Len(mem.nodes) + Cardinality(source) <= MaxNodes
            /\ \E new \in [source -> Fresh] : IsInjective(new) /\ Editing(WithCopies(mem, d, source, new))
  BY DEF AddDevice
<1> DEFINE source == On(mem, from)
<1>2. PICK new \in [source -> Fresh] : IsInjective(new) /\ Editing(WithCopies(mem, d, source, new))
  BY <1>1
<1>3. /\ DOMAIN mem.nodes = 1..Len(mem.nodes) /\ source \subseteq 1..Len(mem.nodes)
      /\ \A i \in source : mem.nodes[i].device = from
      /\ \A i \in 1..Len(mem.nodes) : mem.nodes[i].device # d
  BY NodesOf DEF On, Devices
<1>4. Len(mem.nodes) + Cardinality(source) <= MaxNodes
  BY <1>1
<1>5. mem.user
  <2>1. PICK i \in DOMAIN mem.nodes : mem.nodes[i].device = from
    BY DEF Devices
  <2> QED BY <2>1, UserOfNodes
<1> HIDE DEF source
<1>6. /\ new \in [source -> Uuid] /\ \A i, j \in source : i # j => new[i] # new[j]
      /\ \A i \in 1..Len(mem.nodes) : \A j \in source : mem.nodes[i].uuid # new[j]
  <2>1. \A j \in source : new[j] \in Uuid /\ \A i \in DOMAIN mem.nodes : mem.nodes[i].uuid # new[j]
    BY FreshIsNew
  <2>2. \A i, j \in source : i # j => new[i] # new[j]
    BY <1>2 DEF IsInjective
  <2> QED BY <1>3, <2>1, <2>2
<1> DEFINE st == WithCopies(mem, d, source, new)
<1>7. Valid(st) /\ Meets(mem, st)
  <2>1. d \in Device
    OBVIOUS
  <2>2. LET v == WithCopies(mem, d, source, new) IN Valid(v) /\ Meets(mem, v)
    BY <1>3, <1>4, <1>5, <1>6, <2>1, NodesCopied
  <2> QED BY <2>2
<1>8. Editing(st)
  BY <1>2
<1> HIDE DEF st
<1> QED BY <1>7, <1>8, EditDone

\* What stays is in nobody's way.
LEMMA TakenMeets ==
  ASSUME NEW gone, Valid(mem), mem.user
  PROVE  Valid(Without(mem, gone)) /\ Meets(mem, Without(mem, gone))
<1> DEFINE st == Without(mem, gone)
<1>1. /\ Valid(st)
      /\ \A j \in 1..Len(st.nodes) : \E i \in 1..Len(mem.nodes) : st.nodes[j] = mem.nodes[i]
  BY NodesTaken
<1> HIDE DEF st
<1>2. Meets(mem, st)
  BY <1>1, FewerMeet
<1> QED BY <1>1, <1>2 DEF st

\* node delete
LEMMA RemoveNodeEdits == ASSUME Valid(mem), RemoveNode PROVE Edited
<1>1. PICK i \in DOMAIN mem.nodes : Editing(Without(mem, {mem.nodes[i]}))
  BY DEF RemoveNode
<1> DEFINE st == Without(mem, {mem.nodes[i]})
<1>2. Valid(st) /\ Meets(mem, st) /\ Editing(st)
  BY <1>1, UserOfNodes, TakenMeets
<1> HIDE DEF st
<1> QED BY <1>2, EditDone

\* device delete
LEMMA RemoveDeviceEdits == ASSUME Valid(mem), RemoveDevice PROVE Edited
<1>1. PICK d \in Devices(mem) : Editing(Without(mem, {mem.nodes[i] : i \in On(mem, d)}))
  BY DEF RemoveDevice
<1>2. mem.user
  <2>1. PICK i \in DOMAIN mem.nodes : mem.nodes[i].device = d
    BY DEF Devices
  <2> QED BY <2>1, UserOfNodes
<1> DEFINE st == Without(mem, {mem.nodes[i] : i \in On(mem, d)})
<1>3. Valid(st) /\ Meets(mem, st) /\ Editing(st)
  BY <1>1, <1>2, TakenMeets
<1> HIDE DEF st
<1> QED BY <1>3, EditDone

\* An assignment: the row that goes is still there when the new node is written,
\* and has another auth_user because it counted when that was chosen.
LEMMA AssignEdits == ASSUME Valid(mem), Assign PROVE Edited
<1>1. PICK i \in DOMAIN mem.nodes, x \in Fresh :
        LET d == mem.nodes[i].device
            kept == Without(mem, {mem.nodes[i]})
        IN  \E n \in Name \ Names(kept, d) :
              Editing([kept EXCEPT !.nodes = Append(@, NewNode(AuthSource(kept), <<d, Slug[n]>>, d, n, x))])
  BY DEF Assign
<1> DEFINE d == mem.nodes[i].device  gone == {mem.nodes[i]}  kept == Without(mem, gone)
<1>2. PICK n \in Name \ Names(kept, d) :
        Editing([kept EXCEPT !.nodes = Append(@, NewNode(mem, <<d, Slug[n]>>, d, n, x))])
  BY <1>1 DEF AuthSource
<1> DEFINE base == <<d, Slug[n]>>  new == NewNode(mem, base, d, n, x)  st == WithNodes(kept, Append(kept.nodes, new))
<1>3. Editing(st)
  BY <1>2 DEF WithNodes
<1>4. mem.user /\ d \in Device /\ i \in 1..Len(mem.nodes) /\ mem.nodes[i] \in gone
  BY UserOfNodes DEF Node
<1>5. x \in Uuid /\ \A l \in 1..Len(mem.nodes) : mem.nodes[l].uuid # x
  BY FreshIsNew, NodesOf
<1>6. base \in {<<"user">>} \cup {<<e, Slug[m]>> : e \in Device, m \in Name} /\ n \in Name
  BY <1>4
<1> HIDE DEF d, gone
<1>7. /\ Valid(kept) /\ kept.user = mem.user
      /\ \A j \in 1..Len(kept.nodes) : \E l \in 1..Len(mem.nodes) : kept.nodes[j] = mem.nodes[l]
      /\ Len(kept.nodes) < Len(mem.nodes)
  <2>1. /\ Valid(kept) /\ kept.user = mem.user /\ kept.groups = mem.groups /\ kept.group = mem.group
        /\ \A j \in 1..Len(kept.nodes) : \E l \in 1..Len(mem.nodes) : kept.nodes[j] = mem.nodes[l]
        /\ Len(kept.nodes) <= Len(mem.nodes)
        /\ (\E l \in 1..Len(mem.nodes) : mem.nodes[l] \in gone) => Len(kept.nodes) < Len(mem.nodes)
    BY <1>4, NodesTaken
  <2> HIDE DEF kept
  <2> QED BY <1>4, <2>1
<1>8. \A j \in DOMAIN kept.nodes : ~(kept.nodes[j].device = d /\ kept.nodes[j].name = n)
  BY DEF Names, On
<1> HIDE DEF kept, base
<1>9. /\ new \in Node /\ new.device = d /\ new.name = n /\ new.uuid = x
      /\ \A l \in 1..Len(mem.nodes) : mem.nodes[l].auth # new.auth
  BY <1>4, <1>5, <1>6, NewNodeIsNew
<1> HIDE DEF new
<1>10. Room(kept)
  <2>1. /\ Len(mem.nodes) \in Nat /\ Len(mem.nodes) <= MaxNodes /\ MaxNodes \in Nat
        /\ Len(kept.nodes) \in Nat
    BY <1>7, NodesOf, RowsAssumption DEF Valid
  <2> QED BY <1>4, <1>7, <2>1 DEF Room
<1>11. \A j \in 1..Len(kept.nodes) : Apart(kept.nodes[j], new)
  <2>1. DOMAIN kept.nodes = 1..Len(kept.nodes)
    BY <1>7, NodesOf
  <2> QED BY <1>5, <1>7, <1>8, <1>9, <2>1 DEF Apart, SameKey
<1>12. Appended(kept, st, new)
  BY <1>9, <1>10, <1>11, NodeAppended
<1> HIDE DEF st
<1>13. /\ Valid(st) /\ Len(st.nodes) = Len(kept.nodes) + 1 /\ st.nodes[Len(kept.nodes) + 1] = new
       /\ \A j \in 1..Len(kept.nodes) : st.nodes[j] = kept.nodes[j]
  BY <1>12 DEF Appended
<1>14. Meets(mem, st)
  <2> SUFFICES ASSUME NEW j \in 1..Len(st.nodes), NEW l \in 1..Len(mem.nodes)
               PROVE  LET o == mem.nodes[l]
                          m == st.nodes[j]
                      IN  SameKey(o, m) \/ (o.auth # m.auth /\ o.uuid # m.uuid)
    BY DEF Meets
  <2>1. CASE j = Len(kept.nodes) + 1
    BY <1>5, <1>9, <1>13, <2>1
  <2>2. CASE j \in 1..Len(kept.nodes)
    <3>1. PICK k \in 1..Len(mem.nodes) : st.nodes[j] = mem.nodes[k]
      BY <1>7, <1>13, <2>2
    <3>2. l # k => Apart(mem.nodes[l], mem.nodes[k])
      BY NodesOf
    <3> QED BY <3>1, <3>2 DEF Apart, SameKey
  <2>3. Len(kept.nodes) \in Nat
    BY <1>7, NodesOf
  <2> QED BY <1>13, <2>1, <2>2, <2>3
<1> QED BY <1>3, <1>13, <1>14, EditDone

\* node rename: the same row, under a name no row has.
LEMMA RenameNodeEdits == ASSUME Valid(mem), RenameNode PROVE Edited
<1>1. PICK i \in DOMAIN mem.nodes : \E n \in Name \ Names(mem, mem.nodes[i].device) :
        Editing([mem EXCEPT !.nodes[i].name = n])
  BY DEF RenameNode
<1>2. PICK n \in Name \ Names(mem, mem.nodes[i].device) : Editing([mem EXCEPT !.nodes[i].name = n])
  BY <1>1
<1> DEFINE new == [mem.nodes[i] EXCEPT !.name = n]  nodes == [mem.nodes EXCEPT ![i] = new]  st == WithNodes(mem, nodes)
<1>3. Editing(st)
  BY <1>2 DEF WithNodes
<1>4. /\ DOMAIN mem.nodes = 1..Len(mem.nodes) /\ Len(mem.nodes) \in Nat /\ mem.nodes \in Seq(Node)
      /\ \A l \in 1..Len(mem.nodes) : mem.nodes[l] \in Node
      /\ \A l, k \in 1..Len(mem.nodes) : l # k => Apart(mem.nodes[l], mem.nodes[k])
      /\ mem.user /\ Len(mem.nodes) <= MaxNodes
  BY NodesOf, UserOfNodes DEF Valid
<1>5. /\ new \in Node /\ new.device = mem.nodes[i].device /\ new.name = n
      /\ new.auth = mem.nodes[i].auth /\ new.uuid = mem.nodes[i].uuid
  BY <1>4 DEF Node
<1> HIDE DEF new
<1>6. nodes \in Seq(Node) /\ Len(nodes) = Len(mem.nodes) /\ nodes[i] = new
  BY <1>4, <1>5
<1>7. \A l \in 1..Len(mem.nodes) : l # i => nodes[l] = mem.nodes[l]
  BY <1>4
<1>8. \A l \in 1..Len(mem.nodes) : ~SameKey(mem.nodes[l], new)
  BY <1>4, <1>5 DEF Names, On, SameKey
<1> HIDE DEF nodes
<1>9. \A l, k \in 1..Len(nodes) : l # k => Apart(nodes[l], nodes[k])
  <2> SUFFICES ASSUME NEW l \in 1..Len(mem.nodes), NEW k \in 1..Len(mem.nodes), l # k
               PROVE  Apart(nodes[l], nodes[k])
    BY <1>6
  <2>1. Apart(mem.nodes[l], mem.nodes[k])
    BY <1>4
  <2>2. CASE l = i
    <3>1. nodes[l] = new /\ nodes[k] = mem.nodes[k] /\ ~SameKey(mem.nodes[k], new)
      BY <1>6, <1>7, <1>8, <2>2
    <3> QED BY <1>5, <2>1, <2>2, <3>1 DEF Apart, SameKey
  <2>3. CASE k = i
    <3>1. nodes[k] = new /\ nodes[l] = mem.nodes[l] /\ ~SameKey(mem.nodes[l], new)
      BY <1>6, <1>7, <1>8, <2>3
    <3> QED BY <1>5, <2>1, <2>3, <3>1 DEF Apart, SameKey
  <2>4. CASE l # i /\ k # i
    BY <1>7, <2>1, <2>4
  <2> QED BY <2>2, <2>3, <2>4
<1>10. Valid(st) /\ st.nodes = nodes
  BY <1>4, <1>6, <1>9, NodesReplaced
<1> HIDE DEF st
<1>11. Meets(mem, st)
  <2> SUFFICES ASSUME NEW j \in 1..Len(mem.nodes), NEW l \in 1..Len(mem.nodes)
               PROVE  LET o == mem.nodes[l]
                          m == nodes[j]
                      IN  \/ SameKey(o, m)
                          \/ o.auth # m.auth /\ o.uuid # m.uuid
                          \/ /\ o.device = m.device /\ o.auth = m.auth /\ o.uuid = m.uuid
                             /\ \A k \in 1..Len(mem.nodes) : ~SameKey(mem.nodes[k], m)
    BY <1>6, <1>10 DEF Meets
  <2>1. l # j => Apart(mem.nodes[l], mem.nodes[j])
    BY <1>4
  <2>2. CASE j = i /\ l = i
    BY <1>5, <1>6, <1>8, <2>2
  <2>3. CASE j = i /\ l # i
    BY <1>5, <1>6, <2>1, <2>3 DEF Apart
  <2>4. CASE j # i
    BY <1>7, <2>1, <2>4 DEF Apart, SameKey
  <2> QED BY <2>2, <2>3, <2>4
<1> QED BY <1>3, <1>10, <1>11, EditDone

\* device rotate: the same rows with uuids no row has.
LEMMA RotateDeviceEdits == ASSUME Valid(mem), RotateDevice PROVE Edited
<1>1. PICK d \in Devices(mem), new \in [DOMAIN mem.nodes -> Fresh] :
        /\ \A i, j \in On(mem, d) : i # j => new[i] # new[j]
        /\ Editing([mem EXCEPT !.nodes = [i \in DOMAIN @ |->
             IF @[i].device = d THEN [@[i] EXCEPT !.uuid = new[i]] ELSE @[i]]])
  BY DEF RotateDevice
<1> DEFINE node(i) == IF mem.nodes[i].device = d THEN [mem.nodes[i] EXCEPT !.uuid = new[i]] ELSE mem.nodes[i]
           nodes == [i \in DOMAIN mem.nodes |-> node(i)]
           st == WithNodes(mem, nodes)
<1>2. Editing(st)
  BY <1>1 DEF WithNodes
<1>3. mem.user
  <2>1. PICK i \in DOMAIN mem.nodes : mem.nodes[i].device = d
    BY DEF Devices
  <2> QED BY <2>1, UserOfNodes
<1>4. /\ DOMAIN mem.nodes = 1..Len(mem.nodes) /\ Len(mem.nodes) \in Nat /\ Len(mem.nodes) <= MaxNodes
      /\ \A l \in 1..Len(mem.nodes) : mem.nodes[l] \in Node
      /\ \A l, k \in 1..Len(mem.nodes) : l # k => Apart(mem.nodes[l], mem.nodes[k])
  BY NodesOf DEF Valid
<1>5. \A i \in 1..Len(mem.nodes) : new[i] \in Uuid /\ \A l \in 1..Len(mem.nodes) : mem.nodes[l].uuid # new[i]
  BY <1>4, FreshIsNew
<1>6. ASSUME NEW i \in 1..Len(mem.nodes)
      PROVE  /\ node(i) \in Node
             /\ node(i).device = mem.nodes[i].device /\ node(i).name = mem.nodes[i].name
             /\ node(i).auth = mem.nodes[i].auth
             /\ node(i).uuid = IF mem.nodes[i].device = d THEN new[i] ELSE mem.nodes[i].uuid
  BY <1>4, <1>5 DEF Node
<1>7. \A i \in 1..Len(mem.nodes) : nodes[i] = node(i)
  BY <1>4
<1> HIDE DEF node
<1>8. nodes \in Seq(Node) /\ Len(nodes) = Len(mem.nodes)
  BY <1>4, <1>6
<1> HIDE DEF nodes
<1>9. \A i, j \in On(mem, d) : i # j => new[i] # new[j]
  BY <1>1
<1>10. ASSUME NEW l \in 1..Len(mem.nodes), NEW k \in 1..Len(mem.nodes), l # k
       PROVE  Apart(nodes[l], nodes[k])
  <2>1. Apart(mem.nodes[l], mem.nodes[k])
    BY <1>4, <1>10
  <2>2. nodes[l].uuid # nodes[k].uuid
    <3>1. CASE mem.nodes[l].device = d /\ mem.nodes[k].device = d
      <4>1. l \in On(mem, d) /\ k \in On(mem, d)
        BY <1>4, <3>1 DEF On
      <4> QED BY <1>6, <1>7, <1>9, <1>10, <3>1, <4>1
    <3>2. CASE ~(mem.nodes[l].device = d /\ mem.nodes[k].device = d)
      BY <1>5, <1>6, <1>7, <2>1, <3>2 DEF Apart
    <3> QED BY <3>1, <3>2
  <2> QED BY <1>6, <1>7, <2>1, <2>2 DEF Apart, SameKey
<1>11. Valid(st) /\ st.nodes = nodes
  BY <1>3, <1>4, <1>8, <1>10, NodesReplaced
<1> HIDE DEF st
<1>12. Meets(mem, st)
  <2> SUFFICES ASSUME NEW j \in 1..Len(mem.nodes), NEW l \in 1..Len(mem.nodes)
               PROVE  LET o == mem.nodes[l]
                          m == nodes[j]
                      IN  SameKey(o, m) \/ (o.auth # m.auth /\ o.uuid # m.uuid)
    BY <1>8, <1>11 DEF Meets
  <2>1. l # j => Apart(mem.nodes[l], mem.nodes[j])
    BY <1>4
  <2> QED BY <1>5, <1>6, <1>7, <2>1 DEF Apart, SameKey
<1> QED BY <1>2, <1>11, <1>12, EditDone

\* group add
LEMMA AddGroupEdits == ASSUME Valid(mem), AddGroup PROVE Edited
<1>1. PICK g \in Group \ mem.groups : Editing([mem EXCEPT !.groups = @ \cup {g}])
  BY DEF AddGroup
<1> DEFINE st == [mem EXCEPT !.groups = @ \cup {g}]
<1>2. /\ st \in StateType /\ st.groups = mem.groups \cup {g} /\ st.group = mem.group /\ st.user = mem.user
      /\ st.seen = mem.seen /\ st.nodes = mem.nodes
  BY DEF Valid, StateType
<1>3. Editing(st)
  BY <1>1
<1> HIDE DEF st
<1>4. Valid(st)
  BY <1>2 DEF Valid
<1>5. Meets(mem, st)
  BY <1>2, SameNodesMeet
<1> QED BY <1>3, <1>4, <1>5, EditDone

\* group move: into one that exists, or out of any.
LEMMA JoinGroupEdits == ASSUME Valid(mem), JoinGroup PROVE Edited
<1>1. PICK g \in mem.groups \cup {NoGroup} : mem.user /\ Editing([mem EXCEPT !.group = g])
  BY DEF JoinGroup
<1> DEFINE st == [mem EXCEPT !.group = g]
<1>2. /\ st \in StateType /\ st.groups = mem.groups /\ st.group = g /\ st.user = mem.user
      /\ st.seen = mem.seen /\ st.nodes = mem.nodes
  BY DEF Valid, StateType
<1>3. Editing(st)
  BY <1>1
<1> HIDE DEF st
<1>4. Valid(st)
  BY <1>1, <1>2 DEF Valid
<1>5. Meets(mem, st)
  BY <1>2, SameNodesMeet
<1> QED BY <1>3, <1>4, <1>5, EditDone

\* group delete: the user's own stays.
LEMMA RemoveGroupEdits == ASSUME Valid(mem), RemoveGroup PROVE Edited
<1>1. PICK g \in mem.groups \ {mem.group} : Editing([mem EXCEPT !.groups = @ \ {g}])
  BY DEF RemoveGroup
<1> DEFINE st == [mem EXCEPT !.groups = @ \ {g}]
<1>2. /\ st \in StateType /\ st.groups = mem.groups \ {g} /\ st.group = mem.group /\ st.user = mem.user
      /\ st.seen = mem.seen /\ st.nodes = mem.nodes
  BY DEF Valid, StateType
<1>3. Editing(st)
  BY <1>1
<1> HIDE DEF st
<1>4. Valid(st)
  BY <1>2 DEF Valid
<1>5. Meets(mem, st)
  BY <1>2, SameNodesMeet
<1> QED BY <1>3, <1>4, <1>5, EditDone

\* A bounded log is a list.
LEMMA LogIsList ==
  ASSUME NEW S, NEW log \in Seq(S), NEW x \in S
  PROVE  Log(log, x) \in Seq(S)
<1>1. CASE Len(log) < MaxLog
  BY <1>1 DEF Log
<1>2. CASE ~(Len(log) < MaxLog)
  <2>1. log # <<>>
    BY <1>2, RowsAssumption
  <2>2. Tail(log) \in Seq(S)
    BY <2>1
  <2> QED BY <1>2, <2>2 DEF Log
<1> QED BY <1>1, <1>2

\* A sample is taken.
LEMMA SampleEdits ==
  ASSUME Valid(mem), mem.user, NEW at \in Moment, Editing([mem EXCEPT !.seen = Log(@, at)])
  PROVE  Edited
<1> DEFINE st == [mem EXCEPT !.seen = Log(@, at)]
<1>1. Log(mem.seen, at) \in Seq(Moment)
  BY LogIsList, NodesOf
<1>2. /\ st \in StateType /\ st.groups = mem.groups /\ st.group = mem.group /\ st.user = mem.user
      /\ st.nodes = mem.nodes
  BY <1>1 DEF Valid, StateType
<1>3. Editing(st)
  OBVIOUS
<1> HIDE DEF st
<1>4. Valid(st)
  BY <1>2 DEF Valid
<1>5. Meets(mem, st)
  BY <1>2, SameNodesMeet
<1> QED BY <1>3, <1>4, <1>5, EditDone

\* A destination of a node is counted.
LEMMA DestinationEdits ==
  ASSUME Valid(mem), NEW i \in DOMAIN mem.nodes, Editing([mem EXCEPT !.nodes[i].dest = 1 - @])
  PROVE  Edited
<1> DEFINE new == [mem.nodes[i] EXCEPT !.dest = 1 - @]  nodes == [mem.nodes EXCEPT ![i] = new]  st == WithNodes(mem, nodes)
<1>1. Editing(st)
  BY DEF WithNodes
<1>2. /\ DOMAIN mem.nodes = 1..Len(mem.nodes) /\ Len(mem.nodes) \in Nat /\ mem.nodes \in Seq(Node)
      /\ \A l \in 1..Len(mem.nodes) : mem.nodes[l] \in Node
      /\ \A l, k \in 1..Len(mem.nodes) : l # k => Apart(mem.nodes[l], mem.nodes[k])
      /\ mem.user /\ Len(mem.nodes) <= MaxNodes
  BY NodesOf, UserOfNodes DEF Valid
<1>3. /\ new \in Node /\ new.device = mem.nodes[i].device /\ new.name = mem.nodes[i].name
      /\ new.auth = mem.nodes[i].auth /\ new.uuid = mem.nodes[i].uuid
  <2>1. mem.nodes[i].dest \in {0, 1} /\ mem.nodes[i] \in Node
    BY <1>2 DEF Node
  <2>2. 1 - mem.nodes[i].dest \in {0, 1}
    BY <2>1
  <2> QED BY <2>1, <2>2 DEF Node
<1> HIDE DEF new
<1>4. /\ nodes \in Seq(Node) /\ Len(nodes) = Len(mem.nodes) /\ nodes[i] = new
      /\ \A l \in 1..Len(mem.nodes) : l # i => nodes[l] = mem.nodes[l]
  BY <1>2, <1>3
<1> HIDE DEF nodes
<1>5. \A l \in 1..Len(mem.nodes) :
        /\ nodes[l].device = mem.nodes[l].device /\ nodes[l].name = mem.nodes[l].name
        /\ nodes[l].auth = mem.nodes[l].auth /\ nodes[l].uuid = mem.nodes[l].uuid
  BY <1>3, <1>4
<1>6. \A l, k \in 1..Len(nodes) : l # k => Apart(nodes[l], nodes[k])
  BY <1>2, <1>4, <1>5 DEF Apart, SameKey
<1>7. Valid(st) /\ st.nodes = nodes
  BY <1>2, <1>4, <1>6, NodesReplaced
<1> HIDE DEF st
<1>8. Meets(mem, st)
  BY <1>4, <1>5, <1>7, SameNodesMeet
<1> QED BY <1>1, <1>7, <1>8, EditDone

\* An alert is raised, or all are acknowledged.
LEMMA AlertEdits == ASSUME Valid(mem), Alert PROVE Edited
<1>1. PICK alerts \in Seq(BOOLEAN) : Editing([mem EXCEPT !.alerts = alerts])
  <2>1. mem.alerts \in Seq(BOOLEAN)
    BY NodesOf
  <2>2. CASE Editing([mem EXCEPT !.alerts = Log(@, FALSE)])
    <3>1. Log(mem.alerts, FALSE) \in Seq(BOOLEAN)
      BY <2>1, LogIsList
    <3> QED BY <2>2, <3>1
  <2>3. CASE Editing([mem EXCEPT !.alerts = [i \in DOMAIN @ |-> TRUE]])
    <3>1. [i \in DOMAIN mem.alerts |-> TRUE] \in Seq(BOOLEAN)
      <4> DEFINE b == TRUE
      <4>1. b \in BOOLEAN /\ DOMAIN mem.alerts = 1..Len(mem.alerts) /\ Len(mem.alerts) \in Nat
        BY <2>1
      <4> HIDE DEF b
      <4>2. [i \in 1..Len(mem.alerts) |-> b] \in Seq(BOOLEAN)
        BY <4>1
      <4> QED BY <4>1, <4>2 DEF b
    <3> QED BY <2>3, <3>1
  <2> QED BY <2>2, <2>3 DEF Alert
<1> DEFINE st == [mem EXCEPT !.alerts = alerts]
<1>2. /\ st \in StateType /\ st.groups = mem.groups /\ st.group = mem.group /\ st.user = mem.user
      /\ st.seen = mem.seen /\ st.nodes = mem.nodes
  BY DEF Valid, StateType
<1>3. Editing(st)
  BY <1>1
<1> HIDE DEF st
<1>4. Valid(st)
  BY <1>2 DEF Valid
<1>5. Meets(mem, st)
  BY <1>2, SameNodesMeet
<1> QED BY <1>3, <1>4, <1>5, EditDone

Edit ==
  \/ AddUser \/ RemoveUser \/ AddNode \/ AddDevice \/ RemoveNode \/ RemoveDevice \/ Assign
  \/ RenameNode \/ RotateDevice \/ AddGroup \/ JoinGroup \/ RemoveGroup \/ Observe \/ Alert

\* Every edit is one of these.
LEMMA EveryEdit == ASSUME Valid(mem), Edit PROVE Edited
<1>1. CASE Observe
  BY <1>1, SampleEdits, DestinationEdits DEF Observe
<1>2. CASE ~Observe
  BY <1>2, AddUserEdits, RemoveUserEdits, AddNodeEdits, AddDeviceEdits, RemoveNodeEdits, RemoveDeviceEdits,
     AssignEdits, RenameNodeEdits, RotateDeviceEdits, AddGroupEdits, JoinGroupEdits, RemoveGroupEdits, AlertEdits
     DEF Edit
<1> QED BY <1>1, <1>2

--------------------------------------------------------------------------------
(* The invariant *)

\* The database holds the State whose hash it carries; the States in memory and
\* in the backup are valid; the snapshot is that of one State, whichever it is.
RowsInv ==
  /\ Holds(file) /\ Valid(mem) /\ Valid(backup)
  /\ snap = Snapshot(snap.path, snap.state)
  /\ phase \in {"closed", "open", "saved"} /\ edits \in Nat

\* A snapshot is that of a State.
LEMMA SnapshotIsOne ==
  ASSUME NEW path, NEW st
  PROVE  LET sn == Snapshot(path, st) IN sn = Snapshot(sn.path, sn.state)
BY DEF Snapshot

\* The State that names nothing is valid.
LEMMA AbsentIsValid == Valid(Absent)
BY EmptyHolds DEF Holds, Empty

\* The invariant holds of a new database.
LEMMA RowsStart == RowsInit => RowsInv
<1> SUFFICES ASSUME RowsInit PROVE RowsInv
  OBVIOUS
<1>1. file = Empty /\ mem = Absent /\ backup = Absent /\ snap = Snapshot("none", Absent) /\ phase = "closed" /\ edits = 0
  BY DEF RowsInit
<1> QED BY <1>1, EmptyHolds, AbsentIsValid, SnapshotIsOne DEF RowsInv

\* A save keeps it, accepted or refused.
LEMMA SaveKeepsInv ==
  ASSUME RowsInv, Save
  PROVE  RowsInv'
<1> DEFINE done == Write(snap, file, mem)
<1>1. /\ done.ok \in BOOLEAN
      /\ done.ok => Holds(Compact(done.db)) /\ Compact(done.db).hash = mem
  BY SaveStores DEF RowsInv
<1>2. CASE ~done.ok
  <2>1. /\ file' = file /\ backup' = backup /\ mem' = Absent /\ snap' = Snapshot("none", Absent)
        /\ phase' = "closed" /\ edits' = 0
    BY <1>2 DEF Save, Forget
  <2> QED BY <2>1, AbsentIsValid, SnapshotIsOne DEF RowsInv
<1>3. CASE done.ok
  <2>1. /\ file' = Compact(done.db) /\ backup' = backup /\ mem' = mem /\ snap' = Snapshot("state.db", mem)
        /\ phase' = "saved" /\ edits' = 0
    BY <1>3 DEF Save
  <2> HIDE DEF done
  <2> QED BY <1>1, <1>3, <2>1, SnapshotIsOne DEF RowsInv
<1> QED BY <1>1, <1>2, <1>3

\* A restore writes to an empty database: nothing is in the way.
LEMMA RestoreSucceeds ==
  ASSUME RowsInv, Restore
  PROVE  /\ Holds(file') /\ file'.hash = backup /\ ~clash'
         /\ mem' = backup /\ snap' = Snapshot("temporary", backup) /\ phase' = "saved" /\ edits' = 0
         /\ backup' = backup
<1> DEFINE sn == Snapshot("backup", backup)  done == Write(sn, Empty, backup)
<1>1. sn = Snapshot(sn.path, sn.state) /\ Valid(backup) /\ Holds(Empty)
  BY SnapshotIsOne, EmptyHolds DEF RowsInv
<1>2. Clear(Empty.nodes, backup, 0)
  BY DEF Clear, Empty
<1> HIDE DEF sn
<1>3. done.ok /\ Holds(Compact(done.db)) /\ Compact(done.db).hash = backup
  BY <1>1, <1>2, SaveStores
<1>4. /\ clash' = ~done.ok /\ file' = IF done.ok THEN Compact(done.db) ELSE file
      /\ mem' = backup /\ snap' = Snapshot("temporary", backup) /\ phase' = "saved" /\ edits' = 0
      /\ backup' = backup
  BY DEF Restore, sn
<1> HIDE DEF done
<1> QED BY <1>3, <1>4

\* Every step keeps the invariant.
LEMMA RowsStep == RowsInv /\ [RowsNext]_rowVars => RowsInv'
<1> SUFFICES ASSUME RowsInv, [RowsNext]_rowVars PROVE RowsInv'
  OBVIOUS
<1>1. CASE Open
  <2>1. mem' = file.hash /\ snap' = Snapshot("state.db", file.hash)
    BY <1>1, HeldIsRead DEF Open, RowsInv
  <2>2. Valid(file.hash) /\ file' = file /\ backup' = backup /\ phase' = "open" /\ edits' = 0
    BY <1>1 DEF Open, RowsInv, Holds
  <2> QED BY <2>1, <2>2, SnapshotIsOne DEF RowsInv
<1>2. CASE Clone
  BY <1>2, SnapshotIsOne DEF Clone, RowsInv
<1>3. CASE Save
  BY <1>3, SaveKeepsInv
<1>4. CASE SaveMore
  BY <1>4 DEF SaveMore, RowsInv
<1>5. CASE Close
  BY <1>5, SnapshotIsOne, AbsentIsValid DEF Close, Forget, RowsInv
<1>6. CASE Backup
  <2>1. backup' = file.hash
    BY <1>6, HeldIsRead DEF Backup, RowsInv
  <2>2. Valid(file.hash)
    BY DEF RowsInv, Holds
  <2>3. file' = file /\ mem' = mem /\ snap' = snap /\ phase' = phase /\ edits' = edits
    BY <1>6 DEF Backup
  <2> QED BY <2>1, <2>2, <2>3 DEF RowsInv
<1>7. CASE Restore
  <2>1. /\ Holds(file') /\ mem' = backup /\ snap' = Snapshot("temporary", backup) /\ phase' = "saved"
        /\ edits' = 0 /\ backup' = backup
    BY <1>7, RestoreSucceeds
  <2> QED BY <2>1, SnapshotIsOne DEF RowsInv
<1>8. CASE Edit
  <2>1. Edited
    BY <1>8, EveryEdit DEF RowsInv
  <2> QED BY <2>1 DEF Edited, RowsInv
<1>9. CASE UNCHANGED rowVars
  BY <1>9 DEF rowVars, RowsInv
<1> QED BY <1>1, <1>2, <1>3, <1>4, <1>5, <1>6, <1>7, <1>8, <1>9 DEF RowsNext, Edit

\* The invariant holds always.
LEMMA RowsAlways == RowsSpec => []RowsInv
<1> QED BY RowsStart, RowsStep, PTL DEF RowsSpec

\* Whatever a save skipped because the snapshot of the State that was read said
\* it had not changed, and in whatever order the State's nodes were renamed,
\* replaced, copied and given new uuids before it, what the rows say is the
\* State whose hash is stored beside them: loadSQLiteState never refuses the
\* database (state_sqlite.go, state_hash). For any number of edits a save.
THEOREM RowsAreTheState == RowsSpec => []RowsMatch
<1>1. RowsInv => RowsMatch
  BY HeldIsRead DEF RowsInv, RowsMatch
<1> QED BY <1>1, RowsAlways, PTL

\* Of any number of edits a save, one is refused only where something unique
\* that a node of the State has (its name on the device, auth_user, uuid) is that
\* of another node's row (writeSQLiteStateIncremental, the order of its
\* statements); the user, its group, histories and alerts never are, and a
\* restore never is.
THEOREM RefusedForNodesOnly ==
  RowsSpec => [][Restore \/ (Save /\ Meets(file.hash, mem)) => ~clash']_rowVars
<1>1. ASSUME RowsInv, Save, Meets(file.hash, mem) PROVE ~clash'
  <2> DEFINE done == Write(snap, file, mem)
  <2>1. Clear(file.nodes, mem, 0)
    BY <1>1, ClearOfRows DEF RowsInv
  <2>2. done.ok
    BY <1>1, <2>1, SaveStores DEF RowsInv
  <2>3. clash' = ~done.ok
    BY <1>1 DEF Save
  <2> HIDE DEF done
  <2> QED BY <2>2, <2>3
<1>2. RowsInv /\ [RowsNext]_rowVars => [Restore \/ (Save /\ Meets(file.hash, mem)) => ~clash']_rowVars
  BY <1>1, RestoreSucceeds
<1> QED BY <1>2, RowsAlways, PTL DEF RowsSpec

--------------------------------------------------------------------------------
(* Where every edit is saved, as commands do *)

\* The rows have nothing in the way of the State in memory.
OneEdit ==
  /\ ~clash
  /\ phase = "open" => (edits = 0 => mem = file.hash) /\ Clear(file.nodes, mem, 0)
  /\ phase = "saved" => mem = file.hash /\ edits = 0

\* A State meets nothing in its own rows.
LEMMA OwnRowsAreClear ==
  ASSUME NEW db, Holds(db)
  PROVE  Clear(db.nodes, db.hash, 0)
<1>1. Valid(db.hash)
  BY DEF Holds
<1>2. Meets(db.hash, db.hash)
  BY <1>1, SameNodesMeet
<1> QED BY <1>2, ClearOfRows

\* Every step keeps that nothing is in the way.
LEMMA OneEditStep ==
  ASSUME Batch = 1, RowsInv, OneEdit, [RowsNext]_rowVars
  PROVE  OneEdit'
<1>1. CASE Open
  <2>1. mem' = file.hash /\ file' = file /\ clash' = clash /\ phase' = "open"
    BY <1>1, HeldIsRead DEF Open, RowsInv
  <2>2. Clear(file.nodes, file.hash, 0)
    BY OwnRowsAreClear DEF RowsInv
  <2> QED BY <2>1, <2>2 DEF OneEdit
<1>2. CASE Clone
  BY <1>2 DEF Clone, OneEdit
<1>3. CASE Save
  <2> DEFINE done == Write(snap, file, mem)
  <2>1. Clear(file.nodes, mem, 0)
    BY <1>3 DEF Save, OneEdit
  <2>2. done.ok /\ Compact(done.db).hash = mem
    BY <2>1, SaveStores DEF RowsInv
  <2>3. clash' = ~done.ok
    BY <1>3 DEF Save
  <2>4. file' = Compact(done.db) /\ phase' = "saved" /\ edits' = 0 /\ mem' = mem
    BY <1>3, <2>2 DEF Save
  <2> HIDE DEF done
  <2> QED BY <2>2, <2>3, <2>4 DEF OneEdit
<1>4. CASE SaveMore
  <2>1. mem = file.hash /\ edits = 0
    BY <1>4 DEF SaveMore, OneEdit
  <2>2. Clear(file.nodes, file.hash, 0)
    BY OwnRowsAreClear DEF RowsInv
  <2>3. mem' = mem /\ file' = file /\ edits' = edits /\ clash' = clash /\ phase' = "open"
    BY <1>4 DEF SaveMore
  <2> QED BY <2>1, <2>2, <2>3 DEF OneEdit
<1>5. CASE Close
  BY <1>5 DEF Close, Forget, OneEdit
<1>6. CASE Backup
  BY <1>6 DEF Backup, OneEdit
<1>7. CASE Restore
  <2>1. file'.hash = backup /\ ~clash' /\ mem' = backup /\ phase' = "saved" /\ edits' = 0
    BY <1>7, RestoreSucceeds
  <2> QED BY <2>1 DEF OneEdit
<1>8. CASE Edit
  <2>1. Edited
    BY <1>8, EveryEdit DEF RowsInv
  <2>2. edits = 0 /\ edits' = 1
    BY <2>1 DEF Edited, RowsInv
  <2>3. mem = file.hash /\ ~clash' /\ phase' = "open" /\ file' = file
    BY <2>1, <2>2 DEF Edited, OneEdit
  <2>4. Clear(file.nodes, mem', 0)
    <3>1. Meets(file.hash, mem')
      BY <2>1, <2>3 DEF Edited
    <3> QED BY <3>1, ClearOfRows DEF RowsInv
  <2> QED BY <2>2, <2>3, <2>4 DEF OneEdit
<1>9. CASE UNCHANGED rowVars
  BY <1>9 DEF rowVars, OneEdit
<1> QED BY <1>1, <1>2, <1>3, <1>4, <1>5, <1>6, <1>7, <1>8, <1>9 DEF RowsNext, Edit

\* Where a save carries one edit, as that of a command does, no order of its
\* statements meets a row about to be deleted or renamed: neither the UNIQUE
\* auth_user and uuid of the nodes nor the group of a member refuses it, and
\* every command that made a valid State has it saved. Of two edits it is false
\* (RenamesAreSaved).
THEOREM OneEditIsSaved == ASSUME Batch = 1 PROVE RowsSpec => []SavesSucceed
<1>1. RowsInit => OneEdit
  BY DEF RowsInit, OneEdit
<1>2. RowsInv /\ OneEdit /\ [RowsNext]_rowVars => OneEdit'
  BY OneEditStep
<1>3. OneEdit => SavesSucceed
  BY DEF OneEdit, SavesSucceed
<1> QED BY <1>1, <1>2, <1>3, RowsAlways, PTL DEF RowsSpec
================================================================================
