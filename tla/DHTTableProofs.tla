--------------------------- MODULE DHTTableProofs ---------------------------
(***************************************************************************)
(* Proofs about the routing table: its buckets are always well formed, and *)
(* a compliant node is evicted only if a query to it ends with nil.  The   *)
(* lemmas about the metric, the buckets and the methods of the table,      *)
(* which come first, serve the proofs of the lookups as well.              *)
(***************************************************************************)
EXTENDS DHTTable, TLAPS, FiniteSetTheorems, WellFoundedInduction

-----------------------------------------------------------------------------
(* The metric *)

\* A strict order on a finite set, not empty, has a minimal element.
LEMMA MinimalElement ==
    ASSUME NEW S, IsFiniteSet(S), S # {}, NEW R,
           \A x \in S : <<x, x>> \notin R,
           \A x, y, z \in S : <<x, y>> \in R /\ <<y, z>> \in R => <<x, z>> \in R
    PROVE  \E x \in S : \A y \in S : <<y, x>> \notin R
<1> DEFINE Below(x) == {y \in S : <<y, x>> \in R}
           T == {Below(x) : x \in S}
<1>0. /\ \A l : l \in T <=> \E x \in S : l = Below(x)
      /\ \A x \in S : Below(x) \in SUBSET S
  OBVIOUS
<1>1. T \subseteq FiniteSubsetsOf(S)
  <2> HIDE DEF Below, T
  <2>1. \A x \in S : IsFiniteSet(Below(x))
    BY <1>0, FS_Subset
  <2>2. ASSUME NEW l \in T PROVE l \in SUBSET S /\ IsFiniteSet(l)
    BY <1>0, <2>1
  <2> QED
    BY <2>2 DEF FiniteSubsetsOf
<1>2. T # {}
  <2> HIDE DEF Below, T
  <2> QED
    BY <1>0
<1>3. IsWellFoundedOn(StrictSubsetOrdering(S), FiniteSubsetsOf(S))
  BY FS_StrictSubsetOrderingWellFounded
<1>4. \E l \in T : \A m \in T : ~(<<m, l>> \in StrictSubsetOrdering(S))
  <2> HIDE DEF T
  <2> QED
    BY <1>1, <1>2, <1>3, WFMin
<1>5. PICK x \in S : \A y \in S : <<Below(y), Below(x)>> \notin StrictSubsetOrdering(S)
  <2> HIDE DEF Below, T
  <2> QED
    BY <1>0, <1>4
<1>6. ASSUME NEW y \in S, <<y, x>> \in R PROVE FALSE
  <2>1. Below(y) \subseteq Below(x) /\ y \in Below(x) /\ y \notin Below(y)
    BY <1>6
  <2>2. Below(y) # Below(x)
    BY <2>1
  <2>3. Below(y) \in SUBSET S /\ Below(x) \in SUBSET S
    OBVIOUS
  <2> HIDE DEF Below
  <2> QED
    BY <1>5, <1>6, <2>1, <2>2, <2>3 DEF StrictSubsetOrdering
<1> QED
  BY <1>6

\* The distances to a target are a strict order of the IDs.
LEMMA CloserOrder ==
    ASSUME NEW t \in ID, NEW x \in ID, NEW y \in ID, NEW z \in ID
    PROVE  /\ ~Closer(t, x, x)
           /\ Closer(t, x, y) /\ Closer(t, y, z) => Closer(t, x, z)
           /\ x # y => Closer(t, x, y) \/ Closer(t, y, x)
<1>1. ~Closer(t, x, x)
  BY DEF Closer
<1>2. ASSUME Closer(t, x, y), Closer(t, y, z) PROVE Closer(t, x, z)
  <2>1. PICK i \in 1 .. Bits : x[i] = t[i] /\ y[i] # t[i] /\ \A k \in 1 .. i - 1 : x[k] = y[k]
    BY <1>2 DEF Closer
  <2>2. PICK j \in 1 .. Bits : y[j] = t[j] /\ z[j] # t[j] /\ \A k \in 1 .. j - 1 : y[k] = z[k]
    BY <1>2 DEF Closer
  <2>3. CASE i < j
    <3>1. x[i] = t[i] /\ z[i] # t[i] /\ \A k \in 1 .. i - 1 : x[k] = z[k]
      BY <2>1, <2>2, <2>3, RoutingTableAssumption
    <3> QED
      BY <3>1 DEF Closer
  <2>4. CASE j < i
    <3>1. x[j] = t[j] /\ z[j] # t[j] /\ \A k \in 1 .. j - 1 : x[k] = z[k]
      BY <2>1, <2>2, <2>4, RoutingTableAssumption
    <3> QED
      BY <3>1 DEF Closer
  <2> QED
    BY <2>1, <2>2, <2>3, <2>4, RoutingTableAssumption
<1>3. ASSUME x # y PROVE Closer(t, x, y) \/ Closer(t, y, x)
  <2> DEFINE D == {i \in 1 .. Bits : x[i] # y[i]}
             R == {p \in D \X D : p[1] < p[2]}
  <2>1. D # {}
    <3>1. x \in [1 .. Bits -> {0, 1}] /\ y \in [1 .. Bits -> {0, 1}]
      BY DEF ID
    <3>2. ASSUME \A i \in 1 .. Bits : x[i] = y[i] PROVE FALSE
      <4>1. x = [i \in 1 .. Bits |-> x[i]] /\ y = [i \in 1 .. Bits |-> y[i]]
        BY <3>1
      <4>2. [i \in 1 .. Bits |-> x[i]] = [i \in 1 .. Bits |-> y[i]]
        BY <3>2
      <4> QED
        BY <1>3, <4>1, <4>2
    <3> QED
      BY <3>2
  <2>2. IsFiniteSet(D)
    <3>1. IsFiniteSet(1 .. Bits) /\ D \subseteq 1 .. Bits
      BY FS_Interval, RoutingTableAssumption
    <3> QED
      BY <3>1, FS_Subset
  <2>3. \A i, j \in D : <<i, j>> \in R <=> i < j
    OBVIOUS
  <2>4. D \subseteq Nat
    BY RoutingTableAssumption
  <2> HIDE DEF R, D
  <2>5. /\ \A i \in D : <<i, i>> \notin R
        /\ \A i, j, k \in D : <<i, j>> \in R /\ <<j, k>> \in R => <<i, k>> \in R
    BY <2>3, <2>4
  <2>6. PICK i \in D : \A j \in D : <<j, i>> \notin R
    BY <2>1, <2>2, <2>5, MinimalElement
  <2>7. \A j \in D : ~(j < i)
    BY <2>3, <2>6
  <2>8. i \in 1 .. Bits /\ x[i] # y[i] /\ \A j \in 1 .. i - 1 : x[j] = y[j]
    BY <2>7, RoutingTableAssumption DEF D
  <2>9. x[i] \in {0, 1} /\ y[i] \in {0, 1} /\ t[i] \in {0, 1}
    BY <2>8 DEF ID
  <2> QED
    BY <2>8, <2>9 DEF Closer
<1> QED
  BY <1>1, <1>2, <1>3

\* The nearest one is the one to which no other is closer.
LEMMA NearestOne ==
    ASSUME NEW t, NEW S, IsFiniteSet(S)
    PROVE  Nearest(t, S, 1) = {x \in S : \A y \in S : ~Closer(t, y, x)}
<1>1. ASSUME NEW x \in S
      PROVE  Cardinality({y \in S : Closer(t, y, x)}) < 1 <=> \A y \in S : ~Closer(t, y, x)
  <2> DEFINE B == {y \in S : Closer(t, y, x)}
  <2>1. IsFiniteSet(B)
    <3>1. B \subseteq S
      OBVIOUS
    <3> QED
      BY <3>1, FS_Subset
  <2>2. Cardinality(B) \in Nat /\ (Cardinality(B) = 0 <=> B = {})
    BY <2>1, FS_CardinalityType, FS_EmptySet
  <2>3. B = {} <=> \A y \in S : ~Closer(t, y, x)
    OBVIOUS
  <2> HIDE DEF B
  <2>4. Cardinality(B) < 1 <=> \A y \in S : ~Closer(t, y, x)
    BY <2>2, <2>3
  <2> QED
    BY <2>4 DEF B
<1> QED
  BY <1>1 DEF Nearest

\* There is at most one.
LEMMA NearestUnique ==
    ASSUME NEW t \in ID, NEW S \in SUBSET ID, IsFiniteSet(S),
           NEW x \in Nearest(t, S, 1), NEW y \in Nearest(t, S, 1)
    PROVE  x = y
<1>1. /\ x \in S /\ \A z \in S : ~Closer(t, z, x)
      /\ y \in S /\ \A z \in S : ~Closer(t, z, y)
  BY NearestOne
<1> QED
  BY <1>1, CloserOrder

\* Of a set that is not empty some are nearest.
LEMMA NearestSome ==
    ASSUME NEW t \in ID, NEW S \in SUBSET ID, IsFiniteSet(S), S # {}, NEW n \in Nat \ {0}
    PROVE  Nearest(t, S, n) # {}
<1> DEFINE R == {p \in S \X S : Closer(t, p[1], p[2])}
<1>1. \A x, y \in S : <<x, y>> \in R <=> Closer(t, x, y)
  OBVIOUS
<1> HIDE DEF R
<1>2. /\ \A x \in S : <<x, x>> \notin R
      /\ \A x, y, z \in S : <<x, y>> \in R /\ <<y, z>> \in R => <<x, z>> \in R
  BY <1>1, CloserOrder
<1>3. PICK x \in S : \A y \in S : <<y, x>> \notin R
  BY <1>2, MinimalElement
<1>4. {y \in S : Closer(t, y, x)} = {}
  BY <1>1, <1>3
<1>5. Cardinality({y \in S : Closer(t, y, x)}) < n
  BY <1>4, FS_EmptySet
<1> QED
  BY <1>5 DEF Nearest

-----------------------------------------------------------------------------
(* Buckets.  S is any set of entries. *)

\* Removing an index (append(nodes[:i], nodes[i+1:]...)) keeps a bucket well
\* formed and removes the node of that index and no other.
LEMMA WithoutIndexLemma ==
    ASSUME NEW S, NEW b, NEW s \in Seq(S), BucketOK(s, b), NEW i \in 1 .. Len(s)
    PROVE  /\ WithoutIndex(s, i) \in Seq(S)
           /\ Len(WithoutIndex(s, i)) = Len(s) - 1
           /\ BucketOK(WithoutIndex(s, i), b)
           /\ ~Holds(WithoutIndex(s, i), s[i].id)
           /\ \A j \in 1 .. Len(s) : j # i => Holds(WithoutIndex(s, i), s[j].id)
           /\ \A id : Holds(WithoutIndex(s, i), id) => Holds(s, id)
<1> DEFINE w == WithoutIndex(s, i)
<1>1. Len(s) \in Nat /\ \A j \in 1 .. Len(s) : s[j] \in S
  OBVIOUS
<1>2. w = [j \in 1 .. Len(s) - 1 |-> IF j < i THEN s[j] ELSE s[j + 1]]
  BY DEF WithoutIndex
<1>3. Len(s) - 1 \in Nat
  BY <1>1
<1>4. \A j \in 1 .. Len(s) - 1 : w[j] \in S
  BY <1>1, <1>2
<1>5. w \in Seq(S) /\ Len(w) = Len(s) - 1
  BY <1>2, <1>3, <1>4
<1>6. BucketOK(w, b)
  BY <1>1, <1>2, <1>5, RoutingTableAssumption DEF BucketOK
<1>7. ~Holds(w, s[i].id)
  BY <1>1, <1>2, <1>5 DEF BucketOK, Holds
<1>8. ASSUME NEW j \in 1 .. Len(s), j # i PROVE Holds(w, s[j].id)
  <2>1. CASE j < i
    <3>1. j \in 1 .. Len(w) /\ w[j] = s[j]
      BY <1>1, <1>2, <1>5, <2>1
    <3> QED BY <3>1 DEF Holds
  <2>2. CASE j > i
    <3>1. j - 1 \in 1 .. Len(w) /\ w[j - 1] = s[j]
      BY <1>1, <1>2, <1>5, <2>2
    <3> QED BY <3>1 DEF Holds
  <2> QED BY <1>8, <2>1, <2>2
<1>9. ASSUME NEW id, Holds(w, id) PROVE Holds(s, id)
  <2>1. PICK j \in 1 .. Len(w) : w[j].id = id
    BY <1>9 DEF Holds
  <2>2. CASE j < i
    <3>1. j \in 1 .. Len(s) /\ w[j] = s[j]
      BY <1>1, <1>2, <1>5, <2>2
    <3> QED BY <2>1, <3>1 DEF Holds
  <2>3. CASE ~(j < i)
    <3>1. j + 1 \in 1 .. Len(s) /\ w[j] = s[j + 1]
      BY <1>1, <1>2, <1>5, <2>3
    <3> QED BY <2>1, <3>1 DEF Holds
  <2> QED BY <2>2, <2>3
<1> QED BY <1>5, <1>6, <1>7, <1>8, <1>9

\* IndexOf finds a node that is there.
LEMMA IndexOfLemma ==
    ASSUME NEW s, NEW id, Holds(s, id)
    PROVE  IndexOf(s, id) \in 1 .. Len(s) /\ s[IndexOf(s, id)].id = id
BY DEF Holds, IndexOf

\* Appending a node of the bucket that is not there yet.
LEMMA AppendLemma ==
    ASSUME NEW S, NEW b, NEW s \in Seq(S), BucketOK(s, b), Len(s) < K,
           NEW e \in S, BucketOf(e.id) = b, ~Holds(s, e.id)
    PROVE  /\ Append(s, e) \in Seq(S)
           /\ BucketOK(Append(s, e), b)
           /\ Holds(Append(s, e), e.id)
           /\ \A id : Holds(s, id) => Holds(Append(s, e), id)
<1> DEFINE t == Append(s, e)
<1>1. /\ t \in Seq(S) /\ Len(t) = Len(s) + 1 /\ Len(s) \in Nat
      /\ t[Len(s) + 1] = e
      /\ \A i \in 1 .. Len(s) : t[i] = s[i]
  OBVIOUS
<1>2. BucketOK(t, b)
  BY <1>1, RoutingTableAssumption DEF BucketOK, Holds
<1>3. Holds(t, e.id) /\ \A id : Holds(s, id) => Holds(t, id)
  BY <1>1 DEF Holds
<1> QED BY <1>1, <1>2, <1>3

\* Bucket.Insert keeps a bucket well formed, and of the nodes of the bucket it
\* evicts none that is marked compliant.
LEMMA BucketInsertLemma ==
    ASSUME NEW S, NEW b, NEW s \in Seq(S), BucketOK(s, b),
           NEW e \in S, BucketOf(e.id) = b
    PROVE  /\ BucketInsert(s, e) \in Seq(S)
           /\ BucketOK(BucketInsert(s, e), b)
           /\ \A j \in 1 .. Len(s) :
                s[j].compliant => Holds(BucketInsert(s, e), s[j].id)
<1> DEFINE t == BucketInsert(s, e)
<1>0. Len(s) \in Nat /\ Len(s) <= K /\ K \in Nat
  BY RoutingTableAssumption DEF BucketOK
<1>1. CASE Holds(s, e.id)
  <2> DEFINE i == IndexOf(s, e.id)
             w == WithoutIndex(s, i)
  <2>1. i \in 1 .. Len(s) /\ s[i].id = e.id
    BY <1>1, IndexOfLemma
  <2>2. t = Append(w, e)
    BY <1>1 DEF BucketInsert
  <2> HIDE DEF i
  <2>3. /\ w \in Seq(S) /\ Len(w) = Len(s) - 1 /\ BucketOK(w, b)
        /\ ~Holds(w, s[i].id)
        /\ \A j \in 1 .. Len(s) : j # i => Holds(w, s[j].id)
    BY <2>1, WithoutIndexLemma
  <2> HIDE DEF w
  <2>4. ~Holds(w, e.id)
    BY <2>1, <2>3
  <2>5. Len(w) < K
    BY <1>0, <2>3
  <2>6. /\ Append(w, e) \in Seq(S) /\ BucketOK(Append(w, e), b)
        /\ Holds(Append(w, e), e.id)
        /\ \A id : Holds(w, id) => Holds(Append(w, e), id)
    BY <2>3, <2>4, <2>5, AppendLemma
  <2> QED BY <2>1, <2>2, <2>3, <2>6
<1>2. CASE ~Holds(s, e.id) /\ Len(s) < K
  <2>1. t = Append(s, e)
    BY <1>2 DEF BucketInsert
  <2>2. /\ Append(s, e) \in Seq(S) /\ BucketOK(Append(s, e), b)
        /\ \A id : Holds(s, id) => Holds(Append(s, e), id)
    BY <1>2, AppendLemma
  <2> QED BY <2>1, <2>2 DEF Holds
<1>3. CASE ~Holds(s, e.id) /\ ~(Len(s) < K)
           /\ e.compliant /\ \E i \in 1 .. Len(s) : Evictable(s, i)
  <2> DEFINE i == CHOOSE i \in 1 .. Len(s) : Evictable(s, i)
             w == WithoutIndex(s, i)
  <2>1. i \in 1 .. Len(s) /\ ~s[i].compliant
    BY <1>3 DEF Evictable
  <2>2. t = Append(w, e)
    BY <1>3 DEF BucketInsert
  <2> HIDE DEF i
  <2>3. /\ w \in Seq(S) /\ Len(w) = Len(s) - 1 /\ BucketOK(w, b)
        /\ \A j \in 1 .. Len(s) : j # i => Holds(w, s[j].id)
        /\ \A id : Holds(w, id) => Holds(s, id)
    BY <2>1, WithoutIndexLemma
  <2>4. ~Holds(w, e.id)
    BY <1>3, <2>3
  <2> HIDE DEF w
  <2>5. Len(w) < K
    BY <1>0, <2>3
  <2>6. /\ Append(w, e) \in Seq(S) /\ BucketOK(Append(w, e), b)
        /\ \A id : Holds(w, id) => Holds(Append(w, e), id)
    BY <2>3, <2>4, <2>5, AppendLemma
  <2> QED BY <2>1, <2>2, <2>3, <2>6
<1>4. CASE ~Holds(s, e.id) /\ ~(Len(s) < K)
           /\ ~(e.compliant /\ \E i \in 1 .. Len(s) : Evictable(s, i))
  <2>1. t = s
    BY <1>4 DEF BucketInsert
  <2> QED BY <2>1 DEF Holds
<1> QED BY <1>1, <1>2, <1>3, <1>4

\* Bucket.Remove removes the node with the given ID and no other.
LEMMA BucketRemoveLemma ==
    ASSUME NEW S, NEW b, NEW s \in Seq(S), BucketOK(s, b), NEW id
    PROVE  /\ BucketRemove(s, id) \in Seq(S)
           /\ BucketOK(BucketRemove(s, id), b)
           /\ \A j \in 1 .. Len(s) :
                s[j].id # id => Holds(BucketRemove(s, id), s[j].id)
<1>1. CASE Holds(s, id)
  <2> DEFINE i == IndexOf(s, id)
  <2>1. i \in 1 .. Len(s) /\ s[i].id = id
    BY <1>1, IndexOfLemma
  <2>2. BucketRemove(s, id) = WithoutIndex(s, i)
    BY <1>1 DEF BucketRemove
  <2> HIDE DEF i
  <2> QED BY <2>1, <2>2, WithoutIndexLemma
<1>2. CASE ~Holds(s, id)
  <2>1. BucketRemove(s, id) = s
    BY <1>2 DEF BucketRemove
  <2> QED BY <2>1 DEF Holds
<1> QED BY <1>1, <1>2

\* A change of a node that keeps its ID (RecordFailure, RecordSuccess).
LEMMA ReplacedLemma ==
    ASSUME NEW S, NEW b, NEW s \in Seq(S), BucketOK(s, b), NEW e \in S
    PROVE  /\ Replaced(s, e) \in Seq(S)
           /\ BucketOK(Replaced(s, e), b)
           /\ \A j \in 1 .. Len(s) : Holds(Replaced(s, e), s[j].id)
<1> DEFINE t == Replaced(s, e)
<1>1. Len(s) \in Nat /\ \A j \in 1 .. Len(s) : s[j] \in S
  OBVIOUS
<1>2. t = [i \in 1 .. Len(s) |-> IF s[i].id = e.id THEN e ELSE s[i]]
  BY DEF Replaced
<1>3. t \in Seq(S) /\ Len(t) = Len(s)
  BY <1>1, <1>2
<1>4. \A j \in 1 .. Len(s) : t[j].id = s[j].id
  BY <1>2
<1>5. BucketOK(t, b)
  BY <1>1, <1>3, <1>4 DEF BucketOK
<1>6. \A j \in 1 .. Len(s) : Holds(t, s[j].id)
  BY <1>3, <1>4 DEF Holds
<1> QED BY <1>3, <1>5, <1>6

-----------------------------------------------------------------------------
(* The table *)

\* A change of a node that keeps its ID, address and mark does not leave S.
Closed(S) ==
    /\ S \subseteq Entry
    /\ \A e \in S, f \in Entry :
          f.id = e.id /\ f.addr = e.addr /\ f.compliant = e.compliant => f \in S

\* The buckets are well formed and have entries of S.
TableIn(S) == table \in [Bucket -> Seq(S)] /\ \A b \in Bucket : BucketOK(table[b], b)

\* The node at index j of bucket b is still in its bucket after the step.
Stays(b, j) == Holds(table[b]', table[b][j].id)

\* A step that sets one bucket to a well-formed one.
LEMMA SetBucketLemma ==
    ASSUME NEW S, TableIn(S), NEW id, NEW s, SetBucket(id, s),
           BucketOf(id) \in Bucket => s \in Seq(S) /\ BucketOK(s, BucketOf(id))
    PROVE  /\ TableIn(S)'
           /\ \A b \in Bucket : \A j \in 1 .. Len(table[b]) :
                (BucketOf(id) = b => Holds(s, table[b][j].id)) => Stays(b, j)
<1>1. CASE BucketOf(id) \in Bucket
  <2>1. table' = [table EXCEPT ![BucketOf(id)] = s]
    BY <1>1 DEF SetBucket
  <2>2. table' \in [Bucket -> Seq(S)]
    BY <1>1, <2>1 DEF TableIn
  <2>3. \A b \in Bucket : table'[b] = IF b = BucketOf(id) THEN s ELSE table[b]
    BY <2>1 DEF TableIn
  <2>4. \A b \in Bucket : BucketOK(table'[b], b)
    BY <1>1, <2>3 DEF TableIn
  <2>5. ASSUME NEW b \in Bucket, NEW j \in 1 .. Len(table[b]),
               BucketOf(id) = b => Holds(s, table[b][j].id)
        PROVE  Stays(b, j)
    BY <2>3, <2>5 DEF Stays, Holds
  <2> QED BY <2>2, <2>4, <2>5 DEF TableIn
<1>2. CASE BucketOf(id) \notin Bucket
  <2>1. table' = table
    BY <1>2 DEF SetBucket
  <2> QED BY <2>1 DEF TableIn, Stays, Holds
<1> QED BY <1>1, <1>2

\* The bucket of an ID.
LEMMA BucketLemma ==
    ASSUME NEW S, TableIn(S), NEW id, BucketOf(id) \in Bucket
    PROVE  /\ table[BucketOf(id)] \in Seq(S)
           /\ BucketOK(table[BucketOf(id)], BucketOf(id))
BY DEF TableIn

\* RoutingTable.Insert.
LEMMA InsertLemma ==
    ASSUME NEW S, TableIn(S), NEW e \in S, Insert(e)
    PROVE  /\ TableIn(S)'
           /\ \A b \in Bucket : \A j \in 1 .. Len(table[b]) :
                table[b][j].compliant => Stays(b, j)
<1> DEFINE s == table[BucketOf(e.id)]
           t == BucketInsert(s, e)
<1>1. SetBucket(e.id, t)
  BY DEF Insert
<1>2. BucketOf(e.id) \in Bucket =>
        /\ t \in Seq(S) /\ BucketOK(t, BucketOf(e.id))
        /\ \A j \in 1 .. Len(s) : s[j].compliant => Holds(t, s[j].id)
  <2> HAVE BucketOf(e.id) \in Bucket
  <2>1. s \in Seq(S) /\ BucketOK(s, BucketOf(e.id))
    BY BucketLemma
  <2> HIDE DEF s
  <2> QED BY <2>1, BucketInsertLemma
<1> HIDE DEF t
<1>3. /\ TableIn(S)'
      /\ \A b \in Bucket : \A j \in 1 .. Len(table[b]) :
           (BucketOf(e.id) = b => Holds(t, table[b][j].id)) => Stays(b, j)
  BY <1>1, <1>2, SetBucketLemma
<1> QED BY <1>2, <1>3

\* RoutingTable.Remove.
LEMMA RemoveLemma ==
    ASSUME NEW S, TableIn(S), NEW id, Remove(id)
    PROVE  /\ TableIn(S)'
           /\ \A b \in Bucket : \A j \in 1 .. Len(table[b]) :
                table[b][j].id # id => Stays(b, j)
<1> DEFINE s == table[BucketOf(id)]
           t == BucketRemove(s, id)
<1>1. SetBucket(id, t)
  BY DEF Remove
<1>2. BucketOf(id) \in Bucket =>
        /\ t \in Seq(S) /\ BucketOK(t, BucketOf(id))
        /\ \A j \in 1 .. Len(s) : s[j].id # id => Holds(t, s[j].id)
  <2> HAVE BucketOf(id) \in Bucket
  <2>1. s \in Seq(S) /\ BucketOK(s, BucketOf(id))
    BY BucketLemma
  <2> HIDE DEF s
  <2> QED BY <2>1, BucketRemoveLemma
<1> HIDE DEF t
<1>3. /\ TableIn(S)'
      /\ \A b \in Bucket : \A j \in 1 .. Len(table[b]) :
           (BucketOf(id) = b => Holds(t, table[b][j].id)) => Stays(b, j)
  BY <1>1, <1>2, SetBucketLemma
<1> QED BY <1>2, <1>3

\* RoutingTable.RecordFailure.
LEMMA RecordFailureLemma ==
    ASSUME NEW S, Closed(S), TableIn(S), NEW id, RecordFailure(id)
    PROVE  /\ TableIn(S)'
           /\ \A b \in Bucket : \A j \in 1 .. Len(table[b]) :
                table[b][j].id # id \/ table[b][j].fail + 1 < MaxFailures => Stays(b, j)
<1> DEFINE s == table[BucketOf(id)]
           e == s[IndexOf(s, id)]
           f == [e EXCEPT !.fail = @ + 1]
           t == IF Holds(s, id) THEN AfterFailure(s, id) ELSE s
<1>1. SetBucket(id, t)
  BY DEF RecordFailure
<1>2. BucketOf(id) \in Bucket =>
        /\ t \in Seq(S) /\ BucketOK(t, BucketOf(id))
        /\ \A j \in 1 .. Len(s) :
             s[j].id # id \/ s[j].fail + 1 < MaxFailures => Holds(t, s[j].id)
  <2> HAVE BucketOf(id) \in Bucket
  <2>1. s \in Seq(S) /\ BucketOK(s, BucketOf(id))
    BY BucketLemma
  <2> HIDE DEF s
  <2>2. CASE ~Holds(s, id)
    BY <2>1, <2>2 DEF Holds
  <2>3. CASE Holds(s, id) /\ e.fail + 1 >= MaxFailures
    <3>1. t = BucketRemove(s, id)
      BY <2>3 DEF AfterFailure
    <3>2. \A j \in 1 .. Len(s) : s[j].id # id \/ s[j] = e
      BY <2>1, <2>3, IndexOfLemma DEF BucketOK
    <3>3. e.fail \in Int
      BY <2>1, <2>3, IndexOfLemma, RoutingTableAssumption DEF Closed, Entry
    <3>4. \A j \in 1 .. Len(s) : s[j].id # id \/ s[j].fail + 1 < MaxFailures => s[j].id # id
      BY <2>3, <3>2, <3>3, RoutingTableAssumption
    <3> QED BY <2>1, <3>1, <3>4, BucketRemoveLemma
  <2>4. CASE Holds(s, id) /\ ~(e.fail + 1 >= MaxFailures)
    <3>1. t = Replaced(s, f)
      BY <2>4 DEF AfterFailure
    <3>2. e \in S
      BY <2>1, <2>4, IndexOfLemma
    <3>3. f \in S
      BY <2>4, <3>2, RoutingTableAssumption DEF Closed, Entry
    <3> HIDE DEF f
    <3> QED BY <2>1, <3>1, <3>3, ReplacedLemma
  <2> QED BY <2>2, <2>3, <2>4
<1> HIDE DEF t
<1>3. /\ TableIn(S)'
      /\ \A b \in Bucket : \A j \in 1 .. Len(table[b]) :
           (BucketOf(id) = b => Holds(t, table[b][j].id)) => Stays(b, j)
  BY <1>1, <1>2, SetBucketLemma
<1> QED BY <1>2, <1>3

\* RoutingTable.RecordSuccess, and the passing of time: no node leaves.
LEMMA SuccessOrAgeLemma ==
    ASSUME NEW S, Closed(S), TableIn(S), NEW id, RecordSuccess(id) \/ GrowsOld(id)
    PROVE  /\ TableIn(S)'
           /\ \A b \in Bucket : \A j \in 1 .. Len(table[b]) : Stays(b, j)
<1> DEFINE s == table[BucketOf(id)]
           e == s[IndexOf(s, id)]
           Good(t) ==
             BucketOf(id) \in Bucket =>
               /\ t \in Seq(S) /\ BucketOK(t, BucketOf(id))
               /\ \A j \in 1 .. Len(s) : Holds(t, s[j].id)
<1>1. ASSUME NEW t, SetBucket(id, t), Good(t)
      PROVE  /\ TableIn(S)'
             /\ \A b \in Bucket : \A j \in 1 .. Len(table[b]) : Stays(b, j)
  <2>1. /\ TableIn(S)'
        /\ \A b \in Bucket : \A j \in 1 .. Len(table[b]) :
             (BucketOf(id) = b => Holds(t, table[b][j].id)) => Stays(b, j)
    BY <1>1, SetBucketLemma
  <2> QED BY <1>1, <2>1
<1>2. Good(s)
  BY BucketLemma DEF Holds
<1>3. ASSUME NEW f, Holds(s, id), e \in S => f \in S PROVE Good(Replaced(s, f))
  <2> SUFFICES ASSUME BucketOf(id) \in Bucket
               PROVE  /\ Replaced(s, f) \in Seq(S)
                      /\ BucketOK(Replaced(s, f), BucketOf(id))
                      /\ \A j \in 1 .. Len(s) : Holds(Replaced(s, f), s[j].id)
    OBVIOUS
  <2>1. s \in Seq(S) /\ BucketOK(s, BucketOf(id))
    BY BucketLemma
  <2> HIDE DEF s
  <2>2. f \in S
    BY <1>3, <2>1, IndexOfLemma
  <2> QED BY <2>1, <2>2, ReplacedLemma
<1>4. CASE ~Holds(s, id)
  <2>1. SetBucket(id, s)
    BY <1>4 DEF RecordSuccess, GrowsOld
  <2> QED BY <1>1, <1>2, <2>1
<1>5. CASE Holds(s, id) /\ RecordSuccess(id)
  <2> DEFINE f == [e EXCEPT !.fail = 0, !.fresh = TRUE]
  <2>1. SetBucket(id, Replaced(s, f))
    BY <1>5 DEF RecordSuccess, AfterSuccess
  <2>2. ASSUME e \in S PROVE f \in S
    <3> HIDE DEF e
    <3>1. e \in Entry
      BY <2>2 DEF Closed
    <3>2. 0 \in 0 .. MaxFailures - 1
      BY RoutingTableAssumption
    <3>3. [e EXCEPT !.fail = 0] \in Entry
      BY <3>1, <3>2 DEF Entry
    <3>4. f = [[e EXCEPT !.fail = 0] EXCEPT !.fresh = TRUE]
      BY <3>1 DEF Entry
    <3>5. f \in Entry
      BY <3>3, <3>4 DEF Entry
    <3>6. f.id = e.id /\ f.addr = e.addr /\ f.compliant = e.compliant
      BY <3>1 DEF Entry
    <3> QED BY <2>2, <3>5, <3>6 DEF Closed
  <2> HIDE DEF f
  <2>3. Good(Replaced(s, f))
    BY <1>3, <1>5, <2>2
  <2> QED BY <1>1, <2>1, <2>3
<1>6. CASE Holds(s, id) /\ GrowsOld(id)
  <2> DEFINE f == [e EXCEPT !.fresh = FALSE]
  <2>1. SetBucket(id, Replaced(s, f))
    BY <1>6 DEF GrowsOld, Older
  <2>2. e \in S => f \in S
    <3> HIDE DEF e
    <3> QED BY RoutingTableAssumption DEF Closed, Entry
  <2> HIDE DEF f
  <2>3. Good(Replaced(s, f))
    BY <1>3, <1>6, <2>2
  <2> QED BY <1>1, <2>1, <2>3
<1> QED BY <1>4, <1>5, <1>6

-----------------------------------------------------------------------------
(* The inductive invariant and the steps *)

\* Entries of nodes of the network; in mode tableOnly a node is marked
\* compliant only if its ID is valid.
KnownEntry == {e \in Entry : /\ NodeOf(e) \in Nodes
                             /\ BEP42 = "tableOnly" /\ e.compliant => NodeOf(e) \in Valid}

LEMMA KnownClosed == Closed(KnownEntry)
BY DEF Closed, KnownEntry, NodeOf

TableInv == TableIn(KnownEntry)

Started == [oldest : Nodes, new : KnownEntry, pc : {"ping", "insert"}]

\* TableOK, and what is remembered outside the table is about known nodes.
IInv ==
    /\ TableInv
    /\ replacer \in [Replacers -> Started \cup {Free}]
    /\ sweep \subseteq Nodes

\* SteadyStay, by index.
SteadyStep ==
    \A b \in Bucket : \A j \in 1 .. Len(table[b]) :
        Steady(NodeOf(table[b][j])) /\ table[b][j].compliant /\ ~Unanswered(table[b][j]) =>
            Stays(b, j)

\* A steady entry with the ID of a node of the network is that node's.
LEMMA SteadyLemma ==
    ASSUME NEW n \in Nodes, NEW e, Steady(NodeOf(e)), e.id = n.id
    PROVE  NodeOf(e) = n
BY DEF Steady, NodeOf

\* A failure recorded for a node of the network evicts no steady node but this
\* one, and this one only if it was its last failure.
LEMMA FailureLemma ==
    ASSUME IInv, NEW n \in Nodes, RecordFailure(n.id), SweepSilent(n) \/ LookupSilent(n)
    PROVE  TableInv' /\ SteadyStep
<1>1. /\ TableInv'
      /\ \A b \in Bucket : \A j \in 1 .. Len(table[b]) :
           table[b][j].id # n.id \/ table[b][j].fail + 1 < MaxFailures => Stays(b, j)
  BY KnownClosed, RecordFailureLemma DEF IInv, TableInv
<1>2. ASSUME NEW b \in Bucket, NEW j \in 1 .. Len(table[b]),
             Steady(NodeOf(table[b][j])), ~Unanswered(table[b][j])
      PROVE  Stays(b, j)
  <2> DEFINE e == table[b][j]
  <2>0. e \in KnownEntry
    BY DEF IInv, TableInv, TableIn
  <2>1. e.fail \in Int /\ MaxFailures \in Int
    BY <2>0, RoutingTableAssumption DEF KnownEntry, Entry
  <2>2. e.id # n.id \/ ~(e.fail + 1 >= MaxFailures)
    BY <1>2, SteadyLemma DEF Unanswered
  <2>3. e.id # n.id \/ e.fail + 1 < MaxFailures
    BY <2>1, <2>2
  <2> QED BY <1>1, <2>3
<1> QED BY <1>1, <1>2 DEF SteadyStep

\* The entry that a query, or bootstrap, makes of a node is a known one.
LEMMA NewEntryLemma ==
    ASSUME NEW n \in Nodes
    PROVE  /\ NewEntry(n, FALSE) \in KnownEntry
           /\ NewEntry(n, Compliant(n)) \in KnownEntry
<1>1. n = [id |-> n.id, addr |-> n.addr] /\ n.id \in ID /\ n.addr \in Addrs
  BY DHTTableAssumption
<1>2. 0 \in 0 .. MaxFailures - 1
  BY RoutingTableAssumption
<1>3. Compliant(n) \in BOOLEAN /\ (BEP42 = "tableOnly" /\ Compliant(n) => n \in Valid)
  BY DEF Compliant
<1>4. ASSUME NEW c \in BOOLEAN PROVE NewEntry(n, c) \in Entry /\ NodeOf(NewEntry(n, c)) = n
  BY <1>1, <1>2 DEF NewEntry, Entry, NodeOf
<1>5. \A c : NewEntry(n, c).compliant = c
  BY DEF NewEntry
<1> QED BY <1>3, <1>4, <1>5 DEF KnownEntry

\* A query of another node, which may start a replaceIfDead.
LEMMA HandleQueryLemma ==
    ASSUME IInv, NEW n \in Nodes, HandleQuery(n)
    PROVE  IInv' /\ SteadyStep
<1> DEFINE new == NewEntry(n, Compliant(n))
           s == table[BucketOf(n.id)]
<1>1. new \in KnownEntry /\ Insert(new) /\ sweep' = sweep
  BY NewEntryLemma DEF HandleQuery
<1>2. TableInv' /\ SteadyStep
  BY <1>1, InsertLemma DEF IInv, TableInv, SteadyStep
<1>3. replacer' \in [Replacers -> Started \cup {Free}]
  <2>1. CASE replacer' = replacer
    BY <2>1 DEF IInv
  <2>2. CASE replacer' # replacer
    <3>1. Rejects(new) /\ StartReplace(Head(s), new)
      BY <2>2 DEF HandleQuery
    <3>2. new.id = n.id
      BY DEF NewEntry
    <3>3. BucketOf(n.id) \in Bucket /\ Len(s) >= K
      BY <3>1, <3>2 DEF Rejects, BucketRejects
    <3>4. s \in Seq(KnownEntry)
      BY <3>3, BucketLemma DEF IInv, TableInv
    <3> HIDE DEF s, new
    <3>5. Head(s) \in KnownEntry
      BY <3>3, <3>4, RoutingTableAssumption
    <3>6. PICK g \in Replacers :
             replacer' = [replacer EXCEPT ![g] =
                            [oldest |-> NodeOf(Head(s)), new |-> new, pc |-> "ping"]]
      BY <2>2, <3>1 DEF StartReplace
    <3>7. NodeOf(Head(s)) \in Nodes
      BY <3>5 DEF KnownEntry
    <3>8. [oldest |-> NodeOf(Head(s)), new |-> new, pc |-> "ping"] \in Started
      BY <1>1, <3>7 DEF Started
    <3> QED BY <3>6, <3>8 DEF IInv
  <2> QED BY <2>1, <2>2
<1> QED BY <1>1, <1>2, <1>3 DEF IInv

\* The steps of replaceIfDead.
LEMMA ReplaceLemma ==
    ASSUME IInv, NEW g \in Replacers, Replace(g)
    PROVE  IInv' /\ SteadyStep
<1> DEFINE r == replacer[g]
<1>1. replacer[g] \in Started
  BY DEF IInv, Replace, ReplaceAnswered, ReplaceSilent, ReplaceInsert
<1>2. r.oldest \in Nodes /\ r.new \in KnownEntry
  BY <1>1 DEF Started
<1>3. CASE ReplaceAnswered(g)
  <2>1. table' = table /\ sweep' = sweep /\ replacer' = [replacer EXCEPT ![g] = Free]
    BY <1>3 DEF ReplaceAnswered
  <2>2. TableInv' /\ SteadyStep
    BY <2>1 DEF IInv, TableInv, TableIn, TableOK, SteadyStep, Stays, Holds
  <2> QED BY <2>1, <2>2 DEF IInv
<1>4. CASE ReplaceSilent(g)
  <2>1. /\ Remove(r.oldest.id) /\ sweep' = sweep
        /\ replacer' = [replacer EXCEPT ![g].pc = "insert"]
    BY <1>4 DEF ReplaceSilent
  <2>0. \A b \in Bucket : \A j \in 1 .. Len(table[b]) :
           Steady(NodeOf(table[b][j])) /\ table[b][j].id = r.oldest.id => Unanswered(table[b][j])
    BY <1>2, <1>4, SteadyLemma DEF Unanswered
  <2>2. TableInv' /\ SteadyStep
    BY <1>2, <2>0, <2>1, RemoveLemma DEF IInv, TableInv, SteadyStep
  <2>3. [replacer[g] EXCEPT !.pc = "insert"] \in Started
    BY <1>1 DEF Started
  <2>4. replacer' \in [Replacers -> Started \cup {Free}]
    BY <2>1, <2>3 DEF IInv
  <2> QED BY <2>1, <2>2, <2>4 DEF IInv
<1>5. CASE ReplaceInsert(g)
  <2>1. /\ Insert(r.new) /\ sweep' = sweep
        /\ replacer' = [replacer EXCEPT ![g] = Free]
    BY <1>5 DEF ReplaceInsert
  <2>2. TableInv' /\ SteadyStep
    BY <1>2, <2>1, InsertLemma DEF IInv, TableInv, SteadyStep
  <2> QED BY <2>1, <2>2 DEF IInv
<1> QED BY <1>3, <1>4, <1>5 DEF Replace

\* The steps of the maintenance goroutine.
LEMMA SweepLemma ==
    ASSUME IInv, Sweep
    PROVE  IInv' /\ SteadyStep
<1>1. CASE SweepStart
  <2>1. table' = table /\ replacer' = replacer /\ sweep' = {NodeOf(e) : e \in Stale}
    BY <1>1 DEF SweepStart
  <2>2. TableInv' /\ SteadyStep
    BY <2>1 DEF IInv, TableInv, TableIn, TableOK, SteadyStep, Stays, Holds
  <2>3. \A e \in Entries : NodeOf(e) \in Nodes
    <3>1. ASSUME NEW b \in Bucket, NEW i \in 1 .. Len(table[b]) PROVE table[b][i] \in KnownEntry
      BY DEF IInv, TableInv, TableIn, TableOK
    <3> QED BY <3>1 DEF Entries, KnownEntry
  <2> QED BY <2>1, <2>2, <2>3 DEF IInv, Stale
<1>2. ASSUME NEW n \in Nodes, SweepSilent(n) PROVE IInv' /\ SteadyStep
  <2>1. RecordFailure(n.id) /\ sweep' = sweep \ {n} /\ replacer' = replacer
    BY <1>2 DEF SweepSilent
  <2>2. TableInv' /\ SteadyStep
    BY <1>2, <2>1, FailureLemma
  <2> QED BY <2>1, <2>2 DEF IInv
<1>3. ASSUME NEW n \in Nodes, SweepAnswered(n) PROVE IInv' /\ SteadyStep
  <2>1. sweep' = sweep \ {n} /\ replacer' = replacer
    BY <1>3 DEF SweepAnswered
  <2>2. CASE BEP42 = "tableOnly" /\ n \notin Valid
    <3>1. Remove(n.id)
      BY <1>3, <2>2 DEF SweepAnswered
    <3>2. TableInv' /\ \A b \in Bucket : \A j \in 1 .. Len(table[b]) :
                         table[b][j].id # n.id => Stays(b, j)
      BY <3>1, RemoveLemma DEF IInv, TableInv
    <3>3. ASSUME NEW b \in Bucket, NEW j \in 1 .. Len(table[b]),
                 Steady(NodeOf(table[b][j])), table[b][j].compliant
          PROVE  table[b][j].id # n.id
      <4> DEFINE e == table[b][j]
      <4>1. e \in KnownEntry
        BY DEF IInv, TableInv, TableIn, TableOK
      <4>2. NodeOf(e) \in Valid
        BY <2>2, <3>3, <4>1 DEF KnownEntry
      <4> QED BY <2>2, <3>3, <4>2 DEF Steady, NodeOf
    <3>4. SteadyStep
      BY <3>2, <3>3 DEF SteadyStep
    <3> QED BY <2>1, <3>2, <3>4 DEF IInv
  <2>3. CASE ~(BEP42 = "tableOnly" /\ n \notin Valid)
    <3>1. RecordSuccess(n.id)
      BY <1>3, <2>3 DEF SweepAnswered
    <3>2. TableInv' /\ SteadyStep
      BY <3>1, KnownClosed, SuccessOrAgeLemma DEF IInv, TableInv, SteadyStep
    <3> QED BY <2>1, <3>2 DEF IInv
  <2> QED BY <2>2, <2>3
<1> QED BY <1>1, <1>2, <1>3 DEF Sweep

\* Every step preserves the invariant and keeps the steady nodes.
LEMMA StepLemma ==
    ASSUME IInv, [NextTable]_tableVars
    PROVE  IInv' /\ SteadyStep
<1>1. ASSUME NEW n \in Nodes, BootstrapInsert(n) PROVE IInv' /\ SteadyStep
  <2>1. Insert(NewEntry(n, FALSE)) /\ replacer' = replacer /\ sweep' = sweep
    BY <1>1 DEF BootstrapInsert
  <2>2. TableInv' /\ SteadyStep
    BY <2>1, NewEntryLemma, InsertLemma DEF IInv, TableInv, SteadyStep
  <2> QED BY <2>1, <2>2 DEF IInv
<1>2. ASSUME NEW n \in Nodes, LookupSilent(n) PROVE IInv' /\ SteadyStep
  <2>1. RecordFailure(n.id) /\ replacer' = replacer /\ sweep' = sweep
    BY <1>2 DEF LookupSilent
  <2>2. TableInv' /\ SteadyStep
    BY <1>2, <2>1, FailureLemma
  <2> QED BY <2>1, <2>2 DEF IInv
<1>3. ASSUME NEW n \in Nodes, LookupAnswered(n) \/ Age(n) PROVE IInv' /\ SteadyStep
  <2>1. (RecordSuccess(n.id) \/ GrowsOld(n.id)) /\ replacer' = replacer /\ sweep' = sweep
    BY <1>3 DEF LookupAnswered, Age
  <2>2. TableInv' /\ SteadyStep
    BY <2>1, KnownClosed, SuccessOrAgeLemma DEF IInv, TableInv, SteadyStep
  <2> QED BY <2>1, <2>2 DEF IInv
<1>4. CASE UNCHANGED tableVars
  <2>1. table' = table /\ replacer' = replacer /\ sweep' = sweep
    BY <1>4 DEF tableVars
  <2> QED BY <2>1 DEF IInv, TableInv, TableIn, TableOK, SteadyStep, Stays, Holds
<1> QED BY <1>1, <1>2, <1>3, <1>4, HandleQueryLemma, ReplaceLemma, SweepLemma DEF NextTable

-----------------------------------------------------------------------------
(* Theorems *)

\* The initial, empty table satisfies the invariant.
LEMMA InitLemma == InitTable => IInv
<1> SUFFICES ASSUME InitTable PROVE IInv
  OBVIOUS
<1>1. table = [b \in Bucket |-> <<>>] /\ <<>> \in Seq(KnownEntry) /\ Len(<<>>) = 0
  BY DEF InitTable, NewRoutingTable
<1>2. \A b \in Bucket : BucketOK(table[b], b)
  BY <1>1, RoutingTableAssumption DEF BucketOK
<1> QED BY <1>1, <1>2 DEF InitTable, IInv, TableInv, TableIn

\* The invariant holds in every reachable state.
LEMMA Invariant == TableSpec => []IInv
<1>1. IInv /\ [NextTable]_tableVars => IInv'
  BY StepLemma
<1> QED BY <1>1, InitLemma, PTL DEF TableSpec

\* The state of the routing table and of the goroutines that change it is well
\* typed (RoutingTable, replaceIfDead, sweepStaleNodes).
THEOREM TableTypeCorrect == TableSpec => []TableTypeOK
<1>1. IInv => TableTypeOK
  <2> SUFFICES ASSUME IInv PROVE TableTypeOK
    OBVIOUS
  <2>1. KnownEntry \subseteq Entry
    BY DEF KnownEntry
  <2>2. \A b \in Bucket : table[b] \in Seq(Entry)
    BY <2>1 DEF IInv, TableInv, TableIn
  <2>3. table \in [Bucket -> Seq(Entry)]
    BY <2>2 DEF IInv, TableInv, TableIn
  <2>4. Started \subseteq Replacement
    BY <2>1 DEF Started, Replacement
  <2> QED BY <2>3, <2>4 DEF IInv, TableTypeOK
<1> QED BY <1>1, Invariant, PTL

\* Buckets never exceed K, hold no node twice and only nodes of their own
\* distance, with any number of concurrent replaceIfDead goroutines.
THEOREM TableOKTheorem == TableSpec => []TableOK
<1>1. IInv => TableOK
  BY DEF IInv, TableInv, TableIn, TableOK
<1> QED BY <1>1, Invariant, PTL

\* A compliant node with one address is evicted by nothing but queries to it that
\* end with nil, in any mode and with any number of concurrent goroutines
\* (Bucket.Insert, replaceIfDead, sweepStaleNodes, RecordFailure).
THEOREM SteadyStayTheorem == TableSpec => SteadyStay
<1>1. ASSUME IInv, [NextTable]_tableVars
      PROVE  [\A e \in Entries :
                Steady(NodeOf(e)) /\ e.compliant /\ ~Unanswered(e) => Present(e.id)']_tableVars
  <2>1. ASSUME NEW b \in Bucket, NEW id, Holds(table'[b], id)
        PROVE  Present(id)'
    <3>1. PICK i \in 1 .. Len(table'[b]) : table'[b][i].id = id
      BY <2>1 DEF Holds
    <3>2. table'[b][i] \in Entries'
      BY <3>1 DEF Entries
    <3> QED BY <3>1, <3>2 DEF Present
  <2>2. SteadyStep
    BY <1>1, StepLemma
  <2>3. ASSUME NEW e \in Entries, Steady(NodeOf(e)), e.compliant, ~Unanswered(e)
        PROVE  Present(e.id)'
    <3>1. PICK b \in Bucket : \E j \in 1 .. Len(table[b]) : e = table[b][j]
      BY DEF Entries
    <3>2. Holds(table'[b], e.id)
      BY <2>2, <2>3, <3>1 DEF SteadyStep, Stays
    <3> QED BY <2>1, <3>2
  <2> QED BY <2>3
<1> QED BY <1>1, Invariant, PTL DEF TableSpec, SteadyStay

=============================================================================
