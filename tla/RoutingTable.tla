---------------------------- MODULE RoutingTable ----------------------------
(***************************************************************************)
(* The routing table of the DHT (internal/dht/routing) and its metric      *)
(* (internal/dht/nodeid).  A node ID is a sequence of Bits bits.  Every    *)
(* method of RoutingTable holds its mutex, so each is one fragment of an   *)
(* action here.  LastSeen is abstracted to whether it lies within          *)
(* refreshInterval (fresh), the only question that is asked of it.         *)
(***************************************************************************)
EXTENDS Integers, Sequences, FiniteSets

CONSTANTS
    Bits,         \* the length of a node ID, 160 in the code
    Self,         \* the node's own ID
    Addrs,        \* addresses
    K,            \* the capacity of a bucket
    MaxFailures   \* consecutive failures before a node is evicted

ID == [1 .. Bits -> {0, 1}]

Bucket == 0 .. Bits - 1

ASSUME RoutingTableAssumption ==
    /\ Bits \in Nat \ {0} /\ Self \in ID
    /\ K \in Nat \ {0}
    /\ MaxFailures \in Nat \ {0}

VARIABLE table  \* table[b]: the nodes of bucket b, the head is evicted first

Entry == [id : ID, addr : Addrs, fresh : BOOLEAN, compliant : BOOLEAN,
          fail : 0 .. MaxFailures - 1]

Entries == UNION {{table[b][i] : i \in 1 .. Len(table[b])} : b \in Bucket}

Present(id) == \E e \in Entries : e.id = id

NewRoutingTable == table = [b \in Bucket |-> <<>>]

-----------------------------------------------------------------------------
(* The metric *)

\* The number of leading bits that x and y share.
PrefixLen(x, y) ==
    CHOOSE n \in 0 .. Bits :
        /\ \A i \in 1 .. n : x[i] = y[i]
        /\ n < Bits => x[n + 1] # y[n + 1]

BucketOf(id) == PrefixLen(Self, id)

\* The distance of x to target is less than that of y.
Closer(target, x, y) ==
    \E i \in 1 .. Bits :
        /\ x[i] = target[i] /\ y[i] # target[i]
        /\ \A j \in 1 .. i - 1 : x[j] = y[j]

\* The first count members of s, sorted by distance to target.
Nearest(target, s, count) ==
    {x \in s : Cardinality({y \in s : Closer(target, y, x)}) < count}

\* FindClosest of a node self that knows the IDs known: the buckets at most j
\* away from the target's, for the first j that gives enough nodes, sorted.
FindClosest(self, known, target, count) ==
    LET i == IF self = target THEN Bits - 1 ELSE PrefixLen(self, target)
        Within(j) == {x \in known : PrefixLen(self, x) \in Bucket \cap (i - j .. i + j)}
        Enough(j) == Cardinality(Within(j)) >= count \/ j = Bits - 1
        first == CHOOSE j \in Bucket : Enough(j) /\ \A h \in 0 .. j - 1 : ~Enough(h)
    IN Nearest(target, Within(first), count)

-----------------------------------------------------------------------------
(* Bucket *)

WithoutIndex(s, i) == [j \in 1 .. Len(s) - 1 |-> IF j < i THEN s[j] ELSE s[j + 1]]

Holds(s, id) == \E i \in 1 .. Len(s) : s[i].id = id

IndexOf(s, id) == CHOOSE i \in 1 .. Len(s) : s[i].id = id

\* A mutant of Evictable: the oldest node, compliant or not.
MutEvictable(s, i) == i = 1

\* The first non-compliant node.
Evictable(s, i) == ~s[i].compliant /\ \A j \in 1 .. i - 1 : s[j].compliant

\* A mutant of BucketInsert: in a full bucket a node is not looked for.
MutBucketInsert(s, node) ==
    IF Len(s) < K /\ Holds(s, node.id)
    THEN Append(WithoutIndex(s, IndexOf(s, node.id)), node)
    ELSE IF Len(s) < K
    THEN Append(s, node)
    ELSE IF node.compliant /\ \E i \in 1 .. Len(s) : Evictable(s, i)
    THEN Append(WithoutIndex(s, CHOOSE i \in 1 .. Len(s) : Evictable(s, i)), node)
    ELSE s

\* Insert: a node that is there moves to the tail; in a full bucket a compliant
\* node takes the place of a non-compliant one; else a full bucket rejects.
BucketInsert(s, node) ==
    IF Holds(s, node.id)
    THEN Append(WithoutIndex(s, IndexOf(s, node.id)), node)
    ELSE IF Len(s) < K
    THEN Append(s, node)
    ELSE IF node.compliant /\ \E i \in 1 .. Len(s) : Evictable(s, i)
    THEN Append(WithoutIndex(s, CHOOSE i \in 1 .. Len(s) : Evictable(s, i)), node)
    ELSE s

BucketRejects(s, node) ==
    /\ ~Holds(s, node.id) /\ Len(s) >= K
    /\ ~(node.compliant /\ \E i \in 1 .. Len(s) : Evictable(s, i))

BucketRemove(s, id) ==
    IF Holds(s, id) THEN WithoutIndex(s, IndexOf(s, id)) ELSE s

\* At most K nodes, all of bucket b, none twice.
BucketOK(s, b) ==
    /\ Len(s) <= K
    /\ \A i \in 1 .. Len(s) : BucketOf(s[i].id) = b
    /\ \A i, j \in 1 .. Len(s) : s[i].id = s[j].id => i = j

-----------------------------------------------------------------------------
(* RoutingTable: the node's own ID is in no bucket *)

SetBucket(id, s) ==
    table' = IF BucketOf(id) \in Bucket
             THEN [table EXCEPT ![BucketOf(id)] = s]
             ELSE table

Insert(node) == SetBucket(node.id, BucketInsert(table[BucketOf(node.id)], node))

Rejects(node) ==
    BucketOf(node.id) \in Bucket /\ BucketRejects(table[BucketOf(node.id)], node)

Remove(id) == SetBucket(id, BucketRemove(table[BucketOf(id)], id))

\* The node with e's ID becomes e.
Replaced(s, e) == [i \in 1 .. Len(s) |-> IF s[i].id = e.id THEN e ELSE s[i]]

\* A mutant of AfterFailure: one failure too many is tolerated.
MutAfterFailure(s, id) ==
    LET e == s[IndexOf(s, id)] IN
    IF e.fail >= MaxFailures
    THEN BucketRemove(s, id)
    ELSE Replaced(s, [e EXCEPT !.fail = @ + 1])

AfterFailure(s, id) ==
    LET e == s[IndexOf(s, id)] IN
    IF e.fail + 1 >= MaxFailures
    THEN BucketRemove(s, id)
    ELSE Replaced(s, [e EXCEPT !.fail = @ + 1])

RecordFailure(id) ==
    LET s == table[BucketOf(id)] IN
    SetBucket(id, IF Holds(s, id) THEN AfterFailure(s, id) ELSE s)

AfterSuccess(s, id) ==
    Replaced(s, [s[IndexOf(s, id)] EXCEPT !.fail = 0, !.fresh = TRUE])

RecordSuccess(id) ==
    LET s == table[BucketOf(id)] IN
    SetBucket(id, IF Holds(s, id) THEN AfterSuccess(s, id) ELSE s)

\* refreshInterval passes since the node was seen.
Older(s, id) == Replaced(s, [s[IndexOf(s, id)] EXCEPT !.fresh = FALSE])

GrowsOld(id) ==
    LET s == table[BucketOf(id)] IN
    SetBucket(id, IF Holds(s, id) THEN Older(s, id) ELSE s)

Stale == {e \in Entries : ~e.fresh}

=============================================================================
