-------------------------- MODULE DHTLookupProofs --------------------------
(***************************************************************************)
(* Proofs about the lookups of a DHT node, for any network, any IDs and    *)
(* any number of concurrent queries and rounds.  LInv is inductive; so is  *)
(* LInv with Placing, when a secret is replaced at most once while a token *)
(* is held.                                                                *)
(***************************************************************************)
EXTENDS DHTLookup, DHTTableProofs

\* Entries of nodes of the network.
NodeEntry == {e \in Entry : e.id \in Node}

\* A call that has ended, or that announces, waits for no answer to a query.
Quiet ==
    /\ \A n \in Node : answer[n] # None => n \in asked /\ call.pc = "loop"
    /\ call.pc \in {"idle", "place"} => asked = {}

\* A lookup asks its candidates, each once; an announcement goes to one of those
\* that have answered.
Asking ==
    /\ call.pc = "loop" => announced = 0 /\ queried \subseteq Candidates /\ wire = {}
    /\ call.pc = "placing" => announced > 0
    /\ call.pc \in {"place", "placing"} => call.op = "announce"
    /\ call.pc = "idle" => call.op = "none"
    /\ \A n \in Node : tokens[n] # None => n \in queried /\ (announced = 0 => n \in Candidates)

\* Each answer names a node at most once.
Counted ==
    call.pc = "loop" =>
        \A n \in Node : candidates[n] <= 1 + Cardinality(queried \ asked)

\* The nodes that n, another one than the client, names.
Names(n) == FindClosest(n, Known[n], call.target, K)

\* While no peers are found: an answer without peers names all there is to name.
Answered ==
    call.op = "get" =>
        \A n \in Node : answer[n] # None /\ answer[n].peers = {} =>
            Live(n) = {} /\ (n # Self => answer[n].nodes = Names(n))

\* While no peers are found: a reliable node that has answered has none, and what
\* it named are candidates.
Explored ==
    call.op = "get" /\ ~ctxDone /\ allPeers = {} =>
        \A n \in (queried \ asked) \cap Reliable :
            Live(n) = {} /\ (n # Self => Names(n) \subseteq Candidates)

\* TypeOK without the table.
CallTypeOK ==
    /\ call \in [op : {"none", "find", "get", "announce"}, target : ID,
                 pc : {"idle", "loop", "place", "placing"}]
    /\ ctxDone \in BOOLEAN
    /\ round \in 0 .. MaxRounds /\ announced \in 0 .. K
    /\ candidates \in [Node -> 0 .. Cardinality(Node) + 1]
    /\ asked \subseteq queried /\ queried \subseteq Node
    /\ tokens \in [Node -> Token \cup {None}]
    /\ allPeers \subseteq Peer
    /\ prevClosest \in Node \cup {None}
    /\ answer \in [Node -> Answer \cup {None}]
    /\ wire \subseteq [to : Node, token : Token]
    /\ store \in [Node -> [Peer -> EntryState]]

LInv ==
    /\ TableIn(NodeEntry) /\ CallTypeOK
    /\ Quiet /\ Asking /\ Counted /\ Answered /\ Explored

\* The peer is stored at n, or will be.
Announced(n) == store[n]["us"] = "new" \/ \E d \in wire : d.to = n

\* The nodes that have given a token.
Givers == {n \in Node : tokens[n] # None}

\* The first announcement is for the nearest node.
Placing ==
    call.pc \in {"place", "placing"} /\ announced > 0 =>
        \A n \in Nearest(call.target, Givers, 1) \cap Reliable : Announced(n)

-----------------------------------------------------------------------------
(* The table *)

\* Sets of nodes are finite sets of IDs.
LEMMA NodeSets ==
    /\ \A S \in SUBSET Node : S \in SUBSET ID /\ IsFiniteSet(S)
    /\ \A S \in SUBSET Node : Cardinality(S) \in Nat /\ Cardinality(S) <= Cardinality(Node)
<1>1. ASSUME NEW S \in SUBSET Node
      PROVE  /\ S \in SUBSET ID /\ IsFiniteSet(S)
             /\ Cardinality(S) \in Nat /\ Cardinality(S) <= Cardinality(Node)
  <2>1. IsFiniteSet(S) /\ Cardinality(S) <= Cardinality(Node)
    BY DHTLookupAssumption, FS_Subset
  <2> QED
    BY <2>1, DHTLookupAssumption, FS_CardinalityType
<1> QED
  BY <1>1

LEMMA NodeEntryClosed == Closed(NodeEntry)
BY DEF Closed, NodeEntry

LEMMA FreshNodeEntry ==
    ASSUME NEW n \in Node
    PROVE  FreshEntry(n) \in NodeEntry /\ FreshEntry(n).id = n
<1>1. (CHOOSE a \in Addrs : TRUE) \in Addrs
  BY DHTLookupAssumption
<1>2. 0 \in 0 .. MaxFailures - 1 /\ n \in ID
  BY RoutingTableAssumption, DHTLookupAssumption
<1> QED
  BY <1>1, <1>2 DEF FreshEntry, NodeEntry, Entry

\* The table with which the client begins.
LEMMA TableInit ==
    ASSUME table = [b \in Bucket |-> BucketWith(b)]
    PROVE  TableIn(NodeEntry)
<1>1. ASSUME NEW b \in Bucket
      PROVE  BucketWith(b) \in Seq(NodeEntry) /\ BucketOK(BucketWith(b), b)
  <2> DEFINE ns == {n \in Known[Self] : BucketOf(n) = b}
             N == Cardinality(ns)
             Lists(s) == s \in [1 .. N -> ns] /\ \A n \in ns : \E i \in DOMAIN s : s[i] = n
             s == CHOOSE s \in [1 .. N -> ns] : \A n \in ns : \E i \in DOMAIN s : s[i] = n
  <2>1. ns \in SUBSET Node /\ N <= K
    BY DHTLookupAssumption DEF BucketOf
  <2>2. IsFiniteSet(ns) /\ N \in Nat
    <3> HIDE DEF ns
    <3> QED
      BY <2>1, NodeSets
  <2>3. \E r \in [1 .. N -> ns] : \A n \in ns : \E i \in DOMAIN r : r[i] = n
    <3> HIDE DEF ns
    <3>1. ExistsBijection(1 .. N, ns)
      BY <2>2, FS_CardinalityType
    <3>2. PICK r \in Bijection(1 .. N, ns) : TRUE
      BY <3>1 DEF ExistsBijection
    <3>3. r \in [1 .. N -> ns] /\ \A n \in ns : \E i \in 1 .. N : r[i] = n
      BY <3>2 DEF Bijection, Surjection, Injection
    <3> QED
      BY <3>3
  <2>4. s \in [1 .. N -> ns] /\ \A n \in ns : \E i \in 1 .. N : s[i] = n
    <3> HIDE DEF ns
    <3>1. s \in [1 .. N -> ns] /\ \A n \in ns : \E i \in DOMAIN s : s[i] = n
      BY <2>3
    <3> QED
      BY <3>1
  <2>5. \A i, j \in 1 .. N : s[i] = s[j] => i = j
    <3> HIDE DEF ns, s
    <3>1. s \in Surjection(1 .. N, ns)
      BY <2>4 DEF Surjection
    <3>2. IsFiniteSet(1 .. N) /\ Cardinality(1 .. N) = N
      BY <2>2, FS_Interval
    <3>3. s \in Injection(1 .. N, ns)
      BY <2>2, <3>1, <3>2, FS_SurjSameCardinalityImpliesInj
    <3> QED
      BY <3>3 DEF Injection, IsInjective
  <2>6. BucketWith(b) = [i \in 1 .. N |-> FreshEntry(s[i])]
    <3>1. BucketWith(b) = [i \in DOMAIN s |-> FreshEntry(s[i])]
      BY DEF BucketWith
    <3>2. DOMAIN s = 1 .. N
      <4> HIDE DEF s
      <4> QED
        BY <2>4
    <3> QED
      BY <3>1, <3>2
  <2>7. \A n \in ns : BucketOf(n) = b
    OBVIOUS
  <2> HIDE DEF s, ns, N
  <2>8. \A i \in 1 .. N : FreshEntry(s[i]) \in NodeEntry /\ FreshEntry(s[i]).id = s[i]
    BY <2>1, <2>4, FreshNodeEntry
  <2>9. PICK w : w = BucketWith(b)
    OBVIOUS
  <2>10. w \in Seq(NodeEntry) /\ Len(w) = N /\ \A i \in 1 .. N : w[i].id = s[i]
    BY <2>2, <2>6, <2>8, <2>9
  <2>11. BucketOK(w, b)
    BY <2>1, <2>2, <2>4, <2>5, <2>7, <2>10 DEF BucketOK
  <2> QED
    BY <2>9, <2>10, <2>11
<1> QED
  BY <1>1 DEF TableIn

\* What the steps of a call do to the table.
LEMMA TableStep ==
    ASSUME TableIn(NodeEntry), NEW n \in Node,
           RecordSuccess(n) \/ RecordFailure(n) \/ Insert(FreshEntry(n))
    PROVE  TableIn(NodeEntry)'
BY NodeEntryClosed, FreshNodeEntry, SuccessOrAgeLemma, RecordFailureLemma, InsertLemma

LEMMA TableSame == TableIn(NodeEntry) /\ UNCHANGED table => TableIn(NodeEntry)'
BY DEF TableIn

\* A node names nodes that it knows.
LEMMA ClosestKnown ==
    /\ TableIn(NodeEntry) => \A n \in Node : \A t : ClosestOf(n, t) \subseteq Node
    /\ \A n \in Node \ {Self} : ClosestOf(n, call.target) = Names(n)
<1>1. ASSUME NEW n, NEW S, NEW t PROVE FindClosest(n, S, t, K) \subseteq S
  BY DEF FindClosest, Nearest
<1>2. ASSUME TableIn(NodeEntry), NEW n \in Node PROVE TableOf(n) \subseteq Node
  <2>1. \A b \in Bucket : \A i \in 1 .. Len(table[b]) : table[b][i].id \in Node
    <3>1. \A b \in Bucket : \A i \in 1 .. Len(table[b]) : table[b][i] \in NodeEntry
      BY <1>2 DEF TableIn
    <3> QED
      BY <3>1 DEF NodeEntry
  <2>2. \A e \in Entries : e.id \in Node
    BY <2>1 DEF Entries
  <2> QED
    BY <2>2, DHTLookupAssumption DEF TableOf
<1>3. ASSUME TableIn(NodeEntry), NEW n \in Node, NEW t PROVE ClosestOf(n, t) \subseteq Node
  BY <1>1, <1>2, <1>3 DEF ClosestOf
<1> QED
  BY <1>3 DEF ClosestOf, TableOf, Names

-----------------------------------------------------------------------------
(* The beginning *)

\* The invariant implies the type invariant.
LEMMA LInvType == LInv => TypeOK
<1> SUFFICES ASSUME LInv PROVE TypeOK
  OBVIOUS
<1>1. TableIn(NodeEntry) /\ CallTypeOK
  BY DEF LInv
<1>2. \A b \in Bucket : Len(table[b]) <= K /\ \A i \in 1 .. Len(table[b]) : table[b][i] \in Entry
  <2>1. \A b \in Bucket : /\ Len(table[b]) <= K
                          /\ \A i \in 1 .. Len(table[b]) : table[b][i] \in NodeEntry
    BY <1>1 DEF TableIn, BucketOK
  <2> QED
    BY <2>1 DEF NodeEntry
<1> QED
  BY <1>1, <1>2 DEF CallTypeOK, TypeOK

LEMMA LInvInit == Init => LInv
<1> SUFFICES ASSUME Init PROVE LInv
  OBVIOUS
<1>1. TableIn(NodeEntry)
  BY TableInit DEF Init
<1>2. CallTypeOK
  <2>1. call \in [op : {"none", "find", "get", "announce"}, target : ID,
                  pc : {"idle", "loop", "place", "placing"}]
    BY RoutingTableAssumption DEF Init, NoCall
  <2>2. 0 \in 0 .. MaxRounds /\ 0 \in 0 .. K /\ 0 \in 0 .. Cardinality(Node) + 1
    BY RoutingTableAssumption, DHTLookupAssumption, NodeSets
  <2>3. store \in [Node -> [Peer -> EntryState]]
    BY DEF Init, EntryState
  <2> QED
    BY <2>1, <2>2, <2>3 DEF Init, CallTypeOK
<1>3. Quiet /\ Asking /\ Counted /\ Answered /\ Explored
  BY DEF Init, NoCall, Quiet, Asking, Counted, Answered, Explored
<1> QED
  BY <1>1, <1>2, <1>3 DEF LInv

-----------------------------------------------------------------------------
(* The steps of a lookup *)

\* A call begins, or ends.
LEMMA LocalsStep ==
    ASSUME LInv, NEW c \in [op : {"none", "find", "get", "announce"}, target : ID,
                            pc : {"idle", "loop"}],
           NEW closest, closest \subseteq Node, Locals(c, closest), UNCHANGED <<table, net>>,
           store' \in [Node -> [Peer -> EntryState]], asked = {},
           c.pc = "loop" => wire = {}, c.pc = "idle" => c.op = "none"
    PROVE  LInv'
<1>1. /\ TableIn(NodeEntry) /\ CallTypeOK /\ Quiet
      /\ UNCHANGED <<table, asked, answer, wire>>
  BY DEF LInv, net
<1>2. /\ call' = c /\ candidates' = [n \in Node |-> IF n \in closest THEN 1 ELSE 0]
      /\ ctxDone' = FALSE /\ round' = 0 /\ announced' = 0 /\ queried' = {} /\ allPeers' = {}
      /\ tokens' = [n \in Node |-> None] /\ prevClosest' = None
  BY DEF Locals
<1>3. CallTypeOK'
  <2>1. /\ 0 \in 0 .. MaxRounds /\ 0 \in 0 .. K
        /\ {0, 1} \subseteq 0 .. Cardinality(Node) + 1
    BY RoutingTableAssumption, DHTLookupAssumption, NodeSets
  <2>2. candidates' \in [Node -> 0 .. Cardinality(Node) + 1]
    BY <1>2, <2>1
  <2>3. call' \in [op : {"none", "find", "get", "announce"}, target : ID,
                   pc : {"idle", "loop", "place", "placing"}]
    BY <1>2
  <2> QED
    BY <1>1, <1>2, <2>1, <2>2, <2>3 DEF CallTypeOK
<1>4. Quiet'
  BY <1>1, <1>2 DEF Quiet
<1>5. Asking'
  BY <1>1, <1>2 DEF Asking
<1>6. Counted'
  <2>1. queried' \ asked' = {} /\ Cardinality({}) = 0
    BY <1>2, FS_EmptySet
  <2>2. \A n \in Node : candidates'[n] <= 1
    BY <1>2
  <2>3. Cardinality(queried' \ asked') = 0
    BY <2>1, Zenon
  <2> QED
    BY <2>2, <2>3 DEF Counted
<1>7. \A n \in Node : answer'[n] = None
  BY <1>1 DEF Quiet
<1>8. Answered' /\ Explored'
  BY <1>2, <1>7 DEF Answered, Explored
<1> QED
  BY <1>1, <1>3, <1>4, <1>5, <1>6, <1>8, TableSame DEF LInv

LEMMA StartStep ==
    ASSUME LInv, StartFind \/ GetPeers \/ Announce
    PROVE  LInv'
<1>1. PICK op \in {"find", "get", "announce"}, t \in ID : Start(op, t)
  BY DHTLookupAssumption DEF StartFind, GetPeers, Announce
<1>2. asked = {} /\ wire = {} /\ store' = store /\ store \in [Node -> [Peer -> EntryState]]
  BY <1>1 DEF Start, Idle, LInv, Quiet, CallTypeOK
<1>3. ClosestOf(Self, t) \subseteq Node
  BY ClosestKnown, DHTLookupAssumption DEF LInv
<1>4. [op |-> op, target |-> t, pc |-> "loop"]
         \in [op : {"none", "find", "get", "announce"}, target : ID, pc : {"idle", "loop"}]
  OBVIOUS
<1> QED
  BY <1>1, <1>2, <1>3, <1>4, LocalsStep DEF Start

LEMMA ReturnStep ==
    ASSUME LInv, EndLookup \/ EndAnnounce
    PROVE  LInv'
<1>1. asked = {} /\ Return
  BY DEF EndLookup, EndAnnounce, LInv, Quiet
<1>2. store' \in [Node -> [Peer -> EntryState]]
  BY <1>1 DEF Return, EntryState
<1>3. NoCall \in [op : {"none", "find", "get", "announce"}, target : ID, pc : {"idle", "loop"}]
      /\ NoCall.pc # "loop" /\ NoCall.op = "none"
  BY RoutingTableAssumption DEF NoCall
<1>4. {} \subseteq Node
  OBVIOUS
<1> QED
  BY <1>1, <1>2, <1>3, <1>4, LocalsStep DEF Return

\* Steps that change neither the call nor the peer stores nor the network.
LEMMA ElsewhereStep ==
    ASSUME LInv, TableIn(NodeEntry)', CallTypeOK', ctxDone => ctxDone',
           UNCHANGED <<call, round, candidates, queried, tokens, allPeers, prevClosest, announced,
                       net, store>>
    PROVE  LInv'
<1> USE DEF net
<1>1. Quiet' /\ Asking'
  BY DEF LInv, Quiet, Asking, Candidates
<1>2. Counted'
  BY DEF LInv, Counted
<1>3. Answered' /\ Explored'
  BY DEF LInv, Answered, Explored, Live, Names, Candidates
<1> QED
  BY <1>1, <1>2, <1>3 DEF LInv

LEMMA CtxDoneStep == LInv /\ CtxDone => LInv'
<1> SUFFICES ASSUME LInv, CtxDone PROVE LInv'
  OBVIOUS
<1>1. CallTypeOK'
  BY DEF LInv, CallTypeOK, CtxDone, net
<1> QED
  BY <1>1, TableSame, ElsewhereStep DEF CtxDone, LInv

LEMMA QueriedByStep ==
    ASSUME LInv, NEW n \in Node, QueriedBy(n)
    PROVE  LInv'
<1>1. TableIn(NodeEntry)'
  BY TableStep DEF QueriedBy, LInv
<1>2. CallTypeOK'
  BY DEF LInv, CallTypeOK, QueriedBy, net, local
<1> QED
  BY <1>1, <1>2, ElsewhereStep DEF QueriedBy, local

LEMMA NextRoundStep ==
    ASSUME LInv, NextRound
    PROVE  LInv'
<1>1. /\ call.pc = "loop" /\ asked = {} /\ asked' = ToQuery /\ queried' = queried \cup ToQuery
      /\ round' = round + 1 /\ round # MaxRounds /\ ToQuery # {}
      /\ prevClosest' = IF call.op = "find" THEN CHOOSE n \in ClosestCandidate : TRUE
                                            ELSE prevClosest
      /\ UNCHANGED <<table, call, ctxDone, candidates, tokens, allPeers, announced, answer, wire,
                     store>>
  BY DEF NextRound, Stops
<1>2. CallTypeOK
  BY DEF LInv
<1>3. ToQuery \subseteq Candidates \ queried /\ Candidates \in SUBSET Node
  BY DEF ToQuery, Nearest, Candidates
<1>4. (CHOOSE n \in ClosestCandidate : TRUE) \in Node
  <2>1. Candidates # {}
    BY <1>1, <1>3
  <2>2. call.target \in ID
    BY <1>2 DEF CallTypeOK
  <2>3. Candidates \in SUBSET ID /\ IsFiniteSet(Candidates)
    BY <1>3, NodeSets
  <2>4. ClosestCandidate # {}
    BY <2>1, <2>2, <2>3, NearestSome DEF ClosestCandidate
  <2>5. ClosestCandidate \subseteq Node
    BY <1>3 DEF ClosestCandidate, Nearest
  <2> QED
    BY <2>4, <2>5
<1>5. CallTypeOK'
  <2>1. round' \in 0 .. MaxRounds
    <3>1. MaxRounds \in Nat /\ round \in 0 .. MaxRounds
      BY <1>2, DHTLookupAssumption DEF CallTypeOK
    <3> QED
      BY <1>1, <3>1
  <2>2. prevClosest' \in Node \cup {None}
    BY <1>1, <1>2, <1>4 DEF CallTypeOK
  <2>3. asked' \subseteq queried' /\ queried' \subseteq Node
    BY <1>1, <1>2, <1>3 DEF CallTypeOK
  <2> QED
    BY <1>1, <1>2, <2>1, <2>2, <2>3 DEF CallTypeOK
<1>6. Quiet'
  BY <1>1 DEF LInv, Quiet
<1>7. Asking'
  BY <1>1, <1>3 DEF LInv, Asking, Candidates
<1>8. queried' \ asked' = queried /\ queried \ asked = queried
  BY <1>1, <1>3
<1>9. Counted'
  BY <1>1, <1>8 DEF LInv, Counted
<1>10. Answered' /\ Explored'
  BY <1>1, <1>8 DEF LInv, Answered, Explored, Live, Names, Candidates
<1> QED
  BY <1>1, <1>5, <1>6, <1>7, <1>9, <1>10, TableSame DEF LInv

LEMMA BeginAnnounceStep ==
    ASSUME LInv, BeginAnnounce
    PROVE  LInv'
<1>1. /\ call.pc = "loop" /\ asked = {} /\ call.op = "announce"
      /\ call' = [call EXCEPT !.pc = "place"]
      /\ UNCHANGED <<table, ctxDone, round, candidates, queried, tokens, allPeers, prevClosest,
                     announced, asked, answer, wire, store>>
  BY DEF BeginAnnounce, net
<1>2. CallTypeOK
  BY DEF LInv
<1>3. call'.pc = "place" /\ call'.op = "announce" /\ call'.target = call.target
  BY <1>1, <1>2 DEF CallTypeOK
<1>4. CallTypeOK'
  BY <1>1, <1>2 DEF CallTypeOK
<1>5. Quiet'
  BY <1>1, <1>3 DEF LInv, Quiet
<1>6. Asking'
  BY <1>1, <1>3 DEF LInv, Asking, Candidates
<1>7. Counted' /\ Answered' /\ Explored'
  BY <1>3 DEF Counted, Answered, Explored
<1> QED
  BY <1>1, <1>4, <1>5, <1>6, <1>7, TableSame DEF LInv

\* A node answers.
LEMMA HandleLookupStep ==
    ASSUME LInv, NEW n \in Node, HandleLookup(n)
    PROVE  LInv'
<1>1. /\ call.pc = "loop" /\ n \in asked
      /\ UNCHANGED <<table, call, ctxDone, round, candidates, queried, tokens, allPeers,
                     prevClosest, announced, asked, wire, store>>
  BY DEF HandleLookup, local
<1>2. CallTypeOK
  BY DEF LInv
<1>3. PICK a : /\ answer' = [answer EXCEPT ![n] = a]
               /\ a = IF call.op = "find"
                      THEN [token |-> None, peers |-> {}, nodes |-> ClosestOf(n, call.target)]
                      ELSE [token |-> 0, peers |-> Live(n),
                            nodes |-> IF Live(n) = {} THEN ClosestOf(n, call.target) ELSE {}]
  BY DEF HandleLookup
<1>4. /\ a \in Answer
      /\ call.op = "get" /\ a.peers = {} =>
            Live(n) = {} /\ (n # Self => a.nodes = Names(n))
  <2>1. /\ ClosestOf(n, call.target) \subseteq Node
        /\ n # Self => ClosestOf(n, call.target) = Names(n)
    BY ClosestKnown DEF LInv
  <2>2. Live(n) \subseteq Peer /\ 0 \in Token
    BY DHTLookupAssumption DEF Live, Token
  <2>3. CASE call.op = "find"
    BY <1>3, <2>1, <2>2, <2>3 DEF Answer
  <2>4. CASE call.op # "find"
    BY <1>3, <2>1, <2>2, <2>4 DEF Answer
  <2> QED
    BY <2>3, <2>4
<1>5. CallTypeOK'
  <2>1. answer' \in [Node -> Answer \cup {None}]
    BY <1>2, <1>3, <1>4 DEF CallTypeOK
  <2> QED
    BY <1>1, <1>2, <2>1 DEF CallTypeOK
<1>6. \A m \in Node : answer'[m] = IF m = n THEN a ELSE answer[m]
  BY <1>2, <1>3 DEF CallTypeOK
<1>7. Quiet'
  BY <1>1, <1>6 DEF LInv, Quiet
<1>8. Asking' /\ Counted' /\ Explored'
  BY <1>1 DEF LInv, Asking, Counted, Explored, Candidates, Live, Names
<1>9. Answered'
  BY <1>1, <1>4, <1>6 DEF LInv, Answered, Live, Names
<1> QED
  BY <1>1, <1>5, <1>7, <1>8, <1>9, TableSame DEF LInv

\* An answer arrives: what it names become candidates.
LEMMA ReceiveStep ==
    ASSUME LInv, NEW n \in Node, Receive(n)
    PROVE  LInv'
<1> DEFINE a == answer[n]
           C == Cardinality(queried \ asked)
<1>1. /\ n \in asked /\ a # None /\ RecordSuccess(n)
      /\ tokens' = [tokens EXCEPT ![n] = a.token]
      /\ allPeers' = IF call.op = "get" THEN allPeers \cup a.peers ELSE allPeers
      /\ candidates' = [m \in Node |-> candidates[m] + IF m \in a.nodes THEN 1 ELSE 0]
      /\ asked' = asked \ {n} /\ answer' = [answer EXCEPT ![n] = None]
      /\ UNCHANGED <<call, ctxDone, round, queried, prevClosest, announced, wire, store>>
  BY DEF Receive
<1>2. CallTypeOK /\ a \in Answer /\ call.pc = "loop"
  BY <1>1 DEF LInv, CallTypeOK, Quiet
<1> HIDE DEF a
<1>3. /\ asked \subseteq queried /\ queried \subseteq Node /\ queried \subseteq Candidates
      /\ \A m \in Node : candidates[m] \in Nat /\ candidates[m] <= 1 + C
  <2>1. /\ asked \subseteq queried /\ queried \subseteq Node /\ queried \subseteq Candidates
        /\ \A m \in Node : candidates[m] \in Nat
    BY <1>2 DEF LInv, CallTypeOK, Asking
  <2>2. \A m \in Node : candidates[m] <= 1 + Cardinality(queried \ asked)
    BY <1>2 DEF LInv, Counted
  <2> QED
    BY <2>1, <2>2
<1>4. C \in Nat /\ Cardinality(queried' \ asked') = C + 1
      /\ C + 1 <= Cardinality(Node) /\ Cardinality(Node) \in Nat
  <2>1. queried' \ asked' = (queried \ asked) \cup {n} /\ n \notin queried \ asked
    BY <1>1, <1>3
  <2>2. queried \ asked \in SUBSET Node /\ queried' \ asked' \in SUBSET Node
    BY <1>1, <1>3
  <2>3. IsFiniteSet(queried \ asked) /\ C \in Nat
        /\ Cardinality(queried' \ asked') <= Cardinality(Node)
        /\ Cardinality(Node) \in Nat
    BY <2>2, NodeSets
  <2>4. Cardinality((queried \ asked) \cup {n}) = C + 1
    BY <2>1, <2>3, FS_AddElement
  <2>5. Cardinality(queried' \ asked') = C + 1
    BY <2>1, <2>4, Zenon
  <2> QED
    BY <2>3, <2>5
<1> HIDE DEF C
<1>5. \A m \in Node : /\ candidates'[m] \in Nat /\ candidates'[m] <= 1 + (C + 1)
                      /\ candidates[m] <= candidates'[m]
                      /\ m \in a.nodes => candidates'[m] > 0
  BY <1>1, <1>3, <1>4
<1>6. CallTypeOK'
  <2>1. candidates' \in [Node -> 0 .. Cardinality(Node) + 1]
    BY <1>1, <1>4, <1>5
  <2>2. tokens' \in [Node -> Token \cup {None}] /\ answer' \in [Node -> Answer \cup {None}]
    BY <1>1, <1>2 DEF CallTypeOK, Answer
  <2>3. allPeers' \subseteq Peer /\ asked' \subseteq queried'
    BY <1>1, <1>2 DEF CallTypeOK, Answer
  <2> QED
    BY <1>1, <1>2, <2>1, <2>2, <2>3 DEF CallTypeOK
<1>7. /\ \A m \in Node : answer'[m] = IF m = n THEN None ELSE answer[m]
      /\ \A m \in Node : tokens'[m] # None => m = n \/ tokens[m] # None
  BY <1>1, <1>2 DEF CallTypeOK
<1>8. Candidates \subseteq Candidates' /\ a.nodes \subseteq Candidates'
  <2>1. a.nodes \subseteq Node
    BY <1>2 DEF Answer
  <2> QED
    BY <1>3, <1>5, <2>1 DEF Candidates
<1>9. Quiet'
  BY <1>1, <1>2, <1>7 DEF LInv, Quiet
<1>10. Asking'
  <2>1. ASSUME NEW m \in Node, tokens'[m] # None PROVE m \in queried' /\ m \in Candidates'
    <3>1. m \in queried
      BY <1>1, <1>3, <1>7, <2>1 DEF LInv, Asking
    <3> QED
      BY <1>1, <1>3, <1>8, <3>1
  <2>2. announced' = 0 /\ queried' \subseteq Candidates' /\ wire' = {}
    BY <1>1, <1>2, <1>3, <1>8 DEF LInv, Asking
  <2> QED
    BY <1>1, <1>2, <2>1, <2>2 DEF Asking
<1>11. Counted'
  <2>1. \A m \in Node : candidates'[m] <= 1 + Cardinality(queried' \ asked')
    BY <1>4, <1>5
  <2> QED
    BY <2>1 DEF Counted
<1>12. Answered'
  BY <1>1, <1>7 DEF LInv, Answered, Live, Names
<1>13. Explored'
  <2> SUFFICES ASSUME call.op = "get", ~ctxDone, allPeers' = {},
                      NEW m \in (queried' \ asked') \cap Reliable
               PROVE  Live(m) = {} /\ (m # Self => Names(m) \subseteq Candidates')
    BY <1>1 DEF Explored, Live, Names
  <2>1. allPeers = {} /\ a.peers = {}
    BY <1>1
  <2>2. CASE m = n
    BY <1>1, <1>8, <2>1, <2>2 DEF LInv, Answered, a
  <2>3. CASE m # n
    <3>1. m \in (queried \ asked) \cap Reliable
      BY <1>1, <2>3
    <3> QED
      BY <1>8, <2>1, <3>1 DEF LInv, Explored
  <2> QED
    BY <2>2, <2>3
<1>14. TableIn(NodeEntry)'
  BY <1>1, TableStep DEF LInv
<1> QED
  BY <1>6, <1>9, <1>10, <1>11, <1>12, <1>13, <1>14 DEF LInv

\* No answer arrives: of a reliable node only because the context has expired.
LEMMA GiveUpStep ==
    ASSUME LInv, NEW n \in Node, GiveUp(n)
    PROVE  LInv'
<1>1. /\ call.pc = "loop" /\ n \in asked /\ RecordFailure(n)
      /\ n \notin Reliable \/ ctxDone
      /\ asked' = asked \ {n} /\ answer' = [answer EXCEPT ![n] = None]
      /\ UNCHANGED <<call, ctxDone, round, candidates, queried, tokens, allPeers, prevClosest,
                     announced, wire, store>>
  BY DEF GiveUp, local
<1>2. CallTypeOK
  BY DEF LInv
<1>3. CallTypeOK'
  <2>1. answer' \in [Node -> Answer \cup {None}] /\ asked' \subseteq queried'
    BY <1>1, <1>2 DEF CallTypeOK
  <2> QED
    BY <1>1, <1>2, <2>1 DEF CallTypeOK
<1>4. \A m \in Node : answer'[m] = IF m = n THEN None ELSE answer[m]
  BY <1>1, <1>2 DEF CallTypeOK
<1>5. Quiet' /\ Asking'
  BY <1>1, <1>4 DEF LInv, Quiet, Asking, Candidates
<1>6. Counted'
  <2>1. queried \ asked \in SUBSET (queried' \ asked') /\ queried' \ asked' \in SUBSET Node
    BY <1>1, <1>2 DEF CallTypeOK
  <2>2. PICK c, d : c = queried \ asked /\ d = queried' \ asked'
    OBVIOUS
  <2>3. Cardinality(c) \in Nat /\ Cardinality(d) \in Nat /\ Cardinality(c) <= Cardinality(d)
    <3>1. c \in SUBSET d /\ d \in SUBSET Node /\ c \in SUBSET Node
      BY <2>1, <2>2
    <3> QED
      BY <3>1, NodeSets, FS_Subset
  <2>4. \A m \in Node : candidates[m] \in Nat /\ candidates[m] <= 1 + Cardinality(c)
    <3>1. \A m \in Node : candidates[m] \in Nat
      BY <1>2 DEF CallTypeOK
    <3>2. \A m \in Node : candidates[m] <= 1 + Cardinality(queried \ asked)
      BY <1>1 DEF LInv, Counted
    <3>3. Cardinality(c) = Cardinality(queried \ asked)
      BY <2>2, Zenon
    <3> QED
      BY <3>1, <3>2, <3>3
  <2>5. \A m \in Node : candidates'[m] <= 1 + Cardinality(d)
    BY <1>1, <2>3, <2>4
  <2> QED
    BY <2>2, <2>5 DEF Counted
<1>7. Answered'
  BY <1>1, <1>4 DEF LInv, Answered, Live, Names
<1>8. Explored'
  <2> SUFFICES ASSUME call.op = "get", ~ctxDone, allPeers = {},
                      NEW m \in (queried' \ asked') \cap Reliable
               PROVE  Live(m) = {} /\ (m # Self => Names(m) \subseteq Candidates)
    BY <1>1 DEF Explored, Live, Names, Candidates
  <2>1. m \in (queried \ asked) \cap Reliable
    BY <1>1
  <2> QED
    BY <2>1 DEF LInv, Explored
<1>9. TableIn(NodeEntry)'
  BY <1>1, TableStep DEF LInv
<1> QED
  BY <1>3, <1>5, <1>6, <1>7, <1>8, <1>9 DEF LInv

-----------------------------------------------------------------------------
(* The steps of Announce, of the tokens and of the peer stores *)

\* An announcement goes to a candidate that has given a token.
LEMMA PlaceStep ==
    ASSUME LInv, NEW n \in ToAnnounce, call.pc = "place", announced < K,
           candidates' = [candidates EXCEPT ![n] = @ - 1],
           wire' = wire \cup {[to |-> n, token |-> tokens[n]]},
           asked' = {n}, announced' = announced + 1, call' = [call EXCEPT !.pc = "placing"],
           UNCHANGED <<table, ctxDone, round, queried, tokens, allPeers, prevClosest, answer, store>>
    PROVE  LInv'
<1>1. CallTypeOK
  BY DEF LInv
<1>2. n \in Node /\ candidates[n] > 0 /\ tokens[n] # None
  BY DEF ToAnnounce, Nearest, Candidates
<1>3. n \in queried /\ tokens[n] \in Token
  BY <1>1, <1>2 DEF LInv, Asking, CallTypeOK
<1>4. call'.pc = "placing" /\ call'.op = "announce"
  BY <1>1 DEF LInv, Asking, CallTypeOK
<1>5. CallTypeOK'
  <2>1. candidates' \in [Node -> 0 .. Cardinality(Node) + 1]
    <3>1. Cardinality(Node) \in Nat
      BY NodeSets
    <3>2. candidates[n] - 1 \in 0 .. Cardinality(Node) + 1
      BY <1>1, <1>2, <3>1 DEF CallTypeOK
    <3> QED
      BY <1>1, <3>2 DEF CallTypeOK
  <2>2. announced' \in 0 .. K
    BY <1>1, RoutingTableAssumption DEF CallTypeOK
  <2>3. wire' \subseteq [to : Node, token : Token] /\ asked' \subseteq queried'
    BY <1>1, <1>2, <1>3 DEF CallTypeOK
  <2>4. call' \in [op : {"none", "find", "get", "announce"}, target : ID,
                   pc : {"idle", "loop", "place", "placing"}]
    BY <1>1 DEF CallTypeOK
  <2> QED
    BY <1>1, <2>1, <2>2, <2>3, <2>4 DEF CallTypeOK
<1>6. announced' > 0
  BY <1>1 DEF CallTypeOK
<1>7. Quiet'
  BY <1>4 DEF LInv, Quiet
<1>8. Asking'
  BY <1>4, <1>6 DEF LInv, Asking
<1>9. Counted' /\ Answered' /\ Explored'
  BY <1>4 DEF Counted, Answered, Explored
<1> QED
  BY <1>5, <1>7, <1>8, <1>9, TableSame DEF LInv

LEMMA PlacedStep ==
    ASSUME LInv, Placed
    PROVE  LInv'
<1>1. /\ call.pc = "placing" /\ call' = [call EXCEPT !.pc = "place"] /\ asked' = {}
      /\ UNCHANGED <<table, ctxDone, round, candidates, queried, tokens, allPeers, prevClosest,
                     announced, answer, wire, store>>
  BY DEF Placed
<1>2. CallTypeOK
  BY DEF LInv
<1>3. call'.pc = "place" /\ call'.op = "announce"
  BY <1>1, <1>2 DEF LInv, Asking, CallTypeOK
<1>4. CallTypeOK'
  BY <1>1, <1>2 DEF CallTypeOK
<1>5. Quiet'
  BY <1>1, <1>3 DEF LInv, Quiet
<1>6. Asking'
  BY <1>1, <1>3 DEF LInv, Asking, Candidates
<1>7. Counted' /\ Answered' /\ Explored'
  BY <1>3 DEF Counted, Answered, Explored
<1> QED
  BY <1>1, <1>4, <1>5, <1>6, <1>7, TableSame DEF LInv

\* A token that is held ages by one; nothing else changes.
LEMMA RotateAges ==
    ASSUME CallTypeOK, NEW n \in Node, Rotate(n)
    PROVE  /\ tokens' \in [Node -> Token \cup {None}]
           /\ \A m \in Node : tokens'[m] # None <=> tokens[m] # None
           /\ answer' \in [Node -> Answer \cup {None}]
           /\ \A m \in Node : answer'[m] # None => /\ answer[m] # None
                                                   /\ answer'[m].peers = answer[m].peers
                                                   /\ answer'[m].nodes = answer[m].nodes
           /\ wire' \subseteq [to : Node, token : Token]
           /\ wire = {} => wire' = {}
           /\ \A m \in Node : (\E d \in wire : d.to = m) => \E d \in wire' : d.to = m
<1>1. \A t \in Held(n) : t < MaxRotations
  BY DEF Rotate
<1>2. \A t \in Held(n) : t \in Token /\ t + 1 \in Token
  BY <1>1, DHTLookupAssumption DEF Held, Token
<1>3. None \notin Token
  BY DHTLookupAssumption DEF Token
<1>4. /\ tokens' = [tokens EXCEPT ![n] = Aged(tokens[n])]
      /\ answer' = [answer EXCEPT ![n] = IF answer[n] = None THEN None
                                         ELSE [answer[n] EXCEPT !.token = Aged(answer[n].token)]]
      /\ wire' = {IF d.to = n THEN [d EXCEPT !.token = d.token + 1] ELSE d : d \in wire}
  <2>1. tokens' = [tokens EXCEPT ![n] = Aged(tokens[n])]
    BY DEF Rotate
  <2>2. answer' = [answer EXCEPT ![n] = IF answer[n] = None THEN None
                                        ELSE [answer[n] EXCEPT !.token = Aged(answer[n].token)]]
    BY DEF Rotate
  <2>3. wire' = {IF d.to = n THEN [d EXCEPT !.token = d.token + 1] ELSE d : d \in wire}
    BY DEF Rotate
  <2> QED
    BY <2>1, <2>2, <2>3
<1>5. /\ tokens' \in [Node -> Token \cup {None}]
      /\ \A m \in Node : tokens'[m] # None <=> tokens[m] # None
  <2>1. CASE tokens[n] = None
    BY <1>4, <2>1 DEF CallTypeOK, Aged
  <2>2. CASE tokens[n] # None
    <3>1. tokens[n] \in Held(n)
      BY <2>2 DEF CallTypeOK, Held
    <3>2. Aged(tokens[n]) \in Token /\ Aged(tokens[n]) # None
      BY <1>2, <1>3, <2>2, <3>1 DEF Aged
    <3> QED
      BY <1>4, <2>2, <3>2 DEF CallTypeOK
  <2> QED
    BY <2>1, <2>2
<1>6. /\ answer' \in [Node -> Answer \cup {None}]
      /\ \A m \in Node : answer'[m] # None => /\ answer[m] # None
                                              /\ answer'[m].peers = answer[m].peers
                                              /\ answer'[m].nodes = answer[m].nodes
  <2>1. CASE answer[n] = None
    BY <1>4, <2>1 DEF CallTypeOK
  <2>2. CASE answer[n] # None
    <3>1. answer[n] \in Answer
      BY <2>2 DEF CallTypeOK
    <3>2. Aged(answer[n].token) \in Token \cup {None}
      <4>1. CASE answer[n].token = None
        BY <4>1 DEF Aged
      <4>2. CASE answer[n].token # None
        <5>1. answer[n].token \in Held(n)
          BY <2>2, <3>1, <4>2 DEF Held, Answer
        <5> QED
          BY <1>2, <4>2, <5>1 DEF Aged
      <4> QED
        BY <4>1, <4>2
    <3>3. PICK a : a = [answer[n] EXCEPT !.token = Aged(answer[n].token)]
      OBVIOUS
    <3>4. a \in Answer /\ a.peers = answer[n].peers /\ a.nodes = answer[n].nodes
      BY <3>1, <3>2, <3>3 DEF Answer
    <3>5. answer' = [answer EXCEPT ![n] = a]
      BY <1>4, <2>2, <3>3
    <3> QED
      BY <2>2, <3>4, <3>5 DEF CallTypeOK
  <2> QED
    BY <2>1, <2>2
<1>7. /\ wire' \subseteq [to : Node, token : Token]
      /\ \A d \in wire : \E e \in wire' : e.to = d.to
  <2>1. ASSUME NEW d \in wire
        PROVE  /\ (IF d.to = n THEN [d EXCEPT !.token = d.token + 1] ELSE d)
                     \in [to : Node, token : Token]
               /\ (IF d.to = n THEN [d EXCEPT !.token = d.token + 1] ELSE d).to = d.to
    <3>1. d \in [to : Node, token : Token] /\ d = [to |-> d.to, token |-> d.token]
      BY DEF CallTypeOK
    <3>2. CASE d.to = n
      <4>1. d.token \in Held(n)
        BY <3>1, <3>2 DEF Held
      <4>2. d.token + 1 \in Token
        BY <1>2, <4>1
      <4> QED
        BY <3>1, <3>2, <4>2
    <3>3. CASE d.to # n
      BY <3>1, <3>3
    <3> QED
      BY <3>2, <3>3
  <2>2. \A e \in wire' : \E d \in wire :
            e = IF d.to = n THEN [d EXCEPT !.token = d.token + 1] ELSE d
    BY <1>4
  <2>3. \A d \in wire : (IF d.to = n THEN [d EXCEPT !.token = d.token + 1] ELSE d) \in wire'
    BY <1>4
  <2>4. \A e \in wire' : e \in [to : Node, token : Token]
    BY <2>1, <2>2
  <2>5. \A d \in wire : \E e \in wire' : e.to = d.to
    BY <2>1, <2>3
  <2> QED
    BY <2>4, <2>5
<1>8. wire = {} => wire' = {}
  BY <1>4
<1> QED
  BY <1>5, <1>6, <1>7, <1>8

LEMMA RotateStep ==
    ASSUME LInv, NEW n \in Node, Rotate(n)
    PROVE  LInv'
<1>1. UNCHANGED <<table, call, ctxDone, round, candidates, queried, allPeers, prevClosest,
                  announced, asked, store>>
  BY DEF Rotate
<1>2. CallTypeOK
  BY DEF LInv
<1>3. /\ tokens' \in [Node -> Token \cup {None}]
      /\ \A m \in Node : tokens'[m] # None <=> tokens[m] # None
      /\ answer' \in [Node -> Answer \cup {None}]
      /\ \A m \in Node : answer'[m] # None => /\ answer[m] # None
                                              /\ answer'[m].peers = answer[m].peers
                                              /\ answer'[m].nodes = answer[m].nodes
      /\ wire' \subseteq [to : Node, token : Token]
      /\ wire = {} => wire' = {}
  BY <1>2, RotateAges
<1>4. CallTypeOK'
  BY <1>1, <1>2, <1>3 DEF CallTypeOK
<1>5. Quiet'
  BY <1>1, <1>3 DEF LInv, Quiet
<1>6. Asking'
  BY <1>1, <1>3 DEF LInv, Asking, Candidates
<1>7. Counted' /\ Explored'
  BY <1>1 DEF LInv, Counted, Explored, Live, Names, Candidates
<1>8. Answered'
  BY <1>1, <1>3 DEF LInv, Answered, Live, Names
<1> QED
  BY <1>1, <1>4, <1>5, <1>6, <1>7, <1>8, TableSame DEF LInv

\* A change of the peer stores or of the announcements on their way.
LEMMA StoreStep ==
    ASSUME LInv, UNCHANGED <<table, local, asked, answer>>,
           wire' \subseteq wire, store' \in [Node -> [Peer -> EntryState]],
           wire = {} => \A n \in Node : Live(n)' \subseteq Live(n)
    PROVE  LInv'
<1> USE DEF local
<1>1. CallTypeOK'
  BY DEF LInv, CallTypeOK
<1>2. Quiet' /\ Asking' /\ Counted'
  BY DEF LInv, Quiet, Asking, Counted, Candidates
<1>3. call.op = "get" => \A n \in Node : Live(n)' \subseteq Live(n)
  BY DEF LInv, Asking, CallTypeOK
<1>4. Answered'
  <2> SUFFICES ASSUME call.op = "get", NEW n \in Node, answer[n] # None, answer[n].peers = {}
               PROVE  Live(n)' = {} /\ (n # Self => answer[n].nodes = Names(n))
    BY DEF Answered, Names
  <2>1. Live(n) = {} /\ (n # Self => answer[n].nodes = Names(n))
    BY DEF LInv, Answered
  <2> QED
    BY <1>3, <2>1
<1>5. Explored'
  <2> SUFFICES ASSUME call.op = "get", ~ctxDone, allPeers = {},
                      NEW n \in (queried \ asked) \cap Reliable
               PROVE  Live(n)' = {} /\ (n # Self => Names(n) \subseteq Candidates)
    BY DEF Explored, Names, Candidates
  <2>1. Live(n) = {} /\ (n # Self => Names(n) \subseteq Candidates)
    BY DEF LInv, Explored
  <2>2. n \in Node
    BY DEF LInv, CallTypeOK
  <2> QED
    BY <1>3, <2>1, <2>2
<1> QED
  BY <1>1, <1>2, <1>4, <1>5, TableSame DEF LInv

LEMMA StoreSteps ==
    ASSUME LInv,
           \/ \E n \in Node, p \in Peer : AgeEntry(n, p)
           \/ \E d \in wire : HandleAnnouncePeer(d) \/ Lose(d)
    PROVE  LInv'
<1>1. store \in [Node -> [Peer -> EntryState]] /\ wire \subseteq [to : Node, token : Token]
  BY DEF LInv, CallTypeOK
<1>2. ASSUME NEW n \in Node, NEW p \in Peer, AgeEntry(n, p) PROVE LInv'
  <2>1. /\ UNCHANGED <<table, local, asked, answer, wire>>
        /\ store' = [store EXCEPT ![n][p] = "absent"]
    BY <1>2 DEF AgeEntry, net
  <2>2. store' \in [Node -> [Peer -> EntryState]]
    BY <1>1, <2>1 DEF EntryState
  <2>3. \A m \in Node, q \in Peer : store'[m][q] \in {store[m][q], "absent"}
    BY <1>1, <2>1
  <2>4. \A m \in Node : Live(m)' \subseteq Live(m)
    BY <2>3 DEF Live
  <2> QED
    BY <2>1, <2>2, <2>4, StoreStep
<1>3. ASSUME NEW d \in wire, HandleAnnouncePeer(d) PROVE LInv'
  <2>1. UNCHANGED <<table, local, asked, answer>> /\ wire' \subseteq wire
    BY <1>3 DEF HandleAnnouncePeer
  <2>2. store' = store \/ store' = [store EXCEPT ![d.to]["us"] = "new"]
    BY <1>3 DEF HandleAnnouncePeer, Add
  <2>3. store' \in [Node -> [Peer -> EntryState]]
    BY <1>1, <2>2 DEF EntryState, Peer
  <2>4. wire # {}
    OBVIOUS
  <2> QED
    BY <2>1, <2>3, <2>4, StoreStep
<1>4. ASSUME NEW d \in wire, Lose(d) PROVE LInv'
  <2>1. UNCHANGED <<table, local, asked, answer, store>> /\ wire' \subseteq wire /\ wire # {}
    BY <1>4 DEF Lose
  <2> QED
    BY <1>1, <2>1, StoreStep
<1> QED
  BY <1>2, <1>3, <1>4

-----------------------------------------------------------------------------
(* The invariant, and what follows from it *)

LEMMA LInvNext == LInv /\ [Next]_vars => LInv'
<1> SUFFICES ASSUME LInv, [Next]_vars PROVE LInv'
  OBVIOUS
<1>1. CASE Lookup
  <2>1. CASE Place
    BY <2>1, PlaceStep DEF Place
  <2> QED
    BY <1>1, <2>1, NextRoundStep, ReturnStep, BeginAnnounceStep, PlacedStep DEF Lookup
<1>2. ASSUME NEW n \in Node,
             HandleLookup(n) \/ Receive(n) \/ GiveUp(n) \/ Rotate(n) \/ QueriedBy(n)
      PROVE  LInv'
  BY <1>2, HandleLookupStep, ReceiveStep, GiveUpStep, RotateStep, QueriedByStep
<1>3. CASE UNCHANGED vars
  <2>1. UNCHANGED <<table, local, asked, answer, wire, store>>
    BY <1>3 DEF vars, net
  <2>2. store \in [Node -> [Peer -> EntryState]]
    BY DEF LInv, CallTypeOK
  <2>3. \A n \in Node : Live(n)' \subseteq Live(n)
    BY <2>1 DEF Live
  <2> QED
    BY <2>1, <2>2, <2>3, StoreStep
<1> QED
  BY <1>1, <1>2, <1>3, StartStep, CtxDoneStep, StoreSteps DEF Next

LEMMA LInvAlways == Spec => []LInv
BY LInvInit, LInvNext, PTL DEF Spec

\* A call keeps to its bounds: rounds, announcements, candidates, each node asked
\* once, whatever is lost and whenever the context expires.
THEOREM TypeTheorem == Spec => []TypeOK
BY LInvType, LInvAlways, PTL

\* A GetPeers that returns empty-handed, in time, has asked every reliable node
\* that it could have learned of, in any network (SearchFinds).
THEOREM SearchFindsTheorem == Spec => []SearchFinds
<1>1. ASSUME LInv PROVE SearchFinds
  <2> SUFFICES ASSUME call.pc = "loop", asked = {}, Stops, call.op = "get", allPeers = {},
                      ~ctxDone, round = MaxRounds => ToQuery = {}, NEW n \in Reachable
               PROVE  Live(n) = {}
    BY DEF SearchFinds
  <2> DEFINE s == Candidates \cap Reliable
  <2>1. ToQuery = {}
    BY DEF Stops
  <2>2. Candidates \subseteq queried
    <3>1. Candidates \ queried \in SUBSET Node
      BY DEF Candidates
    <3>2. PICK c : c = Candidates \ queried
      OBVIOUS
    <3>3. c \in SUBSET ID /\ IsFiniteSet(c) /\ call.target \in ID /\ Alpha \in Nat \ {0}
      BY <1>1, <3>1, <3>2, NodeSets, DHTLookupAssumption DEF LInv, CallTypeOK
    <3>4. Nearest(call.target, c, Alpha) = {}
      BY <2>1, <3>2 DEF ToQuery
    <3>5. c = {}
      BY <3>3, <3>4, NearestSome
    <3> QED
      BY <3>2, <3>5
  <2>3. \A m \in s : Live(m) = {} /\ (m # Self => Names(m) \subseteq Candidates)
    BY <1>1, <2>2 DEF LInv, Explored
  <2>4. \A m \in s \ {Self} : ClosestOf(m, call.target) \cap Reliable \subseteq s
    <3>1. ASSUME NEW m \in s \ {Self} PROVE ClosestOf(m, call.target) \subseteq Candidates
      <4>1. m \in Node \ {Self}
        BY DEF Candidates
      <4> QED
        BY <2>3, <3>1, <4>1, ClosestKnown
    <3> QED
      BY <3>1
  <2>5. s \in SUBSET Node /\ Candidates \cap Reliable \subseteq s
    BY DEF Candidates
  <2>6. n \in s
    <3> HIDE DEF s
    <3> QED
      BY <2>4, <2>5 DEF Reachable
  <2> QED
    BY <2>3, <2>6
<1> QED
  BY <1>1, LInvAlways, PTL

-----------------------------------------------------------------------------
(* Announcements, when no secret is replaced twice while a token is held *)

\* The first announcement goes to the nearest of the nodes that gave a token.
LEMMA PlacingPlace ==
    ASSUME LInv, Placing, NEW n \in ToAnnounce, call.pc = "place",
           wire' = wire \cup {[to |-> n, token |-> tokens[n]]},
           announced' = announced + 1, call' = [call EXCEPT !.pc = "placing"],
           UNCHANGED <<tokens, store>>
    PROVE  Placing'
<1>1. announced \in Nat /\ call.target \in ID /\ call'.target = call.target
  BY DEF LInv, CallTypeOK
<1>2. Givers' = Givers
  BY DEF Givers
<1>3. \A m \in Node : Announced(m) => Announced(m)'
  BY DEF Announced
<1>4. CASE announced > 0
  BY <1>1, <1>2, <1>3, <1>4 DEF Placing, Nearest, Givers
<1>5. CASE announced = 0
  <2>1. {m \in Candidates : tokens[m] # None} = Givers
    BY <1>5 DEF LInv, Asking, Givers, Candidates
  <2>2. PICK g : g = Givers
    OBVIOUS
  <2>3. g \in SUBSET ID /\ IsFiniteSet(g)
    BY <2>2, NodeSets DEF Givers
  <2>4. n \in Nearest(call.target, g, 1)
    BY <2>1, <2>2 DEF ToAnnounce
  <2>5. \A m \in Nearest(call.target, g, 1) : m = n
    BY <1>1, <2>3, <2>4, NearestUnique
  <2>6. store'[n]["us"] = "new" \/ \E d \in wire' : d.to = n
    <3>1. PICK d : d = [to |-> n, token |-> tokens[n]]
      OBVIOUS
    <3>2. d.to = n /\ d \in wire'
      BY <3>1
    <3> QED
      BY <3>2
  <2>7. Announced(n)'
    BY <2>6 DEF Announced
  <2>8. Nearest(call.target, Givers, 1)' = Nearest(call.target, g, 1)
    BY <1>1, <1>2, <2>2 DEF Nearest, Closer
  <2> QED
    BY <2>5, <2>7, <2>8 DEF Placing
<1> QED
  BY <1>1, <1>4, <1>5

\* Nothing else changes which nodes gave a token, or takes back what was sent.
LEMMA PlacingOther ==
    ASSUME Placing, call'.pc \in {"place", "placing"} => call.pc \in {"place", "placing"},
           call'.target = call.target, announced' = announced, Givers' = Givers,
           \A n \in Node \cap Reliable : Announced(n) => Announced(n)'
    PROVE  Placing'
BY DEF Placing, Nearest, Givers

LEMMA PlacingNext == MaxRotations = 1 /\ LInv /\ Placing /\ [Next]_vars => Placing'
<1> SUFFICES ASSUME MaxRotations = 1, LInv, Placing, [Next]_vars PROVE Placing'
  OBVIOUS
<1>1. CallTypeOK
  BY DEF LInv
<1>2. CASE StartFind \/ GetPeers \/ Announce
  <2>1. call'.pc = "loop"
    BY <1>2 DEF StartFind, GetPeers, Announce, Start, Locals
  <2> QED
    BY <2>1 DEF Placing
<1>3. CASE EndLookup \/ EndAnnounce
  <2>1. call'.pc = "idle"
    BY <1>3 DEF EndLookup, EndAnnounce, Return, Locals, NoCall
  <2> QED
    BY <2>1 DEF Placing
<1>4. CASE Place
  BY <1>4, PlacingPlace DEF Place
<1>5. CASE BeginAnnounce
  <2>1. announced' = 0
    BY <1>5 DEF BeginAnnounce, LInv, Asking
  <2> QED
    BY <2>1 DEF Placing
<1>6. CASE \/ CtxDone \/ NextRound \/ Placed \/ UNCHANGED vars
           \/ \E n \in Node : HandleLookup(n) \/ GiveUp(n) \/ QueriedBy(n)
  <2>1. /\ UNCHANGED <<tokens, wire, store, announced>>
        /\ call' = call \/ (call.pc = "placing" /\ call' = [call EXCEPT !.pc = "place"])
    BY <1>6 DEF CtxDone, NextRound, Placed, HandleLookup, GiveUp, QueriedBy, vars, local, net
  <2>2. Givers' = Givers /\ \A n \in Node : Announced(n) => Announced(n)'
    BY <2>1 DEF Givers, Announced
  <2>3. call'.target = call.target
    BY <1>1, <2>1 DEF CallTypeOK
  <2>4. call'.pc \in {"place", "placing"} => call.pc \in {"place", "placing"}
    BY <2>1
  <2> QED
    BY <2>1, <2>2, <2>3, <2>4, PlacingOther
<1>7. ASSUME NEW n \in Node, Receive(n) PROVE Placing'
  <2>1. call'.pc = "loop"
    BY <1>7 DEF Receive, LInv, Quiet
  <2> QED
    BY <2>1 DEF Placing
<1>8. ASSUME NEW n \in Node, Rotate(n) PROVE Placing'
  <2>1. UNCHANGED <<call, announced, store>>
    BY <1>8 DEF Rotate
  <2>2. /\ \A m \in Node : tokens'[m] # None <=> tokens[m] # None
        /\ \A m \in Node : (\E d \in wire : d.to = m) => \E d \in wire' : d.to = m
    BY <1>1, <1>8, RotateAges
  <2>3. Givers' = Givers /\ \A m \in Node : Announced(m) => Announced(m)'
    BY <2>1, <2>2 DEF Givers, Announced
  <2> QED
    BY <2>1, <2>3, PlacingOther
<1>9. ASSUME NEW n \in Node, NEW p \in Peer, AgeEntry(n, p) PROVE Placing'
  <2>1. /\ UNCHANGED <<call, announced, tokens, wire>>
        /\ store[n][p] = "live" /\ store' = [store EXCEPT ![n][p] = "absent"]
    BY <1>9 DEF AgeEntry, local, net
  <2>2. \A m \in Node : store[m]["us"] = "new" => store'[m]["us"] = "new"
    BY <1>1, <2>1 DEF CallTypeOK, Peer
  <2>3. Givers' = Givers /\ \A m \in Node : Announced(m) => Announced(m)'
    BY <2>1, <2>2 DEF Givers, Announced
  <2> QED
    BY <2>1, <2>3, PlacingOther
<1>10. ASSUME NEW d \in wire, HandleAnnouncePeer(d) PROVE Placing'
  <2>1. /\ UNCHANGED <<call, announced, tokens>> /\ wire' = wire \ {d}
        /\ d.to \in Node /\ d.token \in 0 .. 1
    BY <1>1, <1>10 DEF HandleAnnouncePeer, local, CallTypeOK, Token
  <2>2. store' = [store EXCEPT ![d.to]["us"] = "new"]
    BY <1>10, <2>1 DEF HandleAnnouncePeer, Validate, Add
  <2>3. \A m \in Node : store'[m]["us"] = IF m = d.to THEN "new" ELSE store[m]["us"]
    BY <1>1, <2>1, <2>2 DEF CallTypeOK, Peer
  <2>4. Givers' = Givers /\ \A m \in Node : Announced(m) => Announced(m)'
    BY <2>1, <2>3 DEF Givers, Announced
  <2> QED
    BY <2>1, <2>4, PlacingOther
<1>11. ASSUME NEW d \in wire, Lose(d) PROVE Placing'
  <2>1. /\ UNCHANGED <<call, announced, tokens, store>> /\ wire' = wire \ {d}
        /\ d.to \notin Reliable
    BY <1>11 DEF Lose, local
  <2>2. Givers' = Givers /\ \A m \in Node \cap Reliable : Announced(m) => Announced(m)'
    BY <2>1 DEF Givers, Announced
  <2> QED
    BY <2>1, <2>2, PlacingOther
<1> QED
  BY <1>2, <1>3, <1>4, <1>5, <1>6, <1>7, <1>8, <1>9, <1>10, <1>11 DEF Next, Lookup

\* No announce_peer of the client is refused, if its token outlives at most one
\* change of the secret: Validate knows the current secret and the previous one.
THEOREM NeverRefusedTheorem == MaxRotations = 1 => (Spec => NeverRefused)
<1> SUFFICES ASSUME MaxRotations = 1 PROVE Spec => NeverRefused
  OBVIOUS
<1>1. ASSUME LInv, NEW d \in wire, HandleAnnouncePeer(d)
      PROVE  store'[d.to]["us"] = "new"
  <2>1. d.to \in Node /\ d.token \in 0 .. 1 /\ store \in [Node -> [Peer -> EntryState]]
    BY <1>1 DEF LInv, CallTypeOK, Token
  <2>2. store' = [store EXCEPT ![d.to]["us"] = "new"]
    BY <1>1, <2>1 DEF HandleAnnouncePeer, Validate, Add
  <2> QED
    BY <2>1, <2>2 DEF Peer
<1>2. LInv => [\A d \in wire : HandleAnnouncePeer(d) => store'[d.to]["us"] = "new"]_vars
  BY <1>1
<1> QED
  BY <1>2, LInvAlways, PTL DEF NeverRefused

\* Announce leaves the peer with the nearest node that gave it a token, in any
\* network, also when its context has expired (NearestStores).
THEOREM NearestStoresTheorem == MaxRotations = 1 => (Spec => []NearestStores)
<1> SUFFICES ASSUME MaxRotations = 1 PROVE Spec => []NearestStores
  OBVIOUS
<1>1. Init => Placing
  BY DEF Init, NoCall, Placing
<1>2. LInv /\ Placing /\ [Next]_vars => Placing'
  BY PlacingNext
<1>3. ASSUME LInv, Placing PROVE NearestStores
  <2> SUFFICES ASSUME call.pc = "place", announced = K \/ ToAnnounce = {}
               PROVE  \A n \in Nearest(call.target, Givers, 1) \cap Reliable : Announced(n)
    BY DEF NearestStores, Givers, Announced
  <2>1. announced \in Nat /\ call.target \in ID /\ K \in Nat \ {0}
    BY <1>3, RoutingTableAssumption DEF LInv, CallTypeOK
  <2>2. CASE announced > 0
    BY <1>3, <2>2 DEF Placing
  <2>3. CASE announced = 0
    <3>1. {m \in Candidates : tokens[m] # None} = Givers
      BY <1>3, <2>3 DEF LInv, Asking, Givers, Candidates
    <3>2. Nearest(call.target, Givers, 1) = {}
      BY <2>1, <2>3, <3>1 DEF ToAnnounce
    <3> QED
      BY <3>2
  <2> QED
    BY <2>1, <2>2, <2>3
<1> QED
  BY <1>1, <1>2, <1>3, LInvAlways, PTL DEF Spec

=============================================================================
