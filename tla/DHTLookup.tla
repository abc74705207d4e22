----------------------------- MODULE DHTLookup ------------------------------
(***************************************************************************)
(* The lookups of a DHT node (internal/dht/dht.go: GetPeers, Announce and  *)
(* iterativeFindNode) and the nodes it asks, which run the same code: their *)
(* answers (handleFindNode, handleGetPeers, handleAnnouncePeer), their     *)
(* tokens (internal/dht/token) and their peer stores (peerstore.go).       *)
(*                                                                         *)
(* A node is its ID.  The client's routing table is RoutingTable's; what   *)
(* the other nodes know does not change here.  A client makes one call at  *)
(* a time.  Datagrams are lost or late, except those of Reliable nodes; a  *)
(* call's context may expire at any time.                                  *)
(*                                                                         *)
(* A token is the number of times its issuer has replaced its secret since *)
(* the token was made.  A secret is replaced every five minutes, a call    *)
(* ends after at most MaxRounds + K query timeouts of two seconds.         *)
(***************************************************************************)
EXTENDS RoutingTable

CONSTANTS
    Node,          \* the IDs of the nodes, the client's own included
    Known,         \* Known[n]: the IDs in the routing table of n (at first)
    Reliable,      \* the nodes that answer every query in time
    Holders,       \* the nodes that another peer may have announced itself to
    InfoHash,      \* the torrent that is looked for and announced
    FindTargets,   \* the IDs that are looked for to fill the table
    Alpha,         \* concurrent queries of a round
    MaxRounds,     \* rounds of a lookup, 10 in the code
    MaxRotations,  \* bound: changes of a secret while a token is held
    None           \* no token, no answer, no node

ASSUME DHTLookupAssumption ==
    /\ Node \subseteq ID /\ IsFiniteSet(Node) /\ Self \in Node
    /\ Known \in [Node -> SUBSET Node] /\ \A n \in Node : n \notin Known[n]
    /\ \A n \in Node, b \in Bucket : Cardinality({m \in Known[n] : PrefixLen(n, m) = b}) <= K
    /\ Addrs # {}
    /\ Reliable \subseteq Node /\ Holders \subseteq Node
    /\ InfoHash \in ID /\ FindTargets \subseteq ID
    /\ {Alpha, MaxRounds, MaxRotations} \subseteq Nat \ {0}
    /\ None \notin Node /\ None \notin 0 .. MaxRotations

VARIABLES
    call,     \* what the client does: [op, pc, target]
    ctxDone,  \* whether the context of the call has expired
    round, candidates, queried, tokens, allPeers, prevClosest, announced,
              \* the variables of the call
    asked,    \* the nodes whose answer the client waits for
    answer,   \* answer[n]: the answer of n on its way to the client
    wire,     \* announce_peer datagrams on their way: [to, token]
    store     \* store[n][p]: p in the peer store of n

local == <<call, ctxDone, round, candidates, queried, tokens, allPeers, prevClosest, announced>>
net   == <<asked, answer, wire>>
vars  == <<table, local, net, store>>

Peer == {"us", "other"}

Token == 0 .. MaxRotations

Answer == [token : Token \cup {None}, peers : SUBSET Peer, nodes : SUBSET Node]

\* An entry of the peer store was added during this call or is younger than the
\* TTL of 30 minutes.  An older one, which is not handed out, counts as absent.
EntryState == {"absent", "new", "live"}

TypeOK ==
    /\ \A b \in Bucket : Len(table[b]) <= K /\ \A i \in 1 .. Len(table[b]) : table[b][i] \in Entry
    /\ call \in [op : {"none", "find", "get", "announce"}, target : ID,
                 pc : {"idle", "loop", "place", "placing"}]
    /\ ctxDone \in BOOLEAN
    /\ round \in 0 .. MaxRounds /\ announced \in 0 .. K
    /\ candidates \in [Node -> 0 .. Cardinality(Node) + 1]
    /\ asked \subseteq queried /\ queried \subseteq Node
    /\ tokens \in [Node -> Token \cup {None}]
    /\ allPeers \subseteq Peer
    /\ prevClosest \in Node \cup {None}
    /\ answer \in [Node -> Answer \cup {None}]
    /\ wire \subseteq [to : Node, token : Token]
    /\ store \in [Node -> [Peer -> EntryState]]

NoCall == [op |-> "none", target |-> Self, pc |-> "idle"]

FreshEntry(n) == [id |-> n, addr |-> CHOOSE a \in Addrs : TRUE, fresh |-> TRUE,
                compliant |-> FALSE, fail |-> 0]

\* The nodes of bucket b, in any order.
BucketWith(b) ==
    LET ns == {n \in Known[Self] : BucketOf(n) = b}
        s  == CHOOSE s \in [1 .. Cardinality(ns) -> ns] : \A n \in ns : \E i \in DOMAIN s : s[i] = n
    IN [i \in DOMAIN s |-> FreshEntry(s[i])]

\* The bootstrap nodes have filled the table; another peer has announced itself
\* to a node.
Init ==
    /\ table = [b \in Bucket |-> BucketWith(b)]
    /\ call = NoCall
    /\ ctxDone = FALSE
    /\ round = 0 /\ announced = 0
    /\ candidates = [n \in Node |-> 0]
    /\ queried = {} /\ asked = {} /\ allPeers = {} /\ wire = {}
    /\ tokens = [n \in Node |-> None]
    /\ prevClosest = None
    /\ answer = [n \in Node |-> None]
    /\ \E h \in Holders \cup {None} :
          store = [n \in Node |-> [p \in Peer |->
                      IF p = "other" /\ n = h THEN "live" ELSE "absent"]]

-----------------------------------------------------------------------------
(* The peer store and the routing tables *)

\* Get
Live(n) == {p \in Peer : store[n][p] \in {"new", "live"}}

\* Add
Add(n, p) == store' = [store EXCEPT ![n][p] = "new"]

TableOf(n) == IF n = Self THEN {e.id : e \in Entries} ELSE Known[n]

ClosestOf(n, target) == FindClosest(n, TableOf(n), target, K)

\* The entry becomes older than the TTL: Get omits it, Expire removes it.
AgeEntry(n, p) ==
    /\ store[n][p] = "live"
    /\ store' = [store EXCEPT ![n][p] = "absent"]
    /\ UNCHANGED <<table, local, net>>

-----------------------------------------------------------------------------
(* Tokens *)

Held(n) ==
    {t \in Token : \/ t = tokens[n]
                   \/ answer[n] # None /\ t = answer[n].token
                   \/ [to |-> n, token |-> t] \in wire}

\* A mutant of Validate: the previous secret is forgotten.
MutValidate(token) == token = 0

\* The current and the previous secret are accepted.
Validate(token) == token <= 1

Aged(t) == IF t = None THEN None ELSE t + 1

Rotate(n) ==
    /\ Held(n) # {} /\ \A t \in Held(n) : t < MaxRotations
    /\ tokens' = [tokens EXCEPT ![n] = Aged(@)]
    /\ answer' = [answer EXCEPT ![n] = IF @ = None THEN None
                                       ELSE [@ EXCEPT !.token = Aged(answer[n].token)]]
    /\ wire' = {IF d.to = n THEN [d EXCEPT !.token = @ + 1] ELSE d : d \in wire}
    /\ UNCHANGED <<table, call, ctxDone, round, candidates, queried, allPeers, prevClosest,
                   announced, asked, store>>

-----------------------------------------------------------------------------
(* A lookup *)

Idle == call.pc = "idle"

Candidates == {n \in Node : candidates[n] > 0}

\* The variables of a call c at its beginning, with the nodes it begins with.
Locals(c, closest) ==
    /\ call' = c
    /\ candidates' = [n \in Node |-> IF n \in closest THEN 1 ELSE 0]
    /\ ctxDone' = FALSE
    /\ round' = 0 /\ announced' = 0
    /\ queried' = {} /\ allPeers' = {}
    /\ tokens' = [n \in Node |-> None]
    /\ prevClosest' = None

\* With an empty table a call returns at once.
Start(op, target) ==
    /\ Idle /\ wire = {}
    /\ ClosestOf(Self, target) # {}
    /\ Locals([op |-> op, target |-> target, pc |-> "loop"], ClosestOf(Self, target))
    /\ UNCHANGED <<table, net, store>>

\* handleQuery: a node that has left the table asks the client something.
QueriedBy(n) ==
    /\ Idle /\ n \in Known[Self] /\ ~Present(n)
    /\ Insert(FreshEntry(n))
    /\ UNCHANGED <<local, net, store>>

\* What a call has added to a peer store grows old after it.
Return ==
    /\ Locals(NoCall, {})
    /\ store' = [n \in Node |-> [p \in Peer |-> IF store[n][p] = "absent" THEN "absent" ELSE "live"]]
    /\ UNCHANGED <<table, net>>

StartFind == \E t \in FindTargets : Start("find", t)

GetPeers == Start("get", InfoHash)

Announce == Start("announce", InfoHash)

CtxDone ==
    /\ ~Idle /\ ~ctxDone
    /\ ctxDone' = TRUE
    /\ UNCHANGED <<table, call, round, candidates, queried, tokens, allPeers, prevClosest,
                   announced, net, store>>

ToQuery == Nearest(call.target, Candidates \ queried, Alpha)

ClosestCandidate == Nearest(call.target, Candidates, 1)

\* A mutant of Stops: one round too many.
MutStopsLate ==
    \/ round > MaxRounds
    \/ ToQuery = {}
    \/ call.op = "get" /\ allPeers # {}
    \/ call.op = "find" /\ prevClosest \in ClosestCandidate

\* GetPeers stops when a round has found peers, iterativeFindNode when a round
\* has found no closer node.
Stops ==
    \/ round = MaxRounds
    \/ ToQuery = {}
    \/ call.op = "get" /\ allPeers # {}
    \/ call.op = "find" /\ prevClosest \in ClosestCandidate

\* A round ends when all its queries have; the next one asks Alpha more nodes.
NextRound ==
    /\ call.pc = "loop" /\ asked = {}
    /\ ~Stops
    /\ asked' = ToQuery
    /\ queried' = queried \cup ToQuery
    /\ round' = round + 1
    /\ prevClosest' = IF call.op = "find" THEN CHOOSE n \in ClosestCandidate : TRUE
                                          ELSE prevClosest
    /\ UNCHANGED <<table, call, ctxDone, candidates, tokens, allPeers, announced, answer, wire,
                   store>>

EndLookup ==
    /\ call.pc = "loop" /\ asked = {}
    /\ Stops /\ call.op # "announce"
    /\ Return

BeginAnnounce ==
    /\ call.pc = "loop" /\ asked = {}
    /\ Stops /\ call.op = "announce"
    /\ call' = [call EXCEPT !.pc = "place"]
    /\ UNCHANGED <<table, ctxDone, round, candidates, queried, tokens, allPeers, prevClosest,
                   announced, net, store>>

\* handleFindNode and handleGetPeers of n: a token, and peers or else nodes.
HandleLookup(n) ==
    /\ call.pc = "loop" /\ n \in asked /\ answer[n] = None
    /\ LET nodes == ClosestOf(n, call.target) IN
       answer' = [answer EXCEPT ![n] =
          IF call.op = "find"
          THEN [token |-> None, peers |-> {}, nodes |-> nodes]
          ELSE [token |-> 0, peers |-> Live(n), nodes |-> IF Live(n) = {} THEN nodes ELSE {}]]
    /\ UNCHANGED <<table, local, asked, wire, store>>

\* A mutant of Receive: a node is taken for a candidate only if it is closer to
\* the target than the one that names it.
MutReceive(n) ==
    /\ n \in asked /\ answer[n] # None
    /\ RecordSuccess(n)
    /\ tokens' = [tokens EXCEPT ![n] = answer[n].token]
    /\ allPeers' = IF call.op = "get" THEN allPeers \cup answer[n].peers ELSE allPeers
    /\ candidates' = [m \in Node |->
          candidates[m] + IF m \in answer[n].nodes /\ Closer(call.target, m, n) THEN 1 ELSE 0]
    /\ asked' = asked \ {n}
    /\ answer' = [answer EXCEPT ![n] = None]
    /\ UNCHANGED <<call, ctxDone, round, queried, prevClosest, announced, wire, store>>

\* The answer of n arrives.  Announce has no use for peers.
Receive(n) ==
    /\ n \in asked /\ answer[n] # None
    /\ RecordSuccess(n)
    /\ tokens' = [tokens EXCEPT ![n] = answer[n].token]
    /\ allPeers' = IF call.op = "get" THEN allPeers \cup answer[n].peers ELSE allPeers
    /\ candidates' = [m \in Node |->
                         candidates[m] + IF m \in answer[n].nodes THEN 1 ELSE 0]
    /\ asked' = asked \ {n}
    /\ answer' = [answer EXCEPT ![n] = None]
    /\ UNCHANGED <<call, ctxDone, round, queried, prevClosest, announced, wire, store>>

\* A mutant of GiveUp: a query has no timeout of its own.
MutGiveUp(n) ==
    /\ call.pc = "loop" /\ n \in asked
    /\ ctxDone
    /\ RecordFailure(n)
    /\ asked' = asked \ {n}
    /\ answer' = [answer EXCEPT ![n] = None]
    /\ UNCHANGED <<local, wire, store>>

\* No answer in time: the query times out or the context of the call expires.
\* A later answer finds no transaction.
GiveUp(n) ==
    /\ call.pc = "loop" /\ n \in asked
    /\ n \notin Reliable \/ ctxDone
    /\ RecordFailure(n)
    /\ asked' = asked \ {n}
    /\ answer' = [answer EXCEPT ![n] = None]
    /\ UNCHANGED <<local, wire, store>>

-----------------------------------------------------------------------------
(* The announcements of Announce, one after the other *)

\* The next candidate, by distance, that has given a token.
ToAnnounce == Nearest(call.target, {n \in Candidates : tokens[n] # None}, 1)

\* A mutant of Place: nothing is sent once the context has expired.
MutPlace ==
    /\ call.pc = "place" /\ announced < K
    /\ \E n \in ToAnnounce :
          /\ candidates' = [candidates EXCEPT ![n] = @ - 1]
          /\ wire' = IF ctxDone THEN wire ELSE wire \cup {[to |-> n, token |-> tokens[n]]}
          /\ asked' = {n}
    /\ announced' = announced + 1
    /\ call' = [call EXCEPT !.pc = "placing"]
    /\ UNCHANGED <<table, ctxDone, round, queried, tokens, allPeers, prevClosest, answer, store>>

\* sendAnnouncePeer: a candidate that several answers named is sent to again,
\* and counted again.  The datagram leaves also when the context has expired.
Place ==
    /\ call.pc = "place" /\ announced < K
    /\ \E n \in ToAnnounce :
          /\ candidates' = [candidates EXCEPT ![n] = @ - 1]
          /\ wire' = wire \cup {[to |-> n, token |-> tokens[n]]}
          /\ asked' = {n}
    /\ announced' = announced + 1
    /\ call' = [call EXCEPT !.pc = "placing"]
    /\ UNCHANGED <<table, ctxDone, round, queried, tokens, allPeers, prevClosest, answer, store>>

\* The answer has arrived, or will not in time.  It is ignored.
Placed ==
    /\ call.pc = "placing"
    /\ \A n \in asked : n \in Reliable /\ ~ctxDone => \A d \in wire : d.to # n
    /\ call' = [call EXCEPT !.pc = "place"]
    /\ asked' = {}
    /\ UNCHANGED <<table, ctxDone, round, candidates, queried, tokens, allPeers, prevClosest,
                   announced, answer, wire, store>>

EndAnnounce ==
    /\ call.pc = "place"
    /\ announced = K \/ ToAnnounce = {}
    /\ Return

\* handleAnnouncePeer: a wrong token is refused with an error.
HandleAnnouncePeer(d) ==
    /\ d \in wire
    /\ wire' = wire \ {d}
    /\ IF Validate(d.token) THEN Add(d.to, "us") ELSE UNCHANGED store
    /\ UNCHANGED <<table, local, asked, answer>>

Lose(d) ==
    /\ d \in wire /\ d.to \notin Reliable
    /\ wire' = wire \ {d}
    /\ UNCHANGED <<table, local, asked, answer, store>>

-----------------------------------------------------------------------------

Lookup == NextRound \/ EndLookup \/ BeginAnnounce \/ Place \/ Placed \/ EndAnnounce

Next ==
    \/ StartFind \/ GetPeers \/ Announce
    \/ CtxDone
    \/ Lookup
    \/ \E n \in Node : HandleLookup(n) \/ Receive(n) \/ GiveUp(n) \/ Rotate(n) \/ QueriedBy(n)
    \/ \E n \in Node, p \in Peer : AgeEntry(n, p)
    \/ \E d \in wire : HandleAnnouncePeer(d) \/ Lose(d)

Spec == Init /\ [][Next]_vars

\* The client goes on; a query ends by an answer or by its timeout; what is
\* sent to a reliable node is handled.
FairSpec ==
    /\ Spec
    /\ WF_vars(Lookup)
    /\ \A n \in Node : WF_vars(Receive(n) \/ GiveUp(n))
    /\ \A n \in Reliable : WF_vars(HandleLookup(n))
    /\ \A n \in Reliable : WF_vars(\E d \in wire : d.to = n /\ HandleAnnouncePeer(d))

-----------------------------------------------------------------------------
(* Properties *)

\* What a client can learn of: from its candidates, the reliable nodes that
\* reliable nodes name, and so on.  (What its own table has to offer is among
\* the candidates from the start; it may change during the call.)
Reachable ==
    {n \in Node : \A s \in SUBSET Node :
        (/\ Candidates \cap Reliable \subseteq s
         /\ \A m \in s \ {Self} : ClosestOf(m, call.target) \cap Reliable \subseteq s) => n \in s}

\* A GetPeers that returns without peers, although it was neither out of time
\* nor of rounds, has missed none: no reliable node that it could have learned
\* of, by whatever order of answers and timeouts, holds a peer (GetPeers,
\* handleGetPeers, PeerStore.Get).
SearchFinds ==
    (/\ call.pc = "loop" /\ asked = {} /\ Stops /\ call.op = "get" /\ allPeers = {}
     /\ ~ctxDone /\ (round = MaxRounds => ToQuery = {})) =>
        \A n \in Reachable : Live(n) = {}

\* When Announce returns, also if its context has expired, the node closest to
\* the torrent of those that gave it a token has stored the peer or has the
\* datagram before it, unless that node loses datagrams; secrets that change
\* in between do no harm (Announce, handleAnnouncePeer, TokenManager).
NearestStores ==
    call.pc = "place" /\ (announced = K \/ ToAnnounce = {}) =>
        \A n \in Nearest(call.target, {m \in Node : tokens[m] # None}, 1) \cap Reliable :
            store[n]["us"] = "new" \/ \E d \in wire : d.to = n

\* An announce_peer of the client is never refused (TokenManager.Rotate and
\* Validate, Announce).
NeverRefused == [][\A d \in wire : HandleAnnouncePeer(d) => store'[d.to]["us"] = "new"]_vars

\* Every call returns, whoever answers and in whatever order.
CallReturns == ~Idle ~> Idle

=============================================================================
