------------------------------ MODULE DHTTable ------------------------------
(***************************************************************************)
(* Who changes the routing table of a DHT node (internal/dht/dht.go): the  *)
(* read loop, which handles the queries of other nodes; the goroutines of  *)
(* replaceIfDead, which it starts; the maintenance goroutine, which pings  *)
(* stale nodes; bootstrap; and lookups, of which only the effect on the    *)
(* table is kept here.                                                     *)
(*                                                                         *)
(* A query of ours ends with an answer or with nil: after queryTimeout, at *)
(* the end of the caller's context, when it cannot be sent, or when the    *)
(* Cancel of another query with its transaction ID closes its channel.  So *)
(* any query may end with nil, and some addresses never answer.            *)
(***************************************************************************)
EXTENDS RoutingTable, FiniteSets

CONSTANTS
    Nodes,       \* the nodes of the network: [id, addr]
    Valid,       \* the nodes whose ID derives from their address (BEP 42)
    Dead,        \* the addresses that never answer
    BEP42,       \* the mode: "off", "log", "enforce" or "tableOnly"
    Replacers,   \* bound: the goroutines of replaceIfDead at a time
    Free         \* a goroutine that is not running

ASSUME DHTTableAssumption ==
    /\ Nodes \subseteq [id : ID, addr : Addrs]
    /\ Valid \subseteq Nodes
    /\ BEP42 \in {"off", "log", "enforce", "tableOnly"}
    /\ IsFiniteSet(Replacers)
    /\ Free \notin [oldest : Nodes, new : Entry, pc : {"ping", "insert"}]

VARIABLES
    replacer,  \* replacer[g]: the arguments and the place of a replaceIfDead
    sweep      \* the nodes that sweepStaleNodes has yet to ping

tableVars == <<table, replacer, sweep>>

Replacement == [oldest : Nodes, new : Entry, pc : {"ping", "insert"}]

TableTypeOK ==
    /\ table \in [Bucket -> Seq(Entry)]
    /\ replacer \in [Replacers -> Replacement \cup {Free}]
    /\ sweep \subseteq Nodes

InitTable ==
    /\ NewRoutingTable
    /\ replacer = [g \in Replacers |-> Free]
    /\ sweep = {}

Answers(n) == n.addr \notin Dead

NodeOf(e) == [id |-> e.id, addr |-> e.addr]

NewEntry(n, compliant) ==
    [id |-> n.id, addr |-> n.addr, fresh |-> TRUE, compliant |-> compliant, fail |-> 0]

-----------------------------------------------------------------------------

\* A saved node, a bootstrap node or a node that a bootstrap node reports.
BootstrapInsert(n) ==
    /\ Insert(NewEntry(n, FALSE))
    /\ UNCHANGED <<replacer, sweep>>

Compliant(n) == BEP42 = "off" \/ n \in Valid

\* Start replaceIfDead, which returns at once if the oldest node is fresh.
StartReplace(oldest, new) ==
    IF oldest.fresh
    THEN UNCHANGED replacer
    ELSE \E g \in Replacers :
            /\ replacer[g] = Free
            /\ replacer' = [replacer EXCEPT ![g] =
                             [oldest |-> NodeOf(oldest), new |-> new, pc |-> "ping"]]

\* A query of n that passes the rate limiter; what it asks for changes no node.
HandleQuery(n) ==
    /\ BEP42 \in {"enforce", "tableOnly"} => Compliant(n)
    /\ LET new == NewEntry(n, Compliant(n)) IN
       /\ Insert(new)
       /\ IF Rejects(new)
          THEN StartReplace(Head(table[BucketOf(n.id)]), new)
          ELSE UNCHANGED replacer
    /\ UNCHANGED sweep

-----------------------------------------------------------------------------
(* replaceIfDead *)

ReplaceAnswered(g) ==
    /\ replacer[g] # Free /\ replacer[g].pc = "ping"
    /\ Answers(replacer[g].oldest)
    /\ replacer' = [replacer EXCEPT ![g] = Free]
    /\ UNCHANGED <<table, sweep>>

\* sendPing returns nil: Remove, by ID, and in a second critical section Insert.
ReplaceSilent(g) ==
    /\ replacer[g] # Free /\ replacer[g].pc = "ping"
    /\ Remove(replacer[g].oldest.id)
    /\ replacer' = [replacer EXCEPT ![g].pc = "insert"]
    /\ UNCHANGED sweep

ReplaceInsert(g) ==
    /\ replacer[g] # Free /\ replacer[g].pc = "insert"
    /\ Insert(replacer[g].new)
    /\ replacer' = [replacer EXCEPT ![g] = Free]
    /\ UNCHANGED sweep

-----------------------------------------------------------------------------
(* refreshTable and lookups *)

SweepStart ==
    /\ sweep = {} /\ Stale # {}
    /\ sweep' = {NodeOf(e) : e \in Stale}
    /\ UNCHANGED <<table, replacer>>

\* A mutant of SweepSilent: failures are not recorded.
MutSweepSilent(n) ==
    /\ n \in sweep
    /\ sweep' = sweep \ {n}
    /\ UNCHANGED <<table, replacer>>

SweepSilent(n) ==
    /\ n \in sweep
    /\ RecordFailure(n.id)
    /\ sweep' = sweep \ {n}
    /\ UNCHANGED replacer

SweepAnswered(n) ==
    /\ n \in sweep /\ Answers(n)
    /\ IF BEP42 = "tableOnly" /\ n \notin Valid
       THEN Remove(n.id)
       ELSE RecordSuccess(n.id)
    /\ sweep' = sweep \ {n}
    /\ UNCHANGED replacer

\* A lookup has queried n, which it found in the table or was told of, and
\* sendQuery returns nil.
LookupSilent(n) ==
    /\ RecordFailure(n.id)
    /\ UNCHANGED <<replacer, sweep>>

LookupAnswered(n) ==
    /\ Answers(n)
    /\ RecordSuccess(n.id)
    /\ UNCHANGED <<replacer, sweep>>

\* Time passes.
Age(n) ==
    /\ \E e \in Entries : e.id = n.id /\ e.fresh
    /\ GrowsOld(n.id)
    /\ UNCHANGED <<replacer, sweep>>

-----------------------------------------------------------------------------

Replace(g) == ReplaceAnswered(g) \/ ReplaceSilent(g) \/ ReplaceInsert(g)

Sweep == SweepStart \/ \E n \in Nodes : SweepSilent(n) \/ SweepAnswered(n)

NextTable ==
    \/ \E n \in Nodes : \/ BootstrapInsert(n) \/ HandleQuery(n) \/ Age(n)
                        \/ LookupSilent(n) \/ LookupAnswered(n)
    \/ \E g \in Replacers : Replace(g)
    \/ Sweep

TableSpec == InitTable /\ [][NextTable]_tableVars

\* Pings end, time passes, and the refresh runs every fifteen minutes.
FairTableSpec ==
    /\ TableSpec
    /\ \A g \in Replacers : WF_tableVars(Replace(g))
    /\ \A n \in Nodes : WF_tableVars(Age(n))
    /\ WF_tableVars(Sweep)

-----------------------------------------------------------------------------
(* Properties *)

\* Every bucket holds at most K nodes, all of its own distance and no node
\* twice, although nodes are looked up in one critical section and replaced in
\* a later one (Bucket.Insert, replaceIfDead).
TableOK == \A b \in Bucket : BucketOK(table[b], b)

\* Nodes that have one address.
Steady(n) == \A o \in Nodes : o.id = n.id => o = n

\* The node of e is asked and the query ends with nil: the ping of a
\* replaceIfDead that works on it, or one failure too many.
Unanswered(e) ==
    \/ \E g \in Replacers : ReplaceSilent(g) /\ replacer[g].oldest = NodeOf(e)
    \/ /\ e.fail + 1 >= MaxFailures
       /\ SweepSilent(NodeOf(e)) \/ LookupSilent(NodeOf(e))

\* A node with one address that is marked compliant leaves the table only when a
\* query to that very node has ended with nil, whichever node is replaced, swept,
\* looked up, or inserted at the same time, from however old a reference; and
\* but for replaceIfDead not before it has failed MaxFailures times (Bucket.Insert,
\* replaceIfDead, sweepStaleNodes, RecordFailure).
SteadyStay ==
    [][\A e \in Entries :
          Steady(NodeOf(e)) /\ e.compliant /\ ~Unanswered(e) => Present(e.id)']_tableVars

Appears(id) == \E n \in Nodes : n.id = id /\ (HandleQuery(n) \/ BootstrapInsert(n))

\* A node that never answers is evicted in the end and stays away, unless it
\* goes on sending queries or being reported by bootstrap nodes
\* (sweepStaleNodes, RecordFailure).
DeadLeave ==
    \A n \in Nodes :
        (\A o \in Nodes : o.id = n.id => o.addr \in Dead) =>
            (<>[][~Appears(n.id)]_tableVars => <>[]~Present(n.id))

\* "When BEP 42 is off, all nodes have Compliant=false, so this branch never
\* triggers": the query of a new node then evicts no node without a ping
\* (Bucket.Insert, handleQuery).
OffNeverEvicts ==
    [][BEP42 = "off" => \A n \in Nodes : HandleQuery(n) =>
          \A e \in Entries : Present(e.id)']_tableVars

=============================================================================
