---------------------------- MODULE Transactions ----------------------------
(***************************************************************************)
(* Queries of a DHT node: the TransactionManager and the Server of         *)
(* internal/dht/krpc with sendQuery of internal/dht/dht.go.  Each query is *)
(* a goroutine; the read loop delivers responses, which the network may    *)
(* lose, delay and duplicate.                                              *)
(*                                                                         *)
(* A query is made once, with a transaction ID that may have been used     *)
(* before.  Its channel, of capacity one, is open or closed, and holds at  *)
(* most one message; what would panic in Go leaves it in state "panic".    *)
(***************************************************************************)
EXTENDS Naturals, FiniteSets, TLAPS

CONSTANTS
    Queries,  \* the queries that are made
    TxnIDs,   \* the two-byte transaction IDs
    None      \* no query, no ID, nil

\* Add does not return while all IDs are pending: there are more IDs than
\* queries at a time.
ASSUME TransactionsAssumption ==
    /\ IsFiniteSet(Queries) /\ IsFiniteSet(TxnIDs)
    /\ Cardinality(Queries) <= Cardinality(TxnIDs)
    /\ None \notin Queries /\ None \notin TxnIDs

VARIABLES
    pc,       \* pc[q]: where sendQuery is
    txn,      \* txn[q]: the transaction ID
    result,   \* result[q]: the query whose response sendQuery returns, or nil
    pending,  \* pending[t]: the query whose channel is registered under t
    chan,     \* chan[q]: the state of the channel
    buf,      \* buf[q]: the message in the channel: the query it responds to
    net,      \* responses on their way: [txn, query]
    socket    \* the socket of the server

vars == <<pc, txn, result, pending, chan, buf, net, socket>>

TypeOK ==
    /\ pc \in [Queries -> {"start", "write", "wait", "cancel", "done"}]
    /\ txn \in [Queries -> TxnIDs \cup {None}]
    /\ result \in [Queries -> Queries \cup {None}]
    /\ pending \in [TxnIDs -> Queries \cup {None}]
    /\ chan \in [Queries -> {"none", "open", "closed", "panic"}]
    /\ buf \in [Queries -> Queries \cup {None}]
    /\ net \subseteq [txn : TxnIDs, query : Queries]
    /\ socket \in {"open", "closed"}

Init ==
    /\ pc = [q \in Queries |-> "start"]
    /\ txn = [q \in Queries |-> None]
    /\ result = [q \in Queries |-> None]
    /\ pending = [t \in TxnIDs |-> None]
    /\ chan = [q \in Queries |-> "none"]
    /\ buf = [q \in Queries |-> None]
    /\ net = {}
    /\ socket = "open"

Goto(q, l) == pc' = [pc EXCEPT ![q] = l]

CloseChan(q) == chan' = [chan EXCEPT ![q] = IF @ = "open" THEN "closed" ELSE "panic"]

-----------------------------------------------------------------------------
(* TransactionManager *)

\* Add draws an ID that is not pending.
Add(q) ==
    /\ pc[q] = "start"
    /\ \E t \in TxnIDs :
          /\ pending[t] = None
          /\ pending' = [pending EXCEPT ![t] = q]
          /\ txn' = [txn EXCEPT ![q] = t]
    /\ chan' = [chan EXCEPT ![q] = "open"]
    /\ Goto(q, "write")
    /\ UNCHANGED <<result, buf, net, socket>>

\* The message is sent on the channel, which is closed and forgotten.
Complete(t, message) ==
    IF pending[t] = None
    THEN UNCHANGED <<pending, chan, buf>>
    ELSE /\ buf' = [buf EXCEPT ![pending[t]] = message]
         /\ CloseChan(pending[t])
         /\ pending' = [pending EXCEPT ![t] = None]

\* The channel registered under t, whoever registered it, is closed.
Cancel(t) ==
    IF pending[t] = None
    THEN UNCHANGED <<pending, chan>>
    ELSE /\ CloseChan(pending[t])
         /\ pending' = [pending EXCEPT ![t] = None]

-----------------------------------------------------------------------------
(* Server.Send, sendQuery and the read loop *)

\* WriteTo: the other node may respond, now or later or never.
Write(q) ==
    /\ pc[q] = "write" /\ socket = "open"
    /\ Goto(q, "wait")
    /\ \/ net' = net \cup {[txn |-> txn[q], query |-> q]}
       \/ UNCHANGED net
    /\ UNCHANGED <<txn, result, pending, chan, buf, socket>>

\* Marshal or WriteTo fails; Send cancels the transaction.
WriteFails(q) ==
    /\ pc[q] = "write"
    /\ Goto(q, "cancel")
    /\ UNCHANGED <<txn, result, pending, chan, buf, net, socket>>

\* The select of sendQuery: the channel, from which nil is read if it is closed
\* without a message.
Receive(q) ==
    /\ pc[q] = "wait"
    /\ chan[q] = "closed"
    /\ result' = [result EXCEPT ![q] = buf[q]]
    /\ Goto(q, "done")
    /\ UNCHANGED <<txn, pending, chan, buf, net, socket>>

\* A mutant of Timeout: the transaction is not cancelled.
MutTimeout(q) ==
    /\ pc[q] = "wait"
    /\ Goto(q, "done")
    /\ UNCHANGED <<txn, result, pending, chan, buf, net, socket>>

\* A mutant of Timeout: only the end of the server ends a query.
MutTimeoutClosed(q) ==
    /\ pc[q] = "wait" /\ socket = "closed"
    /\ Goto(q, "cancel")
    /\ UNCHANGED <<txn, result, pending, chan, buf, net, socket>>

\* A mutant of Timeout: the query closes the channel itself.
MutTimeoutCloses(q) ==
    /\ pc[q] = "wait"
    /\ CloseChan(q)
    /\ Goto(q, "cancel")
    /\ UNCHANGED <<txn, result, pending, buf, net, socket>>

\* The select of sendQuery: queryTimeout, or the end of the context.
Timeout(q) ==
    /\ pc[q] = "wait"
    /\ Goto(q, "cancel")
    /\ UNCHANGED <<txn, result, pending, chan, buf, net, socket>>

\* The transaction is cancelled and the query returns nil.
CancelTxn(q) ==
    /\ pc[q] = "cancel"
    /\ Cancel(txn[q])
    /\ Goto(q, "done")
    /\ UNCHANGED <<txn, result, buf, net, socket>>

\* The read loop gets a response, of which the network may keep a copy.
Deliver(m) ==
    /\ m \in net /\ socket = "open"
    /\ Complete(m.txn, m.query)
    /\ net' \in {net, net \ {m}}
    /\ UNCHANGED <<pc, txn, result, socket>>

\* Close: the read loop ends.
Close ==
    /\ socket = "open"
    /\ socket' = "closed"
    /\ UNCHANGED <<pc, txn, result, pending, chan, buf, net>>

-----------------------------------------------------------------------------

Query(q) == Add(q) \/ Write(q) \/ WriteFails(q) \/ Receive(q) \/ CancelTxn(q)

Next ==
    \/ \E q \in Queries : Query(q) \/ Timeout(q)
    \/ \E m \in net : Deliver(m)
    \/ Close
    \/ (\A q \in Queries : pc[q] = "done") /\ UNCHANGED vars

Spec == Init /\ [][Next]_vars

\* Goroutines run, and the timer of a query that waits fires.
FairSpec ==
    /\ Spec
    /\ \A q \in Queries : WF_vars(Query(q)) /\ WF_vars(Timeout(q))

-----------------------------------------------------------------------------
(* Properties *)

\* No message is sent on a closed channel and no channel is closed twice,
\* however responses, copies of them and timeouts interleave and IDs are reused
\* (Complete, Cancel).
NoPanic == \A q \in Queries : chan[q] # "panic"

\* A query that has returned is not pending: neither the map nor the IDs leak
\* (Send, sendQuery).
NoLeak ==
    \A t \in TxnIDs : pending[t] # None =>
        pc[pending[t]] \in {"write", "wait", "cancel"} /\ txn[pending[t]] = t

\* Every query returns (sendQuery).
QueryEnds == \A q \in Queries : <>(pc[q] = "done")

-----------------------------------------------------------------------------
(* Proofs, for any number of queries and IDs *)

\* The query registered under an ID has drawn this ID, has not returned, and
\* nobody has closed its channel.
Registered ==
    \A t \in TxnIDs : pending[t] # None =>
        /\ txn[pending[t]] = t
        /\ pc[pending[t]] \in {"write", "wait", "cancel"}
        /\ chan[pending[t]] = "open"

\* A query that has started has an ID; one that has not has no channel.
Started ==
    \A q \in Queries : IF pc[q] = "start" THEN chan[q] = "none" ELSE txn[q] \in TxnIDs

IInv == TypeOK /\ NoPanic /\ Registered /\ Started

\* IInv holds initially.
LEMMA IInvInit == Init => IInv
BY TransactionsAssumption DEF Init, IInv, TypeOK, NoPanic, Registered, Started

\* Every step preserves IInv.
LEMMA IInvStep == IInv /\ [Next]_vars => IInv'
<1> SUFFICES ASSUME IInv, [Next]_vars PROVE IInv'
  OBVIOUS
<1> USE TransactionsAssumption DEF IInv, TypeOK, NoPanic, Registered, Started, Goto
<1>1. ASSUME NEW q \in Queries, Add(q) PROVE IInv'
  <2>1. PICK t \in TxnIDs : /\ pending[t] = None
                            /\ pending' = [pending EXCEPT ![t] = q]
                            /\ txn' = [txn EXCEPT ![q] = t]
    BY <1>1 DEF Add
  <2>2. \A u \in TxnIDs : pending[u] # q
    BY <1>1 DEF Add
  <2> QED BY <1>1, <2>1, <2>2 DEF Add
<1>2. ASSUME NEW q \in Queries, Write(q) PROVE IInv'
  BY <1>2 DEF Write
<1>3. ASSUME NEW q \in Queries, WriteFails(q) PROVE IInv'
  BY <1>3 DEF WriteFails
<1>4. ASSUME NEW q \in Queries, Receive(q) PROVE IInv'
  BY <1>4 DEF Receive
<1>5. ASSUME NEW q \in Queries, Timeout(q) PROVE IInv'
  BY <1>5 DEF Timeout
<1>6. ASSUME NEW q \in Queries, CancelTxn(q) PROVE IInv'
  BY <1>6 DEF CancelTxn, Cancel, CloseChan
<1>7. ASSUME NEW m \in net, Deliver(m) PROVE IInv'
  BY <1>7 DEF Deliver, Complete, CloseChan
<1>8. CASE Close
  BY <1>8 DEF Close
<1>9. CASE UNCHANGED vars
  BY <1>9 DEF vars
<1> QED
  BY <1>1, <1>2, <1>3, <1>4, <1>5, <1>6, <1>7, <1>8, <1>9 DEF Next, Query

\* IInv holds in every reachable state.
LEMMA IInvAlways == Spec => []IInv
BY IInvInit, IInvStep, PTL DEF Spec

\* Every variable keeps its type: the map goes from IDs to queries that exist.
THEOREM TypeTheorem == Spec => []TypeOK
BY IInvAlways, PTL DEF IInv

\* No interleaving of responses, copies of them, timeouts and reused IDs sends on
\* a closed channel or closes one twice (Complete, Cancel).
THEOREM NoPanicTheorem == Spec => []NoPanic
BY IInvAlways, PTL DEF IInv

\* A query that has returned has left the map (Send, sendQuery).
THEOREM NoLeakTheorem == Spec => []NoLeak
<1>1. IInv => NoLeak
  BY DEF IInv, Registered, NoLeak
<1> QED
  BY <1>1, IInvAlways, PTL

=============================================================================
