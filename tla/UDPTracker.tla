----------------------------- MODULE UDPTracker -----------------------------
(***************************************************************************)
(* A UDP tracker as a client sees it (internal/tracker/udp.go): the        *)
(* connect handshake, requests that are sent again after 15 * 2^n seconds, *)
(* and responses matched by transaction ID.                                *)
(*                                                                         *)
(* One UDPTracker has one socket, one connection ID and one retry counter. *)
(* Its methods take no lock around a call, so several callers use them at  *)
(* once (module TrackerSession).  Datagrams are lost, delayed, and         *)
(* answered once for each copy that arrives.                               *)
(*                                                                         *)
(* All that a transaction ID is used for is to tell whether a response     *)
(* belongs to the request of now: the ID of a message is the caller whose  *)
(* request of now it belongs to, or Old.  Connection IDs are left out.     *)
(* After a reconnect the request goes out with the old one (udp.go:127),   *)
(* and whether the tracker accepts a connection ID is left open.           *)
(***************************************************************************)
EXTENDS Naturals, Sequences

CONSTANTS
    Callers,    \* the goroutines that call the tracker
    MaxN,       \* the last value of n with which a request is sent (8)
    Old,        \* the transaction ID of every request that is no longer waited for
    SocketCap   \* datagrams the socket's receive buffer holds

ASSUME UDPTrackerAssumption ==
    /\ MaxN \in Nat
    /\ SocketCap \in Nat \ {0}
    /\ Old \notin Callers

VARIABLES
    n,        \* conn.n: timeouts since the last datagram received
    expired,  \* connectionExpired: connectedAt is 60 s ago or more
    at,       \* at[c]: where caller c is
    net,      \* requests on their way to the tracker
    socket,   \* responses received and not read
    taken     \* (history) callers whose announce the tracker has taken

udpVars == <<n, expired, at, net, socket, taken>>

Request == [action : {"connect", "announce"}, txn : Callers]
Response == [action : {"connect", "announce", "error"}, txn : Callers \cup {Old}]

UDPTypeOK ==
    /\ n \in 0..(MaxN + 2)
    /\ expired \in BOOLEAN
    /\ at \in [Callers -> {"out", "dial", "dialRead", "loop", "read", "connLoop",
                           "connRead", "http", "ok", "httpOk", "failed"}]
    /\ net \subseteq Request
    /\ socket \in Seq(Response) /\ Len(socket) <= SocketCap
    /\ taken \subseteq Callers

Goto(c, l) == at' = [at EXCEPT ![c] = l]

\* The requests of c with these actions are over, and their transaction IDs never
\* used again: responses to them among the unread ones are old.  A copy that is
\* still under way is taken to be lost (had it arrived, its response would be
\* among the unread).
Over(c, actions, unread) ==
    LET last == [action : actions, txn : {c}]
    IN  /\ net' = net \ last
        /\ socket' = [i \in DOMAIN unread |->
                        IF unread[i] \in last THEN [unread[i] EXCEPT !.txn = Old]
                        ELSE unread[i]]

-----------------------------------------------------------------------------
(* sendWithDeadline, connect, Announce *)

\* Announce: the request is marshalled, once for all times that it is sent.
MarshalAnnounce(c) ==
    /\ taken' = taken \ {c}
    /\ Goto(c, "loop")
    /\ UNCHANGED <<n, expired, net, socket>>

\* sendWithDeadline returns an error, from the request or from the connect
\* inside it; socket then holds unread.
Fail(c, unread) == Goto(c, "http") /\ Over(c, {"connect", "announce"}, unread)

\* ErrMaxRetriesExceeded.
MaxRetriesExceeded(c) ==
    /\ at[c] \in {"dial", "loop", "connLoop"} /\ n > MaxN
    /\ Fail(c, socket)
    /\ UNCHANGED <<n, expired, taken>>

\* The connection ID has expired: connect.
Reconnect(c) ==
    /\ at[c] = "loop" /\ n <= MaxN /\ expired
    /\ Goto(c, "connLoop")
    /\ UNCHANGED <<n, expired, net, socket, taken>>

\* The request is written, and the caller waits for a response.
WriteRequest(c) ==
    /\ n <= MaxN
    /\ \/ /\ at[c] = "loop" /\ ~expired
          /\ net' = net \cup {[action |-> "announce", txn |-> c]}
          /\ Goto(c, "read")
       \/ /\ at[c] \in {"dial", "connLoop"}
          /\ net' = net \cup {[action |-> "connect", txn |-> c]}
          /\ Goto(c, IF at[c] = "dial" THEN "dialRead" ELSE "connRead")
    /\ UNCHANGED <<n, expired, socket, taken>>

Waiting(c) == at[c] \in {"dialRead", "read", "connRead"}

LoopOf(l) == CASE l = "dialRead" -> "dial" [] l = "read" -> "loop" [] OTHER -> "connLoop"

\* While a deadline passes the connection ID may expire, if there is one.  Another
\* goroutine that is about to write does not take that long.
MayExpire(c) ==
    expired \/ (/\ at[c] # "dialRead"
                /\ \A d \in Callers : at[d] \notin {"loop", "connLoop"})

\* Mutant: a timeout of a connect request is not counted.
MutTimeout(c) ==
    /\ Waiting(c) /\ socket = <<>>
    /\ n' = IF at[c] = "read" THEN n + 1 ELSE n
    /\ expired' \in {expired, MayExpire(c)}
    /\ Goto(c, LoopOf(at[c]))
    /\ UNCHANGED <<net, socket, taken>>

\* The deadline, 15 * 2^n seconds after the request was written.
Timeout(c) ==
    /\ Waiting(c) /\ socket = <<>>
    /\ n' = n + 1
    /\ expired' \in {expired, MayExpire(c)}
    /\ Goto(c, LoopOf(at[c]))
    /\ UNCHANGED <<net, socket, taken>>

\* Write or Read fails otherwise (the tracker's host refuses the datagram).
SocketError(c) ==
    /\ Waiting(c)
    /\ Fail(c, socket)
    /\ UNCHANGED <<n, expired, taken>>

\* Mutant: the transaction ID is not compared.
MutMatches(resp, action, c) == resp.action = action

\* unmarshalConnectResponse, unmarshalUDPAnnounceResponse: what is not the
\* response to this very request is an error.
Matches(resp, action, c) == resp.action = action /\ resp.txn = c

\* A datagram is read for an announce.
ReadAnnounce(c) ==
    /\ at[c] = "read" /\ socket # <<>>
    /\ n' = 0
    /\ IF Matches(Head(socket), "announce", c)
       THEN Goto(c, "ok") /\ Over(c, {"connect", "announce"}, Tail(socket))
       ELSE Fail(c, Tail(socket))
    /\ UNCHANGED <<expired, taken>>

\* A datagram is read for a connect.  The announce that found the connection ID
\* expired then goes on, with the bytes it has marshalled.
ReadConnect(c) ==
    /\ at[c] \in {"dialRead", "connRead"} /\ socket # <<>>
    /\ n' = 0
    /\ IF Matches(Head(socket), "connect", c)
       THEN /\ expired' = FALSE
            /\ Goto(c, IF at[c] = "dialRead" THEN "ok" ELSE "loop")
            /\ Over(c, {"connect"}, Tail(socket))
       ELSE Fail(c, Tail(socket)) /\ UNCHANGED expired
    /\ UNCHANGED taken

-----------------------------------------------------------------------------
(* The tracker and the network *)

\* The response, unless it is lost or the receive buffer is full.
Receive(resp) ==
    \/ UNCHANGED socket
    \/ Len(socket) < SocketCap /\ socket' = Append(socket, resp)

\* The tracker takes a request: a connect, or an announce with a connection ID
\* it has issued and still knows.
Answer(m) ==
    /\ m \in net
    /\ net' = net \ {m}
    /\ taken' = IF m.action = "announce" THEN taken \cup {m.txn} ELSE taken
    /\ Receive(m)
    /\ UNCHANGED <<n, expired, at>>

\* The tracker refuses a request.  Whose request it was makes no difference to
\* the client, which looks for an error before it looks at the ID.
AnswerError(m) ==
    /\ m \in net
    /\ net' = net \ {m}
    /\ Receive([action |-> "error", txn |-> Old])
    /\ UNCHANGED <<n, expired, at, taken>>

\* A request is lost.
Lose(m) ==
    /\ m \in net
    /\ net' = net \ {m}
    /\ UNCHANGED <<n, expired, at, socket, taken>>

UDPCall(c) ==
    \/ MaxRetriesExceeded(c) \/ Reconnect(c) \/ WriteRequest(c)
    \/ ReadAnnounce(c) \/ ReadConnect(c)

=============================================================================
