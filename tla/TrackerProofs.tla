---------------------------- MODULE TrackerProofs ----------------------------
(***************************************************************************)
(* Proofs about the announces of a download, for any length of the torrent *)
(* and of its pieces, any number of retries and any size of the socket's   *)
(* buffer.  TInv is inductive.                                             *)
(***************************************************************************)
EXTENDS TrackerSession, TLAPS, SequenceTheorems

\* The announce of c, and the response that answers it.
Ann(c) == [action |-> "announce", txn |-> c]

W(c) == IF Waiting(c) THEN 1 ELSE 0

\* Timeouts since the last datagram: a request is written only while n is at most
\* MaxN, and both callers may have written one by then.
Counted == n + W("main") + W("updater") <= MaxN + 2

\* Only the main goroutine connects without a request, before the first announce.
Dialling == \A c \in Callers : at[c] \in {"dial", "dialRead"} => c = "main" /\ main = "connect"

\* Until the download starts there is no updater, and the announce said that all
\* is left.
Starting ==
    main \in {"connect", "starting"} =>
        updater = "off" /\ at["updater"] = "out" /\ ~nothingLeft

\* A response with the ID of the request of now is there only if the tracker has
\* taken that request.
Answers == \A i \in DOMAIN socket : \A c \in Callers : socket[i] = Ann(c) => c \in taken

\* Outside a request there is nothing under way with its ID.
Quiet ==
    \A c \in Callers : at[c] \notin {"loop", "read", "connLoop", "connRead"} =>
        Ann(c) \notin net /\ \A i \in DOMAIN socket : socket[i] # Ann(c)

\* After a download that succeeded all pieces are there.
Finished == main \in {"stop", "stopping", "exit"} => Done

UDPInv == UDPTypeOK /\ Counted /\ Dialling /\ Answers /\ Quiet /\ OwnAnswer

TInv == TypeOK /\ UDPInv /\ Starting /\ Finished /\ NothingLeftIsComplete

-----------------------------------------------------------------------------
(* Operators *)

\* Pieces of length P that are not all the pieces do not make up the length T.
LEMMA Ceiling ==
    ASSUME NEW P \in Nat \ {0}, NEW T \in Nat \ {0},
           NEW k \in 0..((T + P - 1) \div P), k * P >= T
    PROVE  k = (T + P - 1) \div P
<1> DEFINE N == (T + P - 1) \div P
<1>1. N \in Nat /\ N * P <= T + P - 1
  OBVIOUS
<1>2. ASSUME k # N PROVE FALSE
  <2>1. PICK j \in Nat : N = k + 1 + j
    <3>1. N - k - 1 \in Nat
      BY <1>2, <1>1
    <3> WITNESS N - k - 1 \in Nat
    <3> QED
      BY <1>1
  <2>2. N * P = k * P + P + j * P
    BY <2>1
  <2> HIDE DEF N
  <2>3. k * P \in Nat /\ j * P \in Nat /\ N * P \in Nat
    BY <1>1
  <2> QED
    BY <2>2, <2>3, <1>1
<1> QED
  BY <1>2

\* computeLeft is 0 only when all pieces are there.
LEMMA NothingLeft ==
    ASSUME completed \in 0..NumPieces, computeLeft = 0
    PROVE  Done
<1>1. completed \in Nat /\ completed * PieceLength \in Nat
  BY SessionAssumption DEF NumPieces
<1>2. completed * PieceLength >= TotalLength
  BY <1>1, SessionAssumption DEF computeLeft
<1> QED
  BY <1>2, Ceiling, SessionAssumption DEF NumPieces, Done

\* What Over leaves unread, and under way.
LEMMA OverKeeps ==
    ASSUME NEW c \in Callers, NEW actions, NEW unread \in Seq(Response),
           net \subseteq Request, Over(c, actions, unread)
    PROVE  /\ socket' \in Seq(Response) /\ Len(socket') = Len(unread)
           /\ net' \subseteq net /\ net' \subseteq Request
           /\ "announce" \in actions => Ann(c) \notin net'
           /\ \A i \in DOMAIN socket' : \A d \in Callers : socket'[i] = Ann(d) =>
                 /\ i \in DOMAIN unread /\ unread[i] = Ann(d)
                 /\ "announce" \in actions => d # c
<1> DEFINE last == [action : actions, txn : {c}]
<1>1. socket' = [i \in DOMAIN unread |-> IF unread[i] \in last
                                         THEN [unread[i] EXCEPT !.txn = Old]
                                         ELSE unread[i]]
  BY DEF Over
<1>2. ASSUME NEW i \in DOMAIN unread
      PROVE  /\ socket'[i] \in Response
             /\ \A d \in Callers : socket'[i] = Ann(d) =>
                   unread[i] = Ann(d) /\ unread[i] \notin last
  <2>1. unread[i] \in Response
    BY LenProperties
  <2>2. CASE unread[i] \in last
    <3>1. socket'[i] = [unread[i] EXCEPT !.txn = Old]
      BY <1>1, <2>2
    <3>2. socket'[i] \in Response /\ socket'[i].txn = Old
      BY <2>1, <3>1 DEF Response
    <3> QED
      BY <3>2, UDPTrackerAssumption DEF Ann
  <2>3. CASE unread[i] \notin last
    BY <1>1, <2>1, <2>3
  <2> QED
    BY <2>2, <2>3
<1>3. DOMAIN socket' = DOMAIN unread
  BY <1>1
<1>4. socket' \in [DOMAIN unread -> Response]
  BY <1>1, <1>2
<1>5. socket' \in Seq(Response) /\ Len(socket') = Len(unread)
  BY <1>4
<1>6. net' = net \ last
  BY DEF Over
<1>7. "announce" \in actions => Ann(c) \in last
  BY DEF Ann
<1> QED
  BY <1>2, <1>3, <1>5, <1>6, <1>7

\* The unread responses after one has been read.
LEMMA TailUnread ==
    ASSUME socket \in Seq(Response), socket # <<>>
    PROVE  /\ Head(socket) = socket[1] /\ 1 \in DOMAIN socket
           /\ Tail(socket) \in Seq(Response) /\ Len(Tail(socket)) <= Len(socket)
           /\ \A i \in DOMAIN Tail(socket) : i + 1 \in DOMAIN socket
                                             /\ Tail(socket)[i] = socket[i + 1]
<1>1. Len(socket) \in Nat \ {0} /\ DOMAIN socket = 1..Len(socket)
  BY EmptySeq, LenProperties
<1>2. /\ Tail(socket) \in Seq(Response)
      /\ Len(Tail(socket)) = Len(socket) - 1
      /\ \A i \in 1..Len(Tail(socket)) : Tail(socket)[i] = socket[i + 1]
  BY HeadTailProperties
<1>3. DOMAIN Tail(socket) = 1..Len(Tail(socket))
  BY <1>2, LenProperties
<1>4. \A i \in DOMAIN Tail(socket) : i + 1 \in DOMAIN socket
  BY <1>1, <1>2, <1>3
<1> QED
  BY <1>1, <1>2, <1>3, <1>4

-----------------------------------------------------------------------------
(* Steps of the UDP tracker *)

\* A caller that no longer waits leaves room for its timeout.
LEMMA CountedKept ==
    ASSUME UDPTypeOK, Counted, NEW c \in Callers,
           \A d \in Callers \ {c} : at'[d] = at[d],
           at'[c] \notin {"dialRead", "read", "connRead"},
           n' \in Nat, n' <= n \/ (Waiting(c) /\ n' = n + 1)
    PROVE  Counted' /\ n' \in 0..(MaxN + 2)
<1> USE UDPTrackerAssumption, SessionAssumption DEF UDPTypeOK, Waiting
<1>1. W("main") \in {0, 1} /\ W("updater") \in {0, 1} /\ n \in Nat
  BY DEF W
<1>2. W(c) = 1 \/ n' <= n
  BY DEF W
<1>3. CASE c = "main"
  <2>1. W("main")' = 0 /\ W("updater")' = W("updater")
    BY <1>3 DEF W
  <2> QED
    BY <1>1, <1>2, <1>3, <2>1 DEF Counted
<1>4. CASE c = "updater"
  <2>1. W("updater")' = 0 /\ W("main")' = W("main")
    BY <1>4 DEF W
  <2> QED
    BY <1>1, <1>2, <1>4, <2>1 DEF Counted
<1> QED
  BY <1>3, <1>4

\* A call of c ends, successfully or not, and its requests are over.
LEMMA EndOfRequest ==
    ASSUME UDPInv, main' = main, NEW c \in Callers, NEW l \in {"http", "ok"},
           NEW unread \in Seq(Response), Len(unread) <= SocketCap,
           \A i \in DOMAIN unread : \E j \in DOMAIN socket : unread[i] = socket[j],
           Goto(c, l), Over(c, {"connect", "announce"}, unread),
           n' \in 0..n, expired' \in BOOLEAN, taken' = taken,
           l = "ok" => c \in taken
    PROVE  UDPInv'
<1> USE DEF UDPInv
<1>1. /\ socket' \in Seq(Response) /\ Len(socket') = Len(unread)
      /\ net' \subseteq net /\ net' \subseteq Request
      /\ Ann(c) \notin net'
      /\ \A i \in DOMAIN socket' : \A d \in Callers : socket'[i] = Ann(d) =>
            i \in DOMAIN unread /\ unread[i] = Ann(d) /\ d # c
  BY OverKeeps DEF UDPTypeOK
<1>2. at' = [at EXCEPT ![c] = l]
  BY DEF Goto
<1>3. UDPTypeOK'
  BY <1>1, <1>2, UDPTrackerAssumption DEF UDPTypeOK
<1>4. Counted'
  <2>1. n \in Nat /\ n' \in Nat /\ n' <= n
    BY UDPTrackerAssumption DEF UDPTypeOK
  <2>2. at'[c] = l /\ \A d \in Callers \ {c} : at'[d] = at[d]
    BY <1>2 DEF UDPTypeOK
  <2> QED
    BY <2>1, <2>2, CountedKept
<1>5. Dialling'
  BY <1>2 DEF Dialling, UDPTypeOK
<1>6. Answers'
  BY <1>1 DEF Answers
<1>7. Quiet'
  <2> SUFFICES ASSUME NEW d \in Callers,
                      at'[d] \notin {"loop", "read", "connLoop", "connRead"}
               PROVE  /\ Ann(d) \notin net'
                      /\ \A i \in DOMAIN socket' : socket'[i] # Ann(d)
    BY DEF Quiet, Ann
  <2>1. CASE d = c
    BY <1>1, <2>1
  <2>2. CASE d # c
    <3>1. at'[d] = at[d]
      BY <1>2, <2>2 DEF UDPTypeOK
    <3> QED
      BY <1>1, <3>1 DEF Quiet
  <2> QED
    BY <2>1, <2>2
<1>8. OwnAnswer'
  BY <1>2 DEF OwnAnswer, UDPTypeOK
<1> QED
  BY <1>3, <1>4, <1>5, <1>6, <1>7, <1>8

\* The steps of a caller inside the tracker.
LEMMA CallStep ==
    ASSUME UDPInv, main' = main, NEW c \in Callers,
           UDPCall(c) \/ Timeout(c) \/ SocketError(c)
    PROVE  UDPInv'
<1> USE UDPTrackerAssumption, SessionAssumption DEF UDPInv, Goto
<1>1. socket \in Seq(Response) /\ Len(socket) <= SocketCap /\ n \in Nat
      /\ expired \in BOOLEAN
  BY DEF UDPTypeOK
<1>2. CASE MaxRetriesExceeded(c) \/ SocketError(c)
  BY <1>1, <1>2, EndOfRequest DEF MaxRetriesExceeded, SocketError, Fail
<1>3. CASE Reconnect(c)
  <2>1. UDPTypeOK'
    BY <1>3 DEF Reconnect, UDPTypeOK
  <2>2. Counted' /\ Dialling' /\ OwnAnswer'
    BY <1>3 DEF Reconnect, UDPTypeOK, Counted, W, Waiting, Dialling, OwnAnswer
  <2>3. Answers' /\ Quiet'
    BY <1>3 DEF Reconnect, UDPTypeOK, Answers, Quiet, Ann
  <2> QED
    BY <2>1, <2>2, <2>3
<1>4. CASE WriteRequest(c)
  <2>1. UDPTypeOK'
    <3>1. [action |-> "announce", txn |-> c] \in Request
          /\ [action |-> "connect", txn |-> c] \in Request
      BY DEF Request
    <3> QED
      BY <1>4, <3>1 DEF WriteRequest, UDPTypeOK
  <2>2. Counted'
    BY <1>4 DEF WriteRequest, UDPTypeOK, Counted, W, Waiting
  <2>3. Dialling' /\ OwnAnswer'
    BY <1>4 DEF WriteRequest, UDPTypeOK, Dialling, OwnAnswer
  <2>4. Answers'
    BY <1>4 DEF WriteRequest, Answers, Ann
  <2>5. Quiet'
    <3>1. \A d \in Callers : [action |-> "connect", txn |-> c] # Ann(d)
      BY DEF Ann
    <3>2. \A d \in Callers : [action |-> "announce", txn |-> c] = Ann(d) => d = c
      BY DEF Ann
    <3> QED
      BY <1>4, <3>1, <3>2 DEF WriteRequest, UDPTypeOK, Quiet
  <2> QED
    BY <2>1, <2>2, <2>3, <2>4, <2>5
<1>5. CASE Timeout(c)
  <2>1. UDPTypeOK' /\ Counted'
    <3>1. /\ LoopOf(at[c]) \in {"dial", "loop", "connLoop"}
          /\ at' = [at EXCEPT ![c] = LoopOf(at[c])]
          /\ Waiting(c) /\ n' = n + 1
          /\ UNCHANGED <<net, socket, taken>>
      BY <1>5 DEF Timeout, LoopOf
    <3>2. Counted' /\ n' \in 0..(MaxN + 2)
      <4>1. /\ at'[c] \in {"dial", "loop", "connLoop"}
            /\ \A d \in Callers \ {c} : at'[d] = at[d]
        BY <3>1 DEF UDPTypeOK
      <4> QED
        BY <1>1, <3>1, <4>1, CountedKept
    <3>3. expired' \in BOOLEAN
      BY <1>1, <1>5 DEF Timeout, MayExpire
    <3> QED
      BY <3>1, <3>2, <3>3 DEF UDPTypeOK
  <2>2. Dialling' /\ OwnAnswer'
    BY <1>5 DEF Timeout, UDPTypeOK, Dialling, OwnAnswer, Waiting, LoopOf
  <2>3. Answers'
    BY <1>5 DEF Timeout, Answers, Ann
  <2>4. Quiet'
    BY <1>5 DEF Timeout, UDPTypeOK, Quiet, Waiting, LoopOf, Ann
  <2> QED
    BY <2>1, <2>2, <2>3, <2>4
<1>6. CASE ReadAnnounce(c)
  <2>1. socket # <<>> /\ n' \in 0..n /\ expired' \in BOOLEAN /\ taken' = taken
    BY <1>1, <1>6 DEF ReadAnnounce
  <2>2. /\ Head(socket) = socket[1] /\ 1 \in DOMAIN socket
        /\ Tail(socket) \in Seq(Response) /\ Len(Tail(socket)) <= SocketCap
        /\ \A i \in DOMAIN Tail(socket) :
              \E j \in DOMAIN socket : Tail(socket)[i] = socket[j]
    BY <1>1, <2>1, TailUnread, LenProperties
  <2>3. CASE Matches(Head(socket), "announce", c)
    <3>1. socket[1] \in Response
      BY <1>1, <2>2, LenProperties
    <3>2. socket[1] = Ann(c)
      BY <2>2, <2>3, <3>1 DEF Matches, Ann, Response
    <3>3. c \in taken
      BY <2>2, <3>2 DEF Answers
    <3> QED
      BY <1>6, <2>1, <2>2, <2>3, <3>3, EndOfRequest DEF ReadAnnounce
  <2>4. CASE ~Matches(Head(socket), "announce", c)
    BY <1>6, <2>1, <2>2, <2>4, EndOfRequest DEF ReadAnnounce, Fail
  <2> QED
    BY <2>3, <2>4
<1>7. CASE ReadConnect(c)
  <2>1. socket # <<>> /\ n' \in 0..n /\ taken' = taken
    BY <1>1, <1>7 DEF ReadConnect
  <2>2. /\ Tail(socket) \in Seq(Response) /\ Len(Tail(socket)) <= SocketCap
        /\ \A i \in DOMAIN Tail(socket) :
              \E j \in DOMAIN socket : Tail(socket)[i] = socket[j]
    BY <1>1, <2>1, TailUnread, LenProperties
  <2>3. CASE Matches(Head(socket), "connect", c)
    <3>1. /\ socket' \in Seq(Response) /\ Len(socket') = Len(Tail(socket))
          /\ net' \subseteq net /\ net' \subseteq Request
          /\ \A i \in DOMAIN socket' : \A d \in Callers : socket'[i] = Ann(d) =>
                \E j \in DOMAIN socket : socket[j] = Ann(d)
      <4>1. PICK unread \in Seq(Response) : unread = Tail(socket)
        BY <2>2
      <4>2. Over(c, {"connect"}, unread) /\ net \subseteq Request
        BY <1>7, <2>3, <4>1 DEF ReadConnect, UDPTypeOK
      <4>3. /\ socket' \in Seq(Response) /\ Len(socket') = Len(unread)
            /\ net' \subseteq net /\ net' \subseteq Request
            /\ \A i \in DOMAIN socket' : \A d \in Callers : socket'[i] = Ann(d) =>
                  i \in DOMAIN unread /\ unread[i] = Ann(d)
        BY <4>2, OverKeeps
      <4> QED
        BY <2>2, <4>1, <4>3
    <3>2. /\ at[c] \in {"dialRead", "connRead"}
          /\ at' = [at EXCEPT ![c] = IF at[c] = "dialRead" THEN "ok" ELSE "loop"]
          /\ expired' = FALSE
      BY <1>7, <2>3 DEF ReadConnect
    <3>3. UDPTypeOK'
      <4>1. n' \in 0..(MaxN + 2) /\ taken' \subseteq Callers
        BY <1>1, <2>1 DEF UDPTypeOK
      <4>2. Len(socket') <= SocketCap
        BY <2>2, <3>1
      <4> QED
        BY <3>1, <3>2, <4>1, <4>2 DEF UDPTypeOK
    <3>4. Counted'
      <4>1. /\ at'[c] \in {"ok", "loop"}
            /\ \A d \in Callers \ {c} : at'[d] = at[d]
        BY <3>2 DEF UDPTypeOK
      <4> QED
        BY <1>1, <2>1, <4>1, CountedKept
    <3>5. Dialling' /\ OwnAnswer'
      BY <2>1, <3>2 DEF Dialling, OwnAnswer, UDPTypeOK
    <3>6. Answers'
      BY <2>1, <3>1 DEF Answers
    <3>7. Quiet'
      <4> SUFFICES ASSUME NEW d \in Callers,
                          at'[d] \notin {"loop", "read", "connLoop", "connRead"}
                   PROVE  /\ Ann(d) \notin net'
                          /\ \A i \in DOMAIN socket' : socket'[i] # Ann(d)
        BY DEF Quiet, Ann
      <4>1. at[d] \notin {"loop", "read", "connLoop", "connRead"}
        BY <3>2 DEF UDPTypeOK
      <4> QED
        BY <3>1, <4>1 DEF Quiet
    <3> QED
      BY <3>3, <3>4, <3>5, <3>6, <3>7
  <2>4. CASE ~Matches(Head(socket), "connect", c)
    BY <1>1, <1>7, <2>1, <2>2, <2>4, EndOfRequest DEF ReadConnect, Fail
  <2> QED
    BY <2>3, <2>4
<1> QED
  BY <1>2, <1>3, <1>4, <1>5, <1>6, <1>7 DEF UDPCall

\* The steps of the tracker and the network: a response to an announce is sent
\* only by a tracker that has taken it.
LEMMA NetStep ==
    ASSUME UDPInv, main' = main, NEW m \in net, Answer(m) \/ AnswerError(m) \/ Lose(m)
    PROVE  UDPInv'
<1> USE UDPTrackerAssumption DEF UDPInv
<1>1. /\ m \in Request /\ m \in Response
      /\ socket \in Seq(Response) /\ Len(socket) <= SocketCap /\ Len(socket) \in Nat
      /\ DOMAIN socket = 1..Len(socket)
  BY LenProperties DEF UDPTypeOK, Request, Response
<1>2. net' = net \ {m} /\ at' = at /\ n' = n /\ expired' = expired
  BY DEF Answer, AnswerError, Lose
<1>3. taken \subseteq taken' /\ taken' \subseteq Callers
  BY <1>1 DEF Answer, AnswerError, Lose, UDPTypeOK, Request
<1>4. \/ socket' = socket
      \/ \E r \in Response :
            /\ socket' = Append(socket, r) /\ Len(socket) < SocketCap
            /\ (r = m /\ Answer(m)) \/ \A d \in Callers : r # Ann(d)
  <2>1. [action |-> "error", txn |-> Old] \in Response
    BY DEF Response
  <2>2. \A d \in Callers : [action |-> "error", txn |-> Old] # Ann(d)
    BY DEF Ann
  <2> QED
    BY <1>1, <2>1, <2>2 DEF Answer, AnswerError, Lose, Receive
<1>5. /\ socket' \in Seq(Response) /\ Len(socket') <= SocketCap
      /\ \A i \in DOMAIN socket' : \A d \in Callers : socket'[i] = Ann(d) =>
            \/ i \in DOMAIN socket /\ socket[i] = Ann(d)
            \/ m = Ann(d) /\ Answer(m)
  <2>1. CASE socket' = socket
    BY <1>1, <2>1
  <2>2. CASE socket' # socket
    <3>1. PICK r \in Response :
            /\ socket' = Append(socket, r) /\ Len(socket) < SocketCap
            /\ (r = m /\ Answer(m)) \/ \A d \in Callers : r # Ann(d)
      BY <1>4, <2>2
    <3>2. /\ socket' \in Seq(Response) /\ Len(socket') = Len(socket) + 1
          /\ DOMAIN socket' = 1..(Len(socket) + 1)
          /\ \A i \in DOMAIN socket : socket'[i] = socket[i]
          /\ socket'[Len(socket) + 1] = r
      BY <1>1, <3>1, AppendProperties
    <3>3. Len(socket') <= SocketCap
      BY <1>1, <3>1, <3>2
    <3>4. \A i \in DOMAIN socket' : i \in DOMAIN socket \/ i = Len(socket) + 1
      BY <1>1, <3>2
    <3> QED
      BY <3>1, <3>2, <3>3, <3>4
  <2> QED
    BY <2>1, <2>2
<1>6. UDPTypeOK'
  BY <1>2, <1>3, <1>5 DEF UDPTypeOK
<1>7. Counted' /\ Dialling'
  BY <1>2 DEF Counted, W, Waiting, Dialling
<1>8. OwnAnswer'
  BY <1>2, <1>3 DEF OwnAnswer
<1>9. Answers'
  <2>1. \A d \in Callers : m = Ann(d) /\ Answer(m) => d \in taken'
    BY DEF Answer, Ann
  <2> QED
    BY <1>3, <1>5, <2>1 DEF Answers
<1>10. Quiet'
  BY <1>2, <1>5 DEF Quiet
<1> QED
  BY <1>6, <1>7, <1>8, <1>9, <1>10

-----------------------------------------------------------------------------
(* Steps of the session *)

\* Caller c begins an announce, turns to the HTTP tracker or goes on after a call:
\* nothing of its own is under way.
LEMMA OutsideStep ==
    ASSUME UDPInv, NEW c \in Callers, at[c] \in {"out", "http", "ok", "httpOk", "failed"},
           NEW l \in {"out", "loop", "http", "httpOk", "failed"}, Goto(c, l),
           UNCHANGED <<n, expired, net, socket>>, taken' \in {taken, taken \ {c}},
           main = "connect" => c = "main",
           \A d \in Callers \ {c} : at[d] = "ok" => d \in taken
    PROVE  UDPInv'
<1> USE UDPTrackerAssumption, SessionAssumption DEF UDPInv
<1>1. at' = [at EXCEPT ![c] = l]
  BY DEF Goto
<1>2. at'[c] = l /\ \A d \in Callers \ {c} : at'[d] = at[d]
  BY <1>1 DEF UDPTypeOK
<1>3. UDPTypeOK'
  BY <1>1 DEF UDPTypeOK
<1>4. Counted'
  <2>1. n' \in Nat /\ n' <= n
    BY DEF UDPTypeOK
  <2> QED
    BY <1>2, <2>1, CountedKept
<1>5. Dialling'
  BY <1>2 DEF Dialling
<1>6. OwnAnswer'
  BY <1>2 DEF OwnAnswer
<1>7. Answers'
  BY DEF Answers, Quiet
<1>8. Quiet'
  BY <1>2 DEF Quiet
<1> QED
  BY <1>3, <1>4, <1>5, <1>6, <1>7, <1>8

\* An announce begins once the tracker has been set up.
LEMMA AnnounceStep ==
    ASSUME UDPInv, main # "connect", NEW c \in Callers, NEW left, Announce(c, left)
    PROVE  UDPInv'
<1>1. \A d \in Callers \ {c} : at[d] = "ok" => d \in taken
  BY DEF UDPInv, OwnAnswer
<1>2. /\ at[c] = "out" /\ UNCHANGED <<n, expired, net, socket>>
      /\ taken' \in {taken, taken \ {c}}
      /\ Goto(c, "loop") \/ Goto(c, "http")
  BY DEF Announce, MarshalAnnounce
<1> QED
  BY <1>1, <1>2, OutsideStep

\* A call of the tracker has returned, and the caller goes on.
LEMMA EndCallStep ==
    ASSUME UDPInv, main # "connect", NEW c \in Callers, Returned(c), EndCall(c)
    PROVE  UDPInv'
<1>1. \A d \in Callers \ {c} : at[d] = "ok" => d \in taken
  BY DEF UDPInv, OwnAnswer
<1> QED
  BY <1>1, OutsideStep DEF EndCall, Returned

\* Steps that do not touch the tracker.
LEMMA ElsewhereStep ==
    ASSUME UDPInv, UNCHANGED <<n, at, net, socket, taken>>, expired' \in BOOLEAN,
           main' = main \/ main # "connect"
    PROVE  UDPInv'
<1>1. UDPTypeOK'
  BY DEF UDPInv, UDPTypeOK
<1>2. Counted' /\ Answers' /\ Quiet'
  BY DEF UDPInv, Counted, W, Waiting, Answers, Quiet
<1>3. Dialling' /\ OwnAnswer'
  BY DEF UDPInv, Dialling, OwnAnswer
<1> QED
  BY <1>1, <1>2, <1>3 DEF UDPInv

\* TInv holds initially.
LEMMA TInvInit == Init => TInv
<1> SUFFICES ASSUME Init PROVE TInv
  OBVIOUS
<1> USE UDPTrackerAssumption, SessionAssumption DEF Init
<1>1. NumPieces \in Nat
  BY DEF NumPieces
<1>2. UDPTypeOK
  <2>1. socket \in Seq(Response) /\ Len(socket) = 0
    BY EmptySeq
  <2>2. n \in 0..(MaxN + 2) /\ Len(socket) <= SocketCap
    BY <2>1
  <2> QED
    BY <2>1, <2>2 DEF UDPTypeOK
<1>3. TypeOK /\ Starting /\ Finished /\ NothingLeftIsComplete
  <2>1. completed \in 0..NumPieces
    BY <1>1
  <2>2. TypeOK
    BY <1>2, <2>1 DEF TypeOK
  <2>3. Starting /\ Finished
    BY DEF Starting, Finished
  <2>4. NothingLeftIsComplete
    BY DEF NothingLeftIsComplete
  <2> QED
    BY <2>2, <2>3, <2>4
<1>4. Counted
  BY DEF Counted, W, Waiting
<1>5. Dialling /\ OwnAnswer /\ Answers /\ Quiet
  BY DEF Dialling, OwnAnswer, Answers, Quiet
<1> QED
  BY <1>2, <1>3, <1>4, <1>5 DEF TInv, UDPInv

\* Every step preserves TInv.
LEMMA TInvStep == TInv /\ [Next]_vars => TInv'
<1> SUFFICES ASSUME TInv, [Next]_vars PROVE TInv'
  OBVIOUS
<1> USE SessionAssumption DEF TInv
<1>1. NumPieces \in Nat /\ UDPTypeOK /\ completed \in 0..NumPieces
  BY DEF NumPieces, UDPInv, TypeOK
<1> USE DEF sessionVars
<1>2. ASSUME UDPInv', UNCHANGED sessionVars,
             at["updater"] = "out" /\ updater = "off" => at'["updater"] = "out"
      PROVE  TInv'
  BY <1>2 DEF UDPInv, TypeOK, Starting, Finished, NothingLeftIsComplete, Done
<1>3. ASSUME NEW c \in Callers,
             Step(c) \/ (Running /\ (Timeout(c) \/ SocketError(c)) /\ UNCHANGED sessionVars)
      PROVE  TInv'
  <2>1. UDPInv'
    BY <1>3, CallStep DEF Step
  <2>2. at["updater"] = "out" => at'["updater"] = "out"
    BY <1>1, <1>3 DEF Step, UDPCall, MaxRetriesExceeded, Reconnect, WriteRequest, ReadAnnounce,
       ReadConnect, Timeout, SocketError, Fail, Goto, Waiting, UDPTypeOK
  <2> QED
    BY <1>2, <1>3, <2>1, <2>2 DEF Step
<1>4. ASSUME NEW m \in net, Answer(m) \/ AnswerError(m) \/ Lose(m), UNCHANGED sessionVars
      PROVE  TInv'
  <2>1. UDPInv'
    BY <1>4, NetStep
  <2>2. at' = at
    BY <1>4 DEF Answer, AnswerError, Lose
  <2> QED
    BY <1>2, <1>4, <2>1, <2>2
<1>5. ASSUME NEW c \in Callers, HTTPAnnounce(c) PROVE TInv'
  <2>1. main # "connect"
    BY <1>5 DEF HTTPAnnounce, Starting
  <2>2. \A d \in Callers : at[d] = "ok" => d \in taken
    BY <2>1 DEF UDPInv, OwnAnswer
  <2>3. PICK l \in {"httpOk", "failed"} : Goto(c, l)
    BY <1>5 DEF HTTPAnnounce
  <2>4. UDPInv'
    BY <1>5, <2>1, <2>2, <2>3, OutsideStep DEF HTTPAnnounce
  <2>5. at["updater"] = "out" => at'["updater"] = "out"
    BY <1>1, <1>5, <2>3 DEF HTTPAnnounce, Goto, UDPTypeOK
  <2> QED
    BY <1>2, <1>5, <2>4, <2>5 DEF HTTPAnnounce
<1>6. CASE NewMultiTracker
  <2>1. at["updater"] = "out"
    BY <1>6 DEF NewMultiTracker, Starting
  <2>2. UDPInv'
    BY <1>6, <2>1, OutsideStep DEF NewMultiTracker, EndCall
  <2>3. at'["updater"] = "out"
    BY <1>1, <1>6, <2>1 DEF NewMultiTracker, EndCall, Goto, UDPTypeOK
  <2> QED
    BY <1>6, <2>2, <2>3
    DEF NewMultiTracker, UDPInv, TypeOK, Starting, Finished, NothingLeftIsComplete, Done
<1>7. CASE AnnounceStarted
  <2>1. UDPInv'
    BY <1>7, AnnounceStep DEF AnnounceStarted
  <2>2. at'["updater"] = "out" /\ nothingLeft' = nothingLeft
    BY <1>1, <1>7 DEF AnnounceStarted, Announce, MarshalAnnounce, Goto, UDPTypeOK, Starting,
       TypeOK
  <2> QED
    BY <1>7, <2>1, <2>2
    DEF AnnounceStarted, UDPInv, TypeOK, Starting, Finished, NothingLeftIsComplete, Done
<1>8. CASE StartDownload
  <2>1. UDPInv'
    BY <1>8, EndCallStep DEF StartDownload
  <2> QED
    BY <1>8, <2>1
    DEF StartDownload, UDPInv, TypeOK, Starting, Finished, NothingLeftIsComplete, Done
<1>9. CASE DownloadReturns
  <2>1. UDPInv'
    BY <1>1, <1>9, ElsewhereStep DEF DownloadReturns, udpVars, UDPTypeOK
  <2> QED
    BY <1>9, <2>1
    DEF DownloadReturns, UDPInv, TypeOK, Starting, Finished, NothingLeftIsComplete, Done
<1>10. CASE AnnounceStopped
  <2>1. UDPInv'
    BY <1>10, AnnounceStep DEF AnnounceStopped
  <2>2. nothingLeft' \in BOOLEAN
    BY <1>10 DEF AnnounceStopped, Announce
  <2> QED
    BY <1>10, <2>1, <2>2
    DEF AnnounceStopped, UDPInv, TypeOK, Starting, Finished, NothingLeftIsComplete, Done
<1>11. CASE Exit
  <2>1. UDPInv'
    BY <1>11, EndCallStep DEF Exit
  <2> QED
    BY <1>11, <2>1
    DEF Exit, UDPInv, TypeOK, Starting, Finished, NothingLeftIsComplete, Done
<1>12. CASE SendStopped \/ SendCompleted \/ SendUpdate
  <2>1. PICK left : Announce("updater", left) /\ (left = computeLeft \/ (Done /\ left = 0))
    BY <1>12 DEF SendStopped, SendCompleted, SendUpdate
  <2>2. main \notin {"connect", "starting"}
    BY <1>12 DEF SendStopped, SendCompleted, SendUpdate, Starting
  <2>3. UDPInv'
    BY <2>1, <2>2, AnnounceStep
  <2>4. left = 0 => Done
    BY <1>1, <2>1, NothingLeft
  <2>5. nothingLeft' \in BOOLEAN /\ (nothingLeft' => Done)
    BY <2>1, <2>4 DEF Announce, TypeOK, NothingLeftIsComplete
  <2>6. UNCHANGED <<main, udpUp, ctx, completed>> /\ updater' \in {"update", "final"}
    BY <1>12 DEF SendStopped, SendCompleted, SendUpdate
  <2> QED
    BY <2>2, <2>3, <2>5, <2>6
    DEF UDPInv, TypeOK, Starting, Finished, NothingLeftIsComplete, Done
<1>13. CASE UpdaterReturns
  <2>1. main \notin {"connect", "starting"}
    BY <1>13 DEF UpdaterReturns, Starting
  <2>2. UDPInv'
    BY <1>13, <2>1, EndCallStep DEF UpdaterReturns
  <2> QED
    BY <1>13, <2>1, <2>2
    DEF UpdaterReturns, UDPInv, TypeOK, Starting, Finished, NothingLeftIsComplete, Done
<1>14. CASE CompletePiece
  <2>1. UDPInv'
    BY <1>1, <1>14, ElsewhereStep DEF CompletePiece, udpVars, UDPTypeOK
  <2>2. completed' \in 0..NumPieces /\ ~nothingLeft
    BY <1>1, <1>14 DEF CompletePiece, Done, NothingLeftIsComplete
  <2> QED
    BY <1>14, <2>1, <2>2
    DEF CompletePiece, UDPInv, TypeOK, Starting, Finished, NothingLeftIsComplete
<1>15. CASE Deadline \/ TimePasses \/ UNCHANGED vars
  <2>1. UNCHANGED <<n, at, net, socket, taken>> /\ expired' \in BOOLEAN
    BY <1>1, <1>15 DEF Deadline, TimePasses, vars, udpVars, UDPTypeOK
  <2>2. /\ UNCHANGED <<main, updater, udpUp, completed, nothingLeft>>
        /\ ctx' \in {"open", "done"}
    BY <1>15 DEF Deadline, TimePasses, vars, TypeOK
  <2>3. UDPInv'
    BY <2>1, <2>2, ElsewhereStep
  <2> QED
    BY <2>1, <2>2, <2>3
    DEF UDPInv, TypeOK, Starting, Finished, NothingLeftIsComplete, Done
<1> QED
  BY <1>3, <1>4, <1>5, <1>6, <1>7, <1>8, <1>9, <1>10, <1>11, <1>12, <1>13, <1>14, <1>15
  DEF Next, Main, Updater, Stopped

\* TInv holds in every reachable state.
LEMMA TInvAlways == Spec => []TInv
BY TInvInit, TInvStep, PTL DEF Spec

\* Every variable keeps its type: the retry counter that two callers share stays
\* below MaxN + 3, and no more pieces are counted than there are.
THEOREM TypeTheorem == Spec => []TypeOK
BY TInvAlways, PTL DEF TInv

\* An announce over UDP succeeds only if the tracker has taken this very request,
\* for any interleaving of two callers, copies and late answers on one socket
\* (sendWithDeadline, unmarshalUDPAnnounceResponse).
THEOREM OwnAnswerTheorem == Spec => []OwnAnswer
<1>1. TInv => OwnAnswer
  BY DEF TInv, UDPInv
<1> QED
  BY <1>1, TInvAlways, PTL

\* No announce says that nothing is left before the download is complete, for
\* every length of the torrent and of its pieces (computeLeft).
THEOREM NothingLeftTheorem == Spec => []NothingLeftIsComplete
BY TInvAlways, PTL DEF TInv
=============================================================================
