---------------------------- MODULE SeederProofs ----------------------------
(***************************************************************************)
(* Proofs about the seeder, for any number of connections, any limit on    *)
(* peers and any number of slots.  SInv is inductive.                      *)
(***************************************************************************)
EXTENDS Seeder, TLAPS, FiniteSetTheorems

\* Whoever holds writeMu is where it writes.
Locks ==
    \A c \in Conns : /\ writeMu[c] = "serve" <=> pc[c] = "write"
                     /\ writeMu[c] = "choker" <=> choker = "send" /\ current = c

\* The choker has a peer to send to, one of its round, exactly when it sends.
Sending ==
    /\ current \in round \cup {None}
    /\ choker \in {"lock", "send"} <=> current # None

\* A connection that is not a peer yet is as it was created.
Fresh ==
    \A c \in Conns : pc[c] \in {"none", "handshake"} =>
        c \notin peers /\ c \notin round /\ amChoking[c] /\ told[c] = None

\* A connection knows its state, except the one the choker has decided about and
\* not written to yet: that one was told the opposite.
Told ==
    \A c \in Conns : alive[c] =>
        (told[c] = "unchoke" <=> (IF c = current THEN amChoking[c] ELSE ~amChoking[c]))

\* A block is being written to an unchoked peer, or the choker waits for it.
Serving ==
    \A c \in Conns : pc[c] = "write" =>
        ~amChoking[c] \/ (choker = "lock" /\ current = c)

Unchoked == {c \in peers : ~amChoking[c]}

\* The bound, where tick has not begun to apply its choice.
Bounded ==
    choker \in {"tick", "scan", "idle", "ended"} => Cardinality(Unchoked) <= UnchokeSlots

\* Who may be unchoked in a round: first its peers, then those chosen and those
\* that tick has not decided about.
Rounds ==
    /\ choker = "scan" => Unchoked \subseteq round
    /\ choker \in {"apply", "lock", "send"} =>
          /\ Unchoked \subseteq toUnchoke \cup scan
          /\ Cardinality(toUnchoke) <= UnchokeSlots

SInv == TypeOK /\ Locks /\ Sending /\ Fresh /\ Told /\ Serving /\ Bounded /\ Rounds

-----------------------------------------------------------------------------

\* Fewer unchoked peers stay within the slots.
LEMMA FewerUnchoked ==
    ASSUME TypeOK, NEW S \in SUBSET Conns, NEW T \in SUBSET S,
           Cardinality(S) <= UnchokeSlots
    PROVE  Cardinality(T) <= UnchokeSlots
<1>1. IsFiniteSet(S) /\ IsFiniteSet(T)
  BY FS_Subset, SeederAssumption
<1>2. Cardinality(T) <= Cardinality(S)
  BY <1>1, FS_Subset
<1> QED
  BY <1>1, <1>2, FS_CardinalityType, SeederAssumption

\* What tick chooses fits into the slots.
LEMMA LimitFits ==
    ASSUME TypeOK
    PROVE  Limit <= UnchokeSlots
<1>1. Cardinality(found) \in Nat
  BY FS_Subset, FS_CardinalityType, SeederAssumption DEF TypeOK
<1> QED
  BY <1>1, SeederAssumption DEF Limit

\* SInv holds initially.
LEMMA SInvInit == Init => SInv
<1> SUFFICES ASSUME Init PROVE SInv
  OBVIOUS
<1>1. TypeOK /\ Locks /\ Sending /\ Fresh /\ Told /\ Serving /\ Rounds
  BY SeederAssumption
  DEF Init, TypeOK, PC, Locks, Sending, Fresh, Told, Serving, Rounds, Unchoked
<1>2. Unchoked = {}
  BY DEF Init, Unchoked
<1> QED
  BY <1>1, <1>2, FS_EmptySet, SeederAssumption DEF SInv, Bounded, Init

\* The steps of the connections and of Run: they set no flag of the choker, and
\* a connection becomes a peer choked.
LEMMA SInvConn ==
    ASSUME SInv, chokerVars' = chokerVars, amChoking' = amChoking, told' = told,
           TypeOK', Locks', Serving', Fresh',
           \A c \in Conns : alive'[c] => alive[c] \/ (told[c] = None /\ amChoking[c] /\ c # current),
           \A c \in peers' : c \in peers \/ amChoking[c]
    PROVE  SInv'
<1> USE DEF SInv
<1>1. Unchoked' \subseteq Unchoked /\ Unchoked \subseteq Conns
  BY DEF Unchoked, TypeOK
<1>2. Bounded'
  BY <1>1, FewerUnchoked DEF Bounded, chokerVars
<1>3. Rounds'
  BY <1>1 DEF Rounds, chokerVars
<1>4. Told'
  BY SeederAssumption DEF Told, chokerVars, TypeOK
<1>5. Sending'
  BY DEF Sending, chokerVars
<1> QED
  BY <1>2, <1>3, <1>4, <1>5

\* Every step of a connection preserves SInv.
LEMMA SInvConnStep ==
    ASSUME SInv, NEW c \in Conns,
           \/ Accept(c) \/ Handshake(c) \/ Local(c) \/ Read(c) \/ WriteBlock(c)
           \/ PeerCloses(c)
    PROVE  SInv'
<1> USE SeederAssumption
    DEF SInv, TypeOK, PC, Locks, Sending, Fresh, Serving, runVars, chokerVars, Goto
<1>1. CASE Accept(c)
  <2>0. /\ pc[c] = "none"
        /\ UNCHANGED <<runVars, peers, interested, amChoking, writeMu, told, chokerVars>>
        /\ \/ pc' = [pc EXCEPT ![c] = "ended"] /\ alive' = alive
           \/ /\ pc' = [pc EXCEPT ![c] = "handshake"]
              /\ alive' = [alive EXCEPT ![c] = TRUE]
    BY <1>1 DEF Accept
  <2>1. TypeOK' /\ Locks' /\ Serving' /\ Fresh'
    <3>1. CASE pc' = [pc EXCEPT ![c] = "ended"] /\ alive' = alive
      BY <2>0, <3>1
    <3>2. CASE /\ pc' = [pc EXCEPT ![c] = "handshake"]
               /\ alive' = [alive EXCEPT ![c] = TRUE]
      BY <2>0, <3>2
    <3> QED
      BY <2>0, <3>1, <3>2
  <2>2. \A d \in Conns : alive'[d] =>
          alive[d] \/ (told[d] = None /\ amChoking[d] /\ d # current)
    BY <1>1 DEF Accept
  <2> QED
    BY <1>1, <2>1, <2>2, SInvConn DEF Accept
<1>2. CASE AddPeer(c)
  <2>1. TypeOK' /\ Locks' /\ Serving' /\ Fresh'
    BY <1>2 DEF AddPeer
  <2> QED
    BY <1>2, <2>1, SInvConn DEF AddPeer
<1>3. CASE Leave(c) /\ pc[c] # "write"
  <2>1. TypeOK' /\ Locks' /\ Serving' /\ Fresh'
    BY <1>3 DEF Leave
  <2> QED
    BY <1>3, <2>1, SInvConn DEF Leave
<1>4. CASE ServeTop(c) /\ ctx = "open"
  <2>1. TypeOK' /\ Locks' /\ Serving' /\ Fresh'
    BY <1>4 DEF ServeTop
  <2> QED
    BY <1>4, <2>1, SInvConn DEF ServeTop
<1>5. CASE ReadInterest(c)
  <2>1. TypeOK' /\ Locks' /\ Serving' /\ Fresh'
    BY <1>5 DEF ReadInterest
  <2> QED
    BY <1>5, <2>1, SInvConn DEF ReadInterest
<1>6. CASE HandleRequest(c)
  <2>1. TypeOK' /\ Locks' /\ Serving' /\ Fresh'
    BY <1>6 DEF HandleRequest
  <2> QED
    BY <1>6, <2>1, SInvConn DEF HandleRequest
<1>7. CASE WriteBlock(c)
  <2>1. TypeOK' /\ Locks' /\ Serving' /\ Fresh'
    BY <1>7 DEF WriteBlock
  <2> QED
    BY <1>7, <2>1, SInvConn DEF WriteBlock
<1>8. CASE PeerCloses(c)
  <2>1. TypeOK' /\ Locks' /\ Serving' /\ Fresh'
    BY <1>8 DEF PeerCloses
  <2> QED
    BY <1>8, <2>1, SInvConn DEF PeerCloses
<1> QED
  BY <1>1, <1>2, <1>3, <1>4, <1>5, <1>6, <1>7, <1>8
  DEF Handshake, HandshakeFails, Local, ServeTop, ReadFails, Read

\* Every step of Run and of the accept loop preserves SInv.
LEMMA SInvRunStep ==
    ASSUME SInv, AcceptEnds \/ Cancel \/ Shutdown \/ UNCHANGED vars
    PROVE  SInv'
<1> USE DEF SInv, TypeOK, PC, Locks, Sending, Fresh, Serving, runVars, connVars, chokerVars
<1>1. CASE ClosePeers
  <2>1. TypeOK' /\ Locks' /\ Serving' /\ Fresh'
    BY <1>1 DEF ClosePeers
  <2> QED
    BY <1>1, <2>1, SInvConn DEF ClosePeers
<1>2. CASE ~ClosePeers
  <2>1. UNCHANGED <<connVars, chokerVars>>
    BY <1>2 DEF AcceptEnds, Cancel, Shutdown, CloseListener, Return, vars
  <2>2. TypeOK' /\ Locks' /\ Serving' /\ Fresh'
    BY <1>2, <2>1 DEF AcceptEnds, Cancel, Shutdown, CloseListener, Return, vars
  <2> QED
    BY <2>1, <2>2, SInvConn
<1> QED
  BY <1>1, <1>2

\* Every step of the choker preserves SInv.
LEMMA SInvTickStep ==
    ASSUME SInv, Tick \/ TickSend
    PROVE  SInv'
<1> USE SeederAssumption DEF SInv, TypeOK, PC, runVars, connVars, chokerVars
<1>a. Unchoked \in SUBSET Conns
  BY DEF Unchoked
<1>1. CASE TickStart
  <2>1. Unchoked' = Unchoked /\ Unchoked \subseteq round'
    BY <1>1 DEF TickStart, Unchoked
  <2>2. TypeOK'
    BY <1>1 DEF TickStart
  <2>3. Locks' /\ Sending' /\ Fresh' /\ Told' /\ Serving'
    BY <1>1 DEF TickStart, Locks, Sending, Fresh, Told, Serving
  <2>4. Bounded' /\ Rounds'
    BY <1>1, <2>1 DEF TickStart, Bounded, Rounds
  <2> QED
    BY <2>2, <2>3, <2>4
<1>2. ASSUME NEW c \in Conns, TickScan(c) PROVE SInv'
  <2>1. Unchoked' = Unchoked
    BY <1>2 DEF TickScan, Unchoked
  <2>2. TypeOK'
    BY <1>2 DEF TickScan
  <2>3. Locks' /\ Sending' /\ Fresh' /\ Told' /\ Serving'
    BY <1>2 DEF TickScan, Locks, Sending, Fresh, Told, Serving
  <2>4. Bounded' /\ Rounds'
    BY <1>2, <2>1 DEF TickScan, Bounded, Rounds
  <2> QED
    BY <2>2, <2>3, <2>4
<1>3. CASE TickChoose
  <2>1. Unchoked' = Unchoked
    BY <1>3 DEF TickChoose, Unchoked
  <2>2. current = None /\ current' = None
    BY <1>3 DEF TickChoose, Sending
  <2>3. CASE found = {}
    <3>1. TypeOK'
      BY <1>3, <2>3 DEF TickChoose, TickReturns
    <3>2. Locks' /\ Sending' /\ Fresh' /\ Told' /\ Serving'
      BY <1>3, <2>2, <2>3 DEF TickChoose, TickReturns, Locks, Sending, Fresh, Told, Serving
    <3>3. Bounded' /\ Rounds'
      BY <1>3, <2>1, <2>3 DEF TickChoose, TickReturns, Bounded, Rounds
    <3> QED
      BY <3>1, <3>2, <3>3
  <2>4. CASE found # {}
    <3>1. PICK s \in SUBSET found : Cardinality(s) = Limit /\ toUnchoke' = s
      BY <1>3, <2>4 DEF TickChoose
    <3>2. Cardinality(toUnchoke') <= UnchokeSlots
      BY <3>1, LimitFits
    <3>3. TypeOK'
      BY <1>3, <2>4, <3>1 DEF TickChoose
    <3>4. Locks' /\ Sending' /\ Fresh' /\ Told' /\ Serving'
      BY <1>3, <2>2, <2>4 DEF TickChoose, Locks, Sending, Fresh, Told, Serving
    <3>5. Bounded' /\ Rounds'
      BY <1>3, <2>1, <2>4, <3>2 DEF TickChoose, Bounded, Rounds
    <3> QED
      BY <3>3, <3>4, <3>5
  <2> QED
    BY <2>3, <2>4
<1>4. ASSUME NEW c \in Conns, TickApply(c) PROVE SInv'
  <2>1. current = None /\ c \in round /\ pc[c] \notin {"none", "handshake"}
    BY <1>4 DEF TickApply, Sending, Fresh
  <2>2. TypeOK'
    BY <1>4 DEF TickApply
  <2>3. Rounds'
    <3>1. ASSUME NEW d \in peers, ~amChoking'[d] PROVE d \in toUnchoke \cup scan'
      <4>1. CASE d = c
        <5> SUFFICES ASSUME c \notin toUnchoke PROVE FALSE
          BY <4>1
        <5>1. CASE amChoking[c]
          <6>1. (c \in toUnchoke) # amChoking[c]
            BY <5>1
          <6>2. amChoking' = amChoking
            BY <1>4, <6>1 DEF TickApply
          <6> QED
            BY <3>1, <4>1, <5>1, <6>2
        <5>2. CASE ~amChoking[c]
          <6>1. amChoking[c] = FALSE
            BY <5>2
          <6>2. (c \in toUnchoke) = amChoking[c]
            BY <6>1
          <6>3. amChoking' = [amChoking EXCEPT ![c] = c \notin toUnchoke]
            BY <1>4, <6>2 DEF TickApply
          <6>4. amChoking'[c] = (c \notin toUnchoke)
            BY <6>3
          <6> QED
            BY <3>1, <4>1, <6>4
        <5> QED
          BY <5>1, <5>2
      <4>2. CASE d # c
        BY <1>4, <3>1, <4>2 DEF TickApply, Rounds, Unchoked
      <4> QED
        BY <4>1, <4>2
    <3>2. Unchoked' \subseteq toUnchoke' \cup scan'
      BY <1>4, <3>1 DEF TickApply, Unchoked
    <3> QED
      BY <1>4, <3>2 DEF TickApply, Rounds
  <2>4. Bounded'
    BY <1>4 DEF TickApply, Bounded
  <2>5. CASE (c \in toUnchoke) = amChoking[c]
    <3>1. /\ \A d \in Conns \ {c} : amChoking'[d] = amChoking[d]
          /\ current' = c /\ choker' = "lock"
      BY <1>4, <2>5 DEF TickApply
    <3>2. amChoking'[c] <=> ~amChoking[c]
      BY <1>4, <2>5 DEF TickApply
    <3>3. UNCHANGED <<pc, alive, peers, writeMu, told, round>>
      BY <1>4 DEF TickApply
    <3>4. choker = "apply"
      BY <1>4 DEF TickApply
    <3>5. Locks'
      BY <2>1, <3>1, <3>3, <3>4 DEF Locks
    <3>6. Sending'
      BY <2>1, <3>1, <3>3 DEF Sending
    <3>7. Fresh'
      BY <2>1, <3>1, <3>3 DEF Fresh
    <3>8. Told'
      BY <2>1, <3>1, <3>2, <3>3 DEF Told
    <3>9. Serving'
      BY <2>1, <3>1, <3>3 DEF Serving
    <3> QED
      BY <3>5, <3>6, <3>7, <3>8, <3>9, <2>2, <2>3, <2>4
  <2>6. CASE ~((c \in toUnchoke) = amChoking[c])
    <3>1. Locks' /\ Sending' /\ Fresh' /\ Told' /\ Serving'
      BY <1>4, <2>6 DEF TickApply, Locks, Sending, Fresh, Told, Serving
    <3> QED
      BY <3>1, <2>2, <2>3, <2>4
  <2> QED
    BY <2>5, <2>6
<1>5. CASE TickLock
  <2>1. Unchoked' = Unchoked
    BY <1>5 DEF TickLock, Unchoked
  <2>2. current \in Conns
    BY <1>5 DEF TickLock, Sending
  <2>3. TypeOK'
    BY <1>5, <2>2 DEF TickLock
  <2>4. Locks' /\ Sending' /\ Fresh' /\ Told' /\ Serving'
    BY <1>5, <2>2 DEF TickLock, Locks, Sending, Fresh, Told, Serving
  <2>5. Bounded' /\ Rounds'
    BY <1>5, <2>1 DEF TickLock, Bounded, Rounds
  <2> QED
    BY <2>3, <2>4, <2>5
<1>6. CASE TickSend
  <2>1. Unchoked' = Unchoked
    BY <1>6 DEF TickSend, Unchoked
  <2>2. current \in Conns /\ pc[current] # "write" /\ current \in round
    BY <1>6 DEF TickSend, Sending, Locks
  <2>3. TypeOK'
    BY <1>6, <2>2 DEF TickSend
  <2>4. Locks' /\ Sending' /\ Fresh' /\ Serving'
    BY <1>6, <2>2 DEF TickSend, Locks, Sending, Fresh, Serving
  <2>5. Told'
    BY <1>6, <2>2 DEF TickSend, Told
  <2>6. Bounded' /\ Rounds'
    BY <1>6, <2>1 DEF TickSend, Bounded, Rounds
  <2> QED
    BY <2>3, <2>4, <2>5, <2>6
<1>7. CASE TickEnd
  <2>1. Unchoked' = Unchoked /\ Unchoked \subseteq toUnchoke
    BY <1>7 DEF TickEnd, Unchoked, Rounds
  <2>2. current = None /\ current' = None
    BY <1>7 DEF TickEnd, Sending
  <2>3. Cardinality(Unchoked) <= UnchokeSlots
    BY <1>7, <2>1, FewerUnchoked DEF TickEnd, Rounds
  <2>4. TypeOK'
    BY <1>7 DEF TickEnd, TickReturns
  <2>5. Locks' /\ Sending' /\ Fresh' /\ Told' /\ Serving'
    BY <1>7, <2>2 DEF TickEnd, TickReturns, Locks, Sending, Fresh, Told, Serving
  <2>6. Bounded' /\ Rounds'
    BY <1>7, <2>1, <2>3 DEF TickEnd, TickReturns, Bounded, Rounds
  <2> QED
    BY <2>4, <2>5, <2>6
<1>8. CASE ChokerWait
  <2>1. Unchoked' = Unchoked
    BY <1>8 DEF ChokerWait, Unchoked
  <2>2. TypeOK'
    BY <1>8 DEF ChokerWait
  <2>3. Locks' /\ Sending' /\ Fresh' /\ Told' /\ Serving'
    BY <1>8 DEF ChokerWait, Locks, Sending, Fresh, Told, Serving
  <2>4. Bounded' /\ Rounds'
    BY <1>8, <2>1 DEF ChokerWait, Bounded, Rounds
  <2> QED
    BY <2>2, <2>3, <2>4
<1> QED
  BY <1>1, <1>2, <1>3, <1>4, <1>5, <1>6, <1>7, <1>8 DEF Tick

\* SInv holds in every reachable state.
LEMMA SInvAlways == Spec => []SInv
<1>1. SInv /\ [Next]_vars => SInv'
  BY SInvConnStep, SInvRunStep, SInvTickStep DEF Next, Stopped
<1> QED
  BY <1>1, SInvInit, PTL DEF Spec

\* Every variable keeps its type.
THEOREM TypeTheorem == Spec => []TypeOK
BY SInvAlways, PTL DEF SInv

\* Between two rounds no more peers are unchoked than there are slots, however
\* many connect, leave or change their mind while tick works (tick).
THEOREM UnchokedWithinSlotsTheorem == Spec => []UnchokedWithinSlots
<1>1. SInv => UnchokedWithinSlots
  BY DEF SInv, Bounded, Unchoked, UnchokedWithinSlots
<1> QED
  BY <1>1, SInvAlways, PTL

\* Between two rounds every open connection has been told the state it is in:
\* sendChoke and sendUnchoke miss nobody (tick).
THEOREM ToldItsStateTheorem == Spec => []ToldItsState
<1>1. SInv => ToldItsState
  BY SeederAssumption DEF SInv, TypeOK, Sending, Told, ToldItsState
<1> QED
  BY <1>1, SInvAlways, PTL

\* No block follows a Choke on the wire (HandleRequest under writeMu, tick).
THEOREM ChokedNotServedTheorem == Spec => []ChokedNotServed
<1>1. SInv => ChokedNotServed
  BY DEF SInv, TypeOK, Told, Serving, ChokedNotServed
<1> QED
  BY <1>1, SInvAlways, PTL
=============================================================================
