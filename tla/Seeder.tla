------------------------------- MODULE Seeder -------------------------------
(***************************************************************************)
(* The seeder (internal/seeder): the accept loop with its limit on peers,  *)
(* one goroutine per connection, the choker and the shutdown in Run.       *)
(*                                                                         *)
(* Peer.AmChoking and SeedPeer.interested are shared without a lock: the   *)
(* choker sets one and reads the other, the serve loops do the opposite,   *)
(* one flag a step.  writeMu orders what is written to a connection.  The  *)
(* only caller passes no Have channel, so there is no Have broadcaster.    *)
(***************************************************************************)
EXTENDS Naturals, FiniteSets

CONSTANTS
    Conns,         \* the connections that are made to the listener
    MaxPeers,      \* config.MaxPeers
    UnchokeSlots,  \* config.UnchokeSlots
    None           \* no connection, no message

ASSUME SeederAssumption ==
    /\ IsFiniteSet(Conns)
    /\ MaxPeers \in Nat
    /\ UnchokeSlots \in Nat
    /\ None \notin Conns \cup {"choke", "unchoke"}

VARIABLES
    ctx,         \* the context passed to Run
    run,         \* where Run is
    accept,      \* where the accept loop is
    pc,          \* pc[c]: where handleConn or serve is, for connection c
    alive,       \* alive[c]: neither side has closed the connection
    peers,       \* the keys of s.peers
    interested,  \* interested[c]: sp.interested
    amChoking,   \* amChoking[c]: sp.peer.AmChoking
    writeMu,     \* writeMu[c]: free, or held by the serve loop or the choker
    told,        \* told[c]: the last Choke or Unchoke written to c
    choker,      \* where the choker is
    scan,        \* peers of this round that tick has not looked at yet
    found,       \* peers of this round that tick found interested
    round,       \* the peers of this round
    toUnchoke,   \* the peers chosen in this round
    current      \* the peer tick is sending to

runVars == <<ctx, run, accept>>
connVars == <<pc, alive, peers, interested, amChoking, writeMu, told>>
chokerVars == <<choker, scan, found, round, toUnchoke, current>>
vars == <<runVars, connVars, chokerVars>>

PC == {"none", "handshake", "top", "read", "write", "ended"}

TypeOK ==
    /\ ctx \in {"open", "done"}
    /\ run \in {"listen", "closePeers", "wait", "returned"}
    /\ accept \in {"accept", "ended"}
    /\ pc \in [Conns -> PC]
    /\ alive \in [Conns -> BOOLEAN]
    /\ peers \subseteq Conns
    /\ interested \in [Conns -> BOOLEAN]
    /\ amChoking \in [Conns -> BOOLEAN]
    /\ writeMu \in [Conns -> {"free", "serve", "choker"}]
    /\ told \in [Conns -> {"choke", "unchoke", None}]
    /\ choker \in {"tick", "scan", "apply", "lock", "send", "idle", "ended"}
    /\ scan \subseteq round /\ found \subseteq round
    /\ round \subseteq Conns /\ toUnchoke \subseteq Conns
    /\ current \in Conns \cup {None}

\* Run has opened the listener and started its goroutines.
Init ==
    /\ ctx = "open" /\ run = "listen" /\ accept = "accept"
    /\ pc = [c \in Conns |-> "none"]
    /\ alive = [c \in Conns |-> FALSE]
    /\ peers = {}
    /\ interested = [c \in Conns |-> FALSE]
    /\ amChoking = [c \in Conns |-> TRUE]
    /\ writeMu = [c \in Conns |-> "free"]
    /\ told = [c \in Conns |-> None]
    /\ choker = "tick"
    /\ scan = {} /\ found = {} /\ round = {} /\ toUnchoke = {} /\ current = None

Goto(c, l) == pc' = [pc EXCEPT ![c] = l]

-----------------------------------------------------------------------------
(* acceptLoop *)

\* Accept returns a connection: the limit, and the goroutine of the connection.
\* A connection counts only once its handshake is over.
Accept(c) ==
    /\ accept = "accept" /\ run = "listen"
    /\ pc[c] = "none"
    /\ IF Cardinality(peers) >= MaxPeers
       THEN Goto(c, "ended") /\ UNCHANGED alive
       ELSE Goto(c, "handshake") /\ alive' = [alive EXCEPT ![c] = TRUE]
    /\ UNCHANGED <<runVars, peers, interested, amChoking, writeMu, told,
                   chokerVars>>

\* Accept fails because the listener is closed.
AcceptEnds ==
    /\ accept = "accept" /\ run # "listen"
    /\ accept' = "ended"
    /\ UNCHANGED <<ctx, run, connVars, chokerVars>>

-----------------------------------------------------------------------------
(* handleConn *)

\* ServerHandshake, SendBitfield and the extension handshake succeed: addPeer.
\* Of these only the first has a deadline.
AddPeer(c) ==
    /\ pc[c] = "handshake"
    /\ peers' = peers \cup {c}
    /\ Goto(c, "top")
    /\ UNCHANGED <<runVars, alive, interested, amChoking, writeMu, told,
                   chokerVars>>

\* The end of handleConn: removePeer, if addPeer was called, and Close.
Leave(c) ==
    /\ peers' = peers \ {c}
    /\ alive' = [alive EXCEPT ![c] = FALSE]
    /\ Goto(c, "ended")
    /\ UNCHANGED <<runVars, interested, amChoking, writeMu, told, chokerVars>>

HandshakeFails(c) == pc[c] = "handshake" /\ Leave(c)

-----------------------------------------------------------------------------
(* serve *)

\* The select at the top of the loop.
ServeTop(c) ==
    /\ pc[c] = "top"
    /\ \/ ctx = "done" /\ Leave(c)
       \/ /\ ctx = "open"
          /\ Goto(c, "read")
          /\ UNCHANGED <<runVars, alive, peers, interested, amChoking, writeMu,
                         told, chokerVars>>

\* ReadMessage fails.
ReadFails(c) == pc[c] = "read" /\ ~alive[c] /\ Leave(c)

\* Interested, NotInterested, and the messages without effect here.
ReadInterest(c) ==
    /\ pc[c] = "read" /\ alive[c]
    /\ \E b \in BOOLEAN : interested' = [interested EXCEPT ![c] = b]
    /\ Goto(c, "top")
    /\ UNCHANGED <<runVars, alive, peers, amChoking, writeMu, told, chokerVars>>

\* Mutant: the request is served without writeMu.
MutHandleRequest(c) ==
    /\ pc[c] = "read" /\ alive[c]
    /\ Goto(c, IF amChoking[c] THEN "top" ELSE "write")
    /\ UNCHANGED <<runVars, alive, peers, interested, amChoking, writeMu, told,
                   chokerVars>>

\* A Request: writeMu is taken, and HandleRequest looks at AmChoking.
HandleRequest(c) ==
    /\ pc[c] = "read" /\ alive[c]
    /\ writeMu[c] = "free"
    /\ IF amChoking[c]
       THEN Goto(c, "top") /\ UNCHANGED writeMu
       ELSE Goto(c, "write") /\ writeMu' = [writeMu EXCEPT ![c] = "serve"]
    /\ UNCHANGED <<runVars, alive, peers, interested, amChoking, told, chokerVars>>

\* The block is written, or the write fails; an error is only logged.
WriteBlock(c) ==
    /\ pc[c] = "write"
    /\ writeMu' = [writeMu EXCEPT ![c] = "free"]
    /\ Goto(c, "top")
    /\ UNCHANGED <<runVars, alive, peers, interested, amChoking, told, chokerVars>>

\* The remote peer closes the connection, or the connection breaks.
PeerCloses(c) ==
    /\ alive[c]
    /\ alive' = [alive EXCEPT ![c] = FALSE]
    /\ UNCHANGED <<runVars, pc, peers, interested, amChoking, writeMu, told,
                   chokerVars>>

-----------------------------------------------------------------------------
(* Choker.Run and tick *)

\* Mutant: the round works on the list of peers of the round before.
MutTickStart ==
    /\ choker = "tick"
    /\ scan' = peers
    /\ found' = {} /\ toUnchoke' = {}
    /\ choker' = "scan"
    /\ UNCHANGED <<runVars, connVars, round, current>>

\* getPeers.
TickStart ==
    /\ choker = "tick"
    /\ round' = peers /\ scan' = peers
    /\ found' = {} /\ toUnchoke' = {}
    /\ choker' = "scan"
    /\ UNCHANGED <<runVars, connVars, current>>

\* tick looks at the interested flag of one peer.
TickScan(c) ==
    /\ choker = "scan" /\ c \in scan
    /\ scan' = scan \ {c}
    /\ found' = IF interested[c] THEN found \cup {c} ELSE found
    /\ UNCHANGED <<runVars, connVars, choker, round, toUnchoke, current>>

Limit == IF UnchokeSlots > Cardinality(found) THEN Cardinality(found) ELSE UnchokeSlots

\* tick returns; its variables go out of scope.
TickReturns ==
    /\ choker' = "idle"
    /\ scan' = {} /\ found' = {} /\ round' = {} /\ toUnchoke' = {}

\* The shuffle and the choice; tick returns early if nobody is interested.
TickChoose ==
    /\ choker = "scan" /\ scan = {}
    /\ IF found = {}
       THEN TickReturns
       ELSE /\ \E s \in SUBSET found : Cardinality(s) = Limit /\ toUnchoke' = s
            /\ scan' = round
            /\ choker' = "apply"
            /\ UNCHANGED <<found, round>>
    /\ UNCHANGED <<runVars, connVars, current>>

\* Mutant: the peers of the round before are not choked.
MutTickApply(c) ==
    /\ choker = "apply" /\ c \in scan
    /\ scan' = scan \ {c}
    /\ IF c \in toUnchoke /\ amChoking[c]
       THEN /\ amChoking' = [amChoking EXCEPT ![c] = FALSE]
            /\ current' = c
            /\ choker' = "lock"
       ELSE UNCHANGED <<amChoking, current, choker>>
    /\ UNCHANGED <<runVars, pc, alive, peers, interested, writeMu, told, found,
                   round, toUnchoke>>

\* tick decides about one peer: the flag is set before the message is sent.
TickApply(c) ==
    /\ choker = "apply" /\ c \in scan
    /\ scan' = scan \ {c}
    /\ IF (c \in toUnchoke) = amChoking[c]
       THEN /\ amChoking' = [amChoking EXCEPT ![c] = c \notin toUnchoke]
            /\ current' = c
            /\ choker' = "lock"
       ELSE UNCHANGED <<amChoking, current, choker>>
    /\ UNCHANGED <<runVars, pc, alive, peers, interested, writeMu, told, found,
                   round, toUnchoke>>

\* sendChoke or sendUnchoke takes writeMu.
TickLock ==
    /\ choker = "lock"
    /\ writeMu[current] = "free"
    /\ writeMu' = [writeMu EXCEPT ![current] = "choker"]
    /\ choker' = "send"
    /\ UNCHANGED <<runVars, pc, alive, peers, interested, amChoking, told, scan,
                   found, round, toUnchoke, current>>

\* Mutant: sendChoke writes an Unchoke.
MutTickSend ==
    /\ choker = "send"
    /\ told' = IF alive[current] THEN [told EXCEPT ![current] = "unchoke"] ELSE told
    /\ writeMu' = [writeMu EXCEPT ![current] = "free"]
    /\ choker' = "apply"
    /\ current' = None
    /\ UNCHANGED <<runVars, pc, alive, peers, interested, amChoking, scan, found,
                   round, toUnchoke>>

\* The message is written, unless the connection is closed.
TickSend ==
    /\ choker = "send"
    /\ told' = IF alive[current]
               THEN [told EXCEPT ![current] =
                       IF amChoking[current] THEN "choke" ELSE "unchoke"]
               ELSE told
    /\ writeMu' = [writeMu EXCEPT ![current] = "free"]
    /\ choker' = "apply"
    /\ current' = None
    /\ UNCHANGED <<runVars, pc, alive, peers, interested, amChoking, scan, found,
                   round, toUnchoke>>

TickEnd ==
    /\ choker = "apply" /\ scan = {}
    /\ TickReturns
    /\ UNCHANGED <<runVars, connVars, current>>

\* The select of Run: the context, or the ticker.
ChokerWait ==
    /\ choker = "idle"
    /\ \/ ctx = "done" /\ choker' = "ended"
       \/ choker' = "tick"
    /\ UNCHANGED <<runVars, connVars, scan, found, round, toUnchoke, current>>

-----------------------------------------------------------------------------
(* Run *)

Cancel ==
    /\ ctx = "open"
    /\ ctx' = "done"
    /\ UNCHANGED <<run, accept, connVars, chokerVars>>

\* ctx.Done: the listener is closed.
CloseListener ==
    /\ run = "listen" /\ ctx = "done"
    /\ run' = "closePeers"
    /\ UNCHANGED <<ctx, accept, connVars, chokerVars>>

\* Mutant: the peers are dropped, their connections are left open.
MutClosePeers ==
    /\ run = "closePeers"
    /\ peers' = {}
    /\ run' = "wait"
    /\ UNCHANGED <<ctx, accept, pc, alive, interested, amChoking, writeMu, told,
                   chokerVars>>

\* Under s.mu: the connection of every peer in the map is closed.
ClosePeers ==
    /\ run = "closePeers"
    /\ alive' = [c \in Conns |-> alive[c] /\ c \notin peers]
    /\ peers' = {}
    /\ run' = "wait"
    /\ UNCHANGED <<ctx, accept, pc, interested, amChoking, writeMu, told,
                   chokerVars>>

\* wg.Wait returns.
Return ==
    /\ run = "wait"
    /\ accept = "ended" /\ choker = "ended"
    /\ \A c \in Conns : pc[c] \in {"none", "ended"}
    /\ run' = "returned"
    /\ UNCHANGED <<ctx, accept, connVars, chokerVars>>

Stopped == run = "returned" /\ UNCHANGED vars

-----------------------------------------------------------------------------

\* Steps of the goroutine of c that do not wait for the remote peer.
Local(c) == ServeTop(c) \/ ReadFails(c)

\* The handshakes end.
Handshake(c) == AddPeer(c) \/ HandshakeFails(c)

Read(c) == ReadInterest(c) \/ HandleRequest(c)

Tick ==
    \/ TickStart \/ TickChoose \/ TickLock \/ TickEnd \/ ChokerWait
    \/ \E c \in Conns : TickScan(c) \/ TickApply(c)

Shutdown == CloseListener \/ ClosePeers \/ Return

Next ==
    \/ \E c \in Conns : Accept(c)
    \/ AcceptEnds
    \/ \E c \in Conns : Handshake(c) \/ Local(c) \/ Read(c) \/ WriteBlock(c)
                        \/ PeerCloses(c)
    \/ Tick \/ TickSend
    \/ Cancel \/ Shutdown \/ Stopped

Spec == Init /\ [][Next]_vars

\* Goroutines that are not blocked run, and a write to a closed connection
\* returns.  When both the ticker and the context are ready Go chooses at random,
\* so the context is chosen in the end.  Nothing makes a handshake end: the read
\* of the extension handshake has no deadline.
FairSpec ==
    /\ Spec
    /\ WF_vars(AcceptEnds)
    /\ \A c \in Conns : /\ WF_vars(Local(c))
                        /\ WF_vars(~alive[c] /\ WriteBlock(c))
    /\ WF_vars(Tick)
    /\ SF_vars(ctx = "done" /\ ChokerWait /\ choker' = "ended")
    /\ WF_vars(choker = "send" /\ ~alive[current] /\ TickSend)
    /\ WF_vars(Shutdown)

-----------------------------------------------------------------------------
(* Properties *)

\* Between two rounds no more peers are unchoked than there are slots,
\* although peers come, go and change their mind during the rounds (tick).
UnchokedWithinSlots ==
    choker = "idle" =>
        Cardinality({c \in peers : ~amChoking[c]}) <= UnchokeSlots

\* Between two rounds a connected peer has been told the state it is in.
ToldItsState ==
    choker = "idle" =>
        \A c \in peers : alive[c] => (told[c] = "unchoke" <=> ~amChoking[c])

\* No block follows a Choke on the wire before the choker has decided to
\* unchoke the peer again (tick sets AmChoking before sendChoke takes writeMu,
\* and HandleRequest looks at it with writeMu held).
ChokedNotServed ==
    \A c \in Conns : pc[c] = "write" /\ alive[c] => ~(amChoking[c] /\ told[c] = "choke")

\* Run returns once its context is cancelled, whatever phase the connections
\* are in, unless a peer that is not in s.peers yet never ends the extension
\* handshake (Run, acceptLoop, handleConn, serve).
RunReturns ==
    (\A c \in Conns : []<>(pc[c] # "handshake")) => (ctx = "done" ~> run = "returned")

=============================================================================
