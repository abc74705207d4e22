---------------------------- MODULE BlockExchange ----------------------------
(***************************************************************************)
(* One connection between two clients, at the level of peer messages: the  *)
(* downloading worker (pieceLoop and waitForNewPieces in                   *)
(* internal/downloader/worker.go, GetPiece, getBlocks and WaitForUnchoke   *)
(* in internal/peer/peer.go) and the remote that serves it, which is       *)
(* either a seeder with its choker (internal/seeder) or another worker.    *)
(*                                                                         *)
(* TCP keeps the order of the messages in each direction.  Module          *)
(* Downloader has GetPiece as one step with any outcome; this module is    *)
(* about what happens inside it.  The other workers of the same download   *)
(* appear only through the pieces they complete.                           *)
(***************************************************************************)
EXTENDS Naturals, Sequences, FiniteSets

CONSTANTS
    Pieces,            \* the pieces of the torrent
    NumBlocks,         \* blocks of a piece
    MaxPipeline,       \* internal.MaxPipelineRequests
    EndgameThreshold,  \* pieces remaining at which endgame starts, 0 = never
    Remotes,           \* the kinds of remote: "seeder", "worker"
    MaxChanges,        \* bound: how often the choker changes its mind
    NoPiece            \* no piece

ASSUME BlockExchangeAssumption ==
    /\ IsFiniteSet(Pieces) /\ NoPiece \notin Pieces
    /\ NumBlocks \in Nat \ {0}
    /\ MaxPipeline \in Nat \ {0}
    /\ EndgameThreshold \in Nat
    /\ Remotes \subseteq {"seeder", "worker"}
    /\ MaxChanges \in Nat

VARIABLES
    alive,       \* the connection is up
    toRemote,    \* messages on their way to the remote
    toClient,    \* messages on their way to the worker
    pc,          \* where the worker is
    bitfield,    \* peer.BitField: the pieces the remote is known to have
    piece,       \* the piece being downloaded
    cancelCh,    \* the cancel channel given to GetPiece: none, open, closed
    requested,   \* blocks requested in this getBlocks
    blocks,      \* blocks received in this getBlocks, in order of arrival
    endgame,     \* pm.endgameActivated
    completed,   \* the completed pieces, whoever downloaded them
    leftBehind,  \* (history) getBlocks has returned with an answer still to come
    remote,      \* what the remote is: a seeder or a worker
    has,         \* the pieces the remote has
    amChoking,   \* the remote's AmChoking
    interested,  \* the seeder's interested flag
    choker,      \* "idle", or "send": flag set, message not yet written
    changes,     \* how often the choker has changed its mind
    ignored      \* (history) a request got no answer because GetBlock failed

clientVars == <<pc, bitfield, piece, cancelCh, requested, blocks, endgame,
                completed, leftBehind>>
remoteVars == <<remote, has, amChoking, interested, choker, changes, ignored>>
vars == <<alive, toRemote, toClient, clientVars, remoteVars>>

Block == [piece : Pieces, block : 1..NumBlocks]

\* Messages.  Those without a payload are records of their type alone.
Request(p, b) == [type |-> "request", piece |-> p, block |-> b]
Cancel(p, b) == [type |-> "cancel", piece |-> p, block |-> b]
Piece(p, b) == [type |-> "piece", piece |-> p, block |-> b]
Have(p) == [type |-> "have", piece |-> p]
Plain(t) == [type |-> t]

Requests == {Request(p, b) : p \in Pieces, b \in 1..NumBlocks}
PieceMessages == {Piece(p, b) : p \in Pieces, b \in 1..NumBlocks}

ToRemote ==
    Requests \cup {Cancel(p, b) : p \in Pieces, b \in 1..NumBlocks}
             \cup {Plain("interested"), Plain("notInterested")}
ToClient ==
    PieceMessages \cup {Have(p) : p \in Pieces}
                  \cup {Plain("choke"), Plain("unchoke")}

\* The messages of a channel that are in a set.
Pending(chan, msgs) == {i \in DOMAIN chan : chan[i] \in msgs}

TypeOK ==
    /\ alive \in BOOLEAN /\ remote \in Remotes
    /\ toRemote \in Seq(ToRemote)
    /\ toClient \in Seq(ToClient)
    /\ pc \in {"loop", "assigned", "top", "send", "read", "unchoke", "wait",
               "ended"}
    /\ bitfield \subseteq has
    /\ has \subseteq Pieces
    /\ piece \in Pieces \cup {NoPiece}
    /\ cancelCh \in {"none", "open", "closed"}
    /\ requested \in 0..NumBlocks
    /\ blocks \in Seq(Block) /\ Len(blocks) <= requested
    /\ endgame \in BOOLEAN /\ leftBehind \in BOOLEAN
    /\ completed \subseteq Pieces
    /\ amChoking \in BOOLEAN /\ interested \in BOOLEAN
    /\ choker \in {"idle", "send"}
    /\ changes \in 0..MaxChanges /\ ignored \in BOOLEAN

\* The worker has sent Interested at the end of setup and waits to be unchoked.
\* A worker at the other end has unchoked us in its own setup, for good.
Init ==
    /\ alive = TRUE
    /\ remote \in Remotes
    /\ has \in (IF remote = "seeder" THEN {Pieces} ELSE SUBSET Pieces)
    /\ bitfield = has
    /\ toRemote = <<Plain("interested")>>
    /\ toClient = IF remote = "seeder" THEN <<>> ELSE <<Plain("unchoke")>>
    /\ amChoking = (remote = "seeder")
    /\ interested = FALSE /\ choker = "idle" /\ changes = 0 /\ ignored = FALSE
    /\ pc = "unchoke"
    /\ piece = NoPiece /\ cancelCh = "none" /\ requested = 0 /\ blocks = <<>>
    /\ endgame = FALSE /\ completed = {} /\ leftBehind = FALSE

Goto(l) == pc' = l

\* The worker writes a message; on a broken connection it is lost.
Write(msg) == toRemote' = IF alive THEN Append(toRemote, msg) ELSE toRemote

\* ReadMessage returns msg.
ReadMessage(msg) ==
    /\ toClient # <<>> /\ msg = Head(toClient)
    /\ toClient' = Tail(toClient)

\* ReadMessage fails: what had arrived before the connection broke is read first.
ReadFails == toClient = <<>> /\ ~alive

-----------------------------------------------------------------------------
(* pieceLoop *)

InEndgame ==
    EndgameThreshold > 0 /\ Cardinality(Pieces \ completed) <= EndgameThreshold

\* pm.Assign returns a piece.
Assign(p) ==
    /\ pc = "loop" /\ completed # Pieces
    /\ p \in bitfield \ completed
    /\ piece' = p
    /\ endgame' = (endgame \/ InEndgame)
    /\ Goto("assigned")
    /\ UNCHANGED <<alive, toRemote, toClient, bitfield, cancelCh, requested, blocks,
                   completed, leftBehind, remoteVars>>

\* pm.Assign returns nothing: the remote has no piece that is left, or those it
\* has are all in progress at other workers and it is not endgame.  The worker
\* says that it is not interested, and waits.
AssignNone ==
    /\ pc = "loop" /\ completed # Pieces
    /\ bitfield \subseteq completed \/ ~InEndgame
    /\ endgame' = (endgame \/ InEndgame)
    /\ Write(Plain("notInterested"))
    /\ Goto("wait")
    /\ UNCHANGED <<alive, toClient, bitfield, piece, cancelCh, requested, blocks,
                   completed, leftBehind, remoteVars>>

\* pm.Done, at the top of pieceLoop or of waitForNewPieces.
Finish ==
    /\ pc \in {"loop", "wait"} /\ completed = Pieces
    /\ Goto("ended")
    /\ UNCHANGED <<alive, toRemote, toClient, bitfield, piece, cancelCh, requested,
                   blocks, endgame, completed, leftBehind, remoteVars>>

\* IsEndgame and CancelCh, then GetPiece up to the loop of getBlocks.  If the
\* piece was completed since Assign, this channel is new and stays open.
StartGetPiece ==
    /\ pc = "assigned"
    /\ cancelCh' = IF endgame THEN "open" ELSE "none"
    /\ Goto("top")
    /\ UNCHANGED <<alive, toRemote, toClient, bitfield, piece, requested, blocks,
                   endgame, completed, leftBehind, remoteVars>>

\* GetPiece returns: its variables go out of scope.
Leave(l) ==
    /\ Goto(l)
    /\ piece' = NoPiece /\ cancelCh' = "none" /\ requested' = 0 /\ blocks' = <<>>

-----------------------------------------------------------------------------
(* getBlocks *)

\* cancelInFlight: a Cancel for each block requested and not received.
Cancels == [i \in 1..(requested - Len(blocks)) |-> Cancel(piece, Len(blocks) + i)]

\* Requests the remote has still to read, or blocks the worker has still to read.
UnderWay == Pending(toRemote, Requests) # {} \/ Pending(toClient, PieceMessages) # {}

\* The top of the loop, with the cancel channel closed: ErrPieceCancelled.
CancelInFlight ==
    /\ pc = "top" /\ cancelCh = "closed"
    /\ toRemote' = IF alive THEN toRemote \o Cancels ELSE toRemote
    /\ leftBehind' = (leftBehind \/ UnderWay)
    /\ Leave("loop")
    /\ UNCHANGED <<alive, toClient, bitfield, endgame, completed, remoteVars>>

Continue ==
    /\ pc = "top" /\ cancelCh # "closed"
    /\ Goto("send")
    /\ UNCHANGED <<alive, toRemote, toClient, bitfield, piece, cancelCh, requested,
                   blocks, endgame, completed, leftBehind, remoteVars>>

\* Mutant: requests go on past the end of the piece.
MutMayRequest == requested - Len(blocks) < MaxPipeline

MayRequest == requested < NumBlocks /\ requested - Len(blocks) < MaxPipeline

\* sendRequestOnly.  A failed write ends GetPiece with an error.
SendRequest ==
    /\ pc = "send" /\ MayRequest
    /\ \/ /\ Write(Request(piece, requested + 1))
          /\ requested' = requested + 1
          /\ UNCHANGED <<pc, piece, cancelCh, blocks>>
       \/ /\ ~alive
          /\ Leave("loop")
          /\ UNCHANGED toRemote
    /\ UNCHANGED <<alive, toClient, bitfield, endgame, completed, leftBehind,
                   remoteVars>>

EndSend ==
    /\ pc = "send" /\ ~MayRequest
    /\ Goto("read")
    /\ UNCHANGED <<alive, toRemote, toClient, bitfield, piece, cancelCh, requested,
                   blocks, endgame, completed, leftBehind, remoteVars>>

\* The blocks of the piece, in order: what the hash of the piece stands for.
Expected(p) == [i \in 1..NumBlocks |-> [piece |-> p, block |-> i]]

\* A block: it is stored at the next place, whatever its index and offset say.
ReadBlock(p, b) ==
    /\ pc = "read" /\ ReadMessage(Piece(p, b))
    /\ LET got == Append(blocks, [piece |-> p, block |-> b])
       IN  IF Len(got) < NumBlocks
           THEN /\ blocks' = got
                /\ Goto("top")
                /\ UNCHANGED <<piece, cancelCh, requested, completed>>
           ELSE \* The hash of the piece: pm.Complete, or pm.Release.
                /\ completed' = IF got = Expected(piece) THEN completed \cup {piece}
                                ELSE completed
                /\ Leave("loop")
    /\ UNCHANGED <<alive, toRemote, bitfield, endgame, leftBehind, remoteVars>>

\* Mutant: getBlocks goes on after a Choke.
MutReadChoke ==
    /\ pc = "read" /\ ReadMessage(Plain("choke"))
    /\ Goto("top")
    /\ UNCHANGED <<alive, toRemote, bitfield, piece, cancelCh, requested, blocks,
                   endgame, completed, leftBehind, remoteVars>>

\* A Choke: ErrChoked.  What was received of the piece is lost, the piece is
\* released, and pieceLoop waits for an Unchoke.
ReadChoke ==
    /\ pc = "read" /\ ReadMessage(Plain("choke"))
    /\ leftBehind' = (leftBehind \/ UnderWay)
    /\ Leave("unchoke")
    /\ UNCHANGED <<alive, toRemote, bitfield, endgame, completed, remoteVars>>

\* Have and Unchoke.
ReadOther ==
    /\ pc = "read"
    /\ \/ ReadMessage(Plain("unchoke")) /\ UNCHANGED bitfield
       \/ \E p \in Pieces : ReadMessage(Have(p)) /\ bitfield' = bitfield \cup {p}
    /\ Goto("top")
    /\ UNCHANGED <<alive, toRemote, piece, cancelCh, requested, blocks, endgame,
                   completed, leftBehind, remoteVars>>

\* The connection is broken: pm.Release, and pieceLoop goes on.
GetBlocksFails ==
    /\ pc = "read" /\ ReadFails
    /\ Leave("loop")
    /\ UNCHANGED <<alive, toRemote, toClient, bitfield, endgame, completed,
                   leftBehind, remoteVars>>

-----------------------------------------------------------------------------
(* WaitForUnchoke, waitForNewPieces *)

\* One message in WaitForUnchoke.  Blocks and Chokes are dropped.
WaitForUnchoke ==
    /\ pc = "unchoke"
    /\ \E msg \in ToClient :
         /\ ReadMessage(msg)
         /\ Goto(IF msg = Plain("unchoke") THEN "loop" ELSE pc)
         /\ bitfield' = IF msg.type = "have" THEN bitfield \cup {msg.piece} ELSE bitfield
    /\ UNCHANGED <<alive, toRemote, piece, cancelCh, requested, blocks, endgame,
                   completed, leftBehind, remoteVars>>

\* One message in waitForNewPieces.  After a Have, if some piece the remote has
\* is pending (left, and not in progress elsewhere), the worker is interested
\* again and waits for an Unchoke.
WaitForNewPieces ==
    /\ pc = "wait" /\ completed # Pieces
    /\ \E msg \in ToClient :
         /\ ReadMessage(msg)
         /\ IF msg.type = "have"
            THEN /\ bitfield' = bitfield \cup {msg.piece}
                 /\ \/ /\ bitfield' \ completed # {}
                       /\ Write(Plain("interested"))
                       /\ Goto("unchoke")
                    \/ UNCHANGED <<toRemote, pc>>
            ELSE UNCHANGED <<bitfield, toRemote, pc>>
    /\ UNCHANGED <<alive, piece, cancelCh, requested, blocks, endgame, completed,
                   leftBehind, remoteVars>>

\* The 30 s deadline in waitForNewPieces (its error is wrapped, so the test for
\* a timeout fails), or a broken connection: the worker ends.
WaitFails ==
    /\ \/ pc = "wait"
       \/ pc = "unchoke" /\ ReadFails
    /\ Goto("ended")
    /\ UNCHANGED <<alive, toRemote, toClient, bitfield, piece, cancelCh, requested,
                   blocks, endgame, completed, leftBehind, remoteVars>>

-----------------------------------------------------------------------------
(* The other workers, the network *)

\* pm.Complete by another worker: it closes the cancel channel of the piece.  A
\* piece this worker downloads is also with another one only in endgame.
OtherCompletes(p) ==
    /\ p \notin completed
    /\ p = piece => endgame
    /\ completed' = completed \cup {p}
    /\ cancelCh' = IF p = piece /\ cancelCh = "open" THEN "closed" ELSE cancelCh
    /\ UNCHANGED <<alive, toRemote, toClient, pc, bitfield, piece, requested, blocks,
                   endgame, leftBehind, remoteVars>>

\* The remote closes the connection, or it breaks: what is on its way to the
\* remote is lost.
Breaks ==
    /\ alive /\ alive' = FALSE
    /\ toRemote' = <<>>
    /\ UNCHANGED <<toClient, clientVars, remoteVars>>

-----------------------------------------------------------------------------
(* The remote *)

Send(msg) == toClient' = Append(toClient, msg)

\* HandleRequest, under writeMu: dropped without an answer when the peer is
\* choked or the piece is not there, and also when GetBlock cannot read it from
\* the disk.
HandleRequest(p, b) ==
    /\ alive
    /\ toRemote # <<>> /\ Head(toRemote) = Request(p, b)
    /\ toRemote' = Tail(toRemote)
    /\ IF ~amChoking /\ p \in has
       THEN \/ Send(Piece(p, b)) /\ UNCHANGED ignored
            \/ ignored' = TRUE /\ UNCHANGED toClient
       ELSE UNCHANGED <<toClient, ignored>>
    /\ UNCHANGED <<alive, clientVars, remote, has, amChoking, interested, choker,
                   changes>>

\* The other messages the remote reads: interest is noted, a Cancel is ignored.
Serve ==
    /\ alive
    /\ toRemote # <<>> /\ Head(toRemote) \notin Requests
    /\ toRemote' = Tail(toRemote)
    /\ interested' = CASE Head(toRemote) = Plain("interested") -> TRUE
                       [] Head(toRemote) = Plain("notInterested") -> FALSE
                       [] OTHER -> interested
    /\ UNCHANGED <<alive, toClient, clientVars, remote, has, amChoking, choker,
                   changes, ignored>>

\* The choker changes the flag.  Only an interested peer is unchoked.  A round
\* waits for nothing: what was sent before it may all be under way.
ChokerDecides ==
    /\ remote = "seeder" /\ choker = "idle" /\ alive
    /\ changes < MaxChanges
    /\ amChoking => interested
    /\ amChoking' = ~amChoking
    /\ choker' = "send"
    /\ changes' = changes + 1
    /\ UNCHANGED <<alive, toRemote, toClient, clientVars, remote, has, interested,
                   ignored>>

\* Mutant: a Choke is not sent.
MutChokerSends ==
    /\ choker = "send"
    /\ choker' = "idle"
    /\ IF alive /\ ~amChoking THEN Send(Plain("unchoke")) ELSE UNCHANGED toClient
    /\ UNCHANGED <<alive, toRemote, clientVars, remote, has, amChoking, interested,
                   changes, ignored>>

\* sendChoke or sendUnchoke, under writeMu.
ChokerSends ==
    /\ choker = "send"
    /\ choker' = "idle"
    /\ IF alive THEN Send(Plain(IF amChoking THEN "choke" ELSE "unchoke"))
                ELSE UNCHANGED toClient
    /\ UNCHANGED <<alive, toRemote, clientVars, remote, has, amChoking, interested,
                   changes, ignored>>

\* The worker at the other end gets a piece and says so (sendPendingHaves).
RemoteCompletes(p) ==
    /\ remote = "worker" /\ alive
    /\ p \notin has
    /\ has' = has \cup {p}
    /\ Send(Have(p))
    /\ UNCHANGED <<alive, toRemote, clientVars, remote, amChoking, interested, choker,
                   changes, ignored>>

\* The worker has left pieceLoop.
Stopped == pc = "ended" /\ UNCHANGED vars

-----------------------------------------------------------------------------

GetBlocks ==
    \/ CancelInFlight \/ Continue \/ SendRequest \/ EndSend
    \/ \E p \in Pieces, b \in 1..NumBlocks : ReadBlock(p, b)
    \/ ReadChoke \/ ReadOther \/ GetBlocksFails

Worker ==
    \/ \E p \in Pieces : Assign(p)
    \/ AssignNone \/ Finish \/ StartGetPiece
    \/ GetBlocks
    \/ WaitForUnchoke \/ WaitForNewPieces \/ WaitFails

RemoteReads == Serve \/ \E p \in Pieces, b \in 1..NumBlocks : HandleRequest(p, b)

Next ==
    \/ Worker
    \/ RemoteReads
    \/ ChokerDecides \/ ChokerSends
    \/ \E p \in Pieces : OtherCompletes(p) \/ RemoteCompletes(p)
    \/ Breaks
    \/ Stopped

Spec == Init /\ [][Next]_vars

\* The goroutines at both ends run.  Nothing is assumed about when the choker
\* changes its mind, pieces are completed elsewhere, or the connection breaks.
FairSpec ==
    /\ Spec
    /\ WF_vars(Worker)
    /\ WF_vars(RemoteReads)
    /\ WF_vars(ChokerSends)

-----------------------------------------------------------------------------
(* Properties *)

InGetBlocks == pc \in {"top", "send", "read"}

\* As long as getBlocks leaves nothing under way when it gives up a piece, and
\* GetBlock reads what it is asked for, what getBlocks has stored, what is on its
\* way back and what is still on its way there are together the blocks it asked
\* for, in order.  Requests dropped by a choking remote disturb nothing, however
\* many Chokes and Unchokes follow one another on the wire, since the Choke is
\* read before any block of a later answer (getBlocks, HandleRequest, tick).
BlocksAsRequested ==
    alive /\ ~leftBehind /\ ~ignored /\ InGetBlocks =>
        /\ blocks = SubSeq(Expected(piece), 1, Len(blocks))
        /\ Cardinality(Pending(toClient, PieceMessages))
             + Cardinality(Pending(toRemote, Requests)) <= requested - Len(blocks)
        /\ ~amChoking /\ choker = "idle"
             /\ Pending(toClient, {Plain("choke")}) = {} =>
                 Cardinality(Pending(toClient, PieceMessages))
                   + Cardinality(Pending(toRemote, Requests)) = requested - Len(blocks)

\* getBlocks, which reads without a deadline, does not wait for ever unless
\* GetBlock has failed: each request is answered by a block, or was dropped
\* because of a choke, and then a Choke is read after it, although the choker may
\* unchoke the peer before that (getBlocks, HandleRequest, tick).
GetBlocksReturns == InGetBlocks ~> ~InGetBlocks \/ ignored

\* "In endgame mode, get a cancel channel so we can abort if another worker
\* completes this piece first, sending Cancel for in-flight blocks": the
\* piece after an aborted one consists of its own blocks.
AbortIsClean ==
    alive /\ ~ignored /\ InGetBlocks => blocks = SubSeq(Expected(piece), 1, Len(blocks))

=============================================================================
