----------------------------- MODULE Downloader -----------------------------
(***************************************************************************)
(* A download: Downloader.Download, one Worker goroutine per peer, the PEX *)
(* worker spawner, the goroutine that closes the results channel and the   *)
(* collector (internal/downloader/downloader.go and worker.go), over the   *)
(* shared piece manager.                                                   *)
(*                                                                         *)
(* A worker is one goroutine with its own connection; pc[w] is the         *)
(* statement it is about to execute.  What the remote peer sends, or that  *)
(* its connection fails, is a choice of the environment in the steps that  *)
(* read from the connection.  Two workers may have the same address: the   *)
(* tracker's peer list is used as it comes.                                *)
(***************************************************************************)
EXTENDS PieceManager

CONSTANTS
    Workers,           \* worker goroutines, started at first or by PEX
    InitialWorkers,    \* the min(MaxWorkers, len(peers)) started by Download
    AddrOf,            \* AddrOf[w]: the address of the peer of worker w
    NoPiece,           \* the value of piece[w] outside the loop body
    Offers,            \* the bitfields a peer may send
    PexCap,            \* capacity of the PEX discovered channel
    MaxAvailability    \* bound on availability in steps that only raise it

ASSUME DownloaderAssumption ==
    /\ Subscribers = Workers
    /\ IsFiniteSet(Workers)
    /\ InitialWorkers \subseteq Workers
    /\ EndgameThreshold = Cardinality(InitialWorkers)
    /\ AddrOf \in [Workers -> Addrs]
    /\ NoPiece \notin Pieces
    /\ Offers \subseteq SUBSET Pieces
    /\ PexCap \in Nat \ {0}
    /\ MaxAvailability \in Nat

VARIABLES
    pc,           \* pc[w]: where worker w is in Run, setup, pieceLoop, ...
    piece,        \* piece[w]: the piece GetPiece works on (info.Index)
    bitfield,     \* bitfield[w]: peer.BitField
    cancelCh,     \* cancelCh[w]: the cancel channel passed to GetPiece
    seen,         \* the addresses the PEX manager has seen
    discovered,   \* the peers queued for the PEX worker spawner
    spawner,      \* the PEX worker spawner goroutine
    results,      \* number of results buffered in the results channel
    resultsCh,    \* whether the results channel is closed
    ctx,          \* the download's context
    returned      \* what Download returned

workerVars == <<pc, piece, bitfield, cancelCh>>
pexVars == <<seen, discovered, spawner>>
downloadVars == <<results, resultsCh, ctx, returned>>
vars == <<pmVars, workerVars, pexVars, downloadVars>>

PC == {"idle", "connect", "setup", "setupUnchoke", "register", "subscribe",
       "loop", "assign", "finished", "endgame", "get", "releaseChoked",
       "releaseFailed", "complete", "notify", "send", "recoverUnchoke",
       "wait", "waitRead", "serve", "pendingFor", "reUnchoke",
       "unsubscribe", "releaseAll", "removeAvailability", "exited"}

DownloadTypeOK ==
    /\ pc \in [Workers -> PC]
    /\ piece \in [Workers -> Pieces \cup {NoPiece}]
    /\ bitfield \in [Workers -> SUBSET Pieces]
    /\ cancelCh \in [Workers -> {"nil", "open", "closed"}]
    /\ seen \subseteq Addrs
    /\ discovered \subseteq Workers
    /\ spawner \in {"running", "stopped"}
    /\ results \in Nat
    /\ resultsCh \in ChanState
    /\ ctx \in {"open", "done"}
    /\ returned \in {"running", "ok", "missing", "timeout"}

TypeOK == PMTypeOK /\ DownloadTypeOK

\* Download has started its goroutines and is in collectResults.
Init ==
    /\ NewPieceManager
    /\ pc = [w \in Workers |-> IF w \in InitialWorkers THEN "connect" ELSE "idle"]
    /\ piece = [w \in Workers |-> NoPiece]
    /\ bitfield = [w \in Workers |-> {}]
    /\ cancelCh = [w \in Workers |-> "nil"]
    /\ seen = {AddrOf[w] : w \in InitialWorkers}
    /\ discovered = {}
    /\ spawner = "running"
    /\ results = 0
    /\ resultsCh = "open"
    /\ ctx = "open"
    /\ returned = "running"

\* A send on a closed results channel, or a second close of done, panics and
\* ends the process.
Panicked == resultsCh = "panic" \/ done = "panic"

\* The workers counted by the wait group.
Live == {w \in Workers : pc[w] \notin {"idle", "exited"}}

Goto(w, l) == pc' = [pc EXCEPT ![w] = l]

\* A step that moves only the program counter of w.
Jump(w, from, to) ==
    /\ pc[w] = from
    /\ Goto(w, to)
    /\ UNCHANGED <<pmVars, piece, bitfield, cancelCh, pexVars, downloadVars>>

-----------------------------------------------------------------------------
(* Run: connect and setup *)

\* connect: the context check, then DialTimeout.  An error returns before
\* cleanup is deferred.
Connect(w) == \/ ctx = "open" /\ Jump(w, "connect", "setup")
              \/ Jump(w, "connect", "exited")

\* setup up to ReadBitfield: the handshake and the peer's bitfield.
ReadBitfield(w) ==
    /\ pc[w] = "setup"
    /\ \E bf \in Offers : bitfield' = [bitfield EXCEPT ![w] = bf]
    /\ Goto(w, "setupUnchoke")
    /\ UNCHANGED <<pmVars, piece, cancelCh, pexVars, downloadVars>>

\* The handshake or the bitfield message fails: Run returns through cleanup.
SetupFails(w) == Jump(w, "setup", "releaseAll")

\* The three calls of Peer.WaitForUnchoke: in setup, after a choke during
\* GetPiece, and in waitForNewPieces.
UnchokeWait == {"setupUnchoke", "recoverUnchoke", "reUnchoke"}

\* WaitForUnchoke returns nil.
Unchoked(w) == \/ Jump(w, "setupUnchoke", "register")
               \/ Jump(w, "recoverUnchoke", "loop")
               \/ Jump(w, "reUnchoke", "loop")

\* WaitForUnchoke, or sending Interested before it, fails: Run returns.
UnchokeFails(w) == \/ Jump(w, "setupUnchoke", "releaseAll")
                   \/ Jump(w, "recoverUnchoke", "unsubscribe")
                   \/ Jump(w, "reUnchoke", "unsubscribe")

\* WaitForUnchoke reads a Have or a Bitfield message: the peer's bitfield
\* changes, the availability counts do not.
UnchokeBitfield(w) ==
    /\ pc[w] \in UnchokeWait
    /\ \E bf \in Offers \cup {bitfield[w] \cup {i} : i \in Pieces} :
         bitfield' = [bitfield EXCEPT ![w] = bf]
    /\ UNCHANGED <<pmVars, pc, piece, cancelCh, pexVars, downloadVars>>

Register(w) ==
    /\ pc[w] = "register"
    /\ AddAvailability(bitfield[w])
    /\ Goto(w, "subscribe")
    /\ UNCHANGED <<piece, bitfield, cancelCh, pexVars, downloadVars>>

Subscribe(w) ==
    /\ pc[w] = "subscribe"
    /\ SubscribeHave(w)
    /\ Goto(w, "loop")
    /\ UNCHANGED <<piece, bitfield, cancelCh, pexVars, downloadVars>>

-----------------------------------------------------------------------------
(* pieceLoop *)

\* sendPendingHaves: drains the subscription; a failed send returns early and
\* loses the notification it was sending.
SendPendingHaves(w) ==
    \E rest \in SUBSET haveSubs[w].queue :
        /\ haveSubs[w].queue # {} => rest # haveSubs[w].queue
        /\ SetQueue(w, [haveSubs[w] EXCEPT !.queue = rest])

\* The top of pieceLoop, where the variables of the body are out of scope.
LoopTop(w) ==
    /\ pc[w] = "loop"
    /\ piece' = [piece EXCEPT ![w] = NoPiece]
    /\ SendPendingHaves(w)
    /\ \/ /\ ctx = "done" \/ done # "open"
          /\ Goto(w, "unsubscribe")
       \/ /\ ctx = "open" /\ done = "open"
          /\ Goto(w, "assign")
    /\ UNCHANGED <<bitfield, cancelCh, pexVars, downloadVars>>

AssignPiece(w) ==
    /\ pc[w] = "assign"
    /\ \E i \in Pieces :
         /\ Assign(AddrOf[w], bitfield[w], i)
         /\ piece' = [piece EXCEPT ![w] = i]
    /\ Goto(w, "endgame")
    /\ UNCHANGED <<bitfield, cancelCh, pexVars, downloadVars>>

AssignFails(w) ==
    /\ pc[w] = "assign"
    /\ AssignNone(AddrOf[w], bitfield[w])
    /\ Goto(w, "finished")
    /\ UNCHANGED <<piece, bitfield, cancelCh, pexVars, downloadVars>>

\* IsFinished, after an Assign that found nothing.
CheckFinished(w) ==
    \/ IsFinished /\ Jump(w, "finished", "unsubscribe")
    \/ ~IsFinished /\ Jump(w, "finished", "wait")

\* IsEndgame and, if it is, CancelCh: two calls, but endgame never ends, so
\* what happens between them may as well happen before both.
GetCancelCh(w) ==
    /\ pc[w] = "endgame"
    /\ IF endgameActivated
       THEN /\ CancelCh(piece[w])
            /\ cancelCh' = [cancelCh EXCEPT ![w] = "open"]
       ELSE UNCHANGED pmVars /\ cancelCh' = [cancelCh EXCEPT ![w] = "nil"]
    /\ Goto(w, "get")
    /\ UNCHANGED <<piece, bitfield, pexVars, downloadVars>>

\* GetPiece returns; its cancel channel goes out of scope.
GetReturns(w, to) ==
    /\ pc[w] = "get"
    /\ Goto(w, to)
    /\ cancelCh' = [cancelCh EXCEPT ![w] = "nil"]
    /\ UNCHANGED <<pmVars, piece, bitfield, pexVars, downloadVars>>

\* GetPiece returns a piece whose hash is right.
GetSucceeds(w) == GetReturns(w, "complete")

\* GetPiece fails: the connection, or the hash of what came.
GetFails(w) == GetReturns(w, "releaseFailed")

\* The peer chokes us: getBlocks returns ErrChoked.
GetChoked(w) == GetReturns(w, "releaseChoked")

\* Mutant: the cancel channel is taken for closed when it is not.
MutGetCancelled(w) == cancelCh[w] # "nil" /\ GetReturns(w, "loop")

\* getBlocks finds the cancel channel closed: ErrPieceCancelled, no Release.
GetCancelled(w) == cancelCh[w] = "closed" /\ GetReturns(w, "loop")

\* getBlocks reads a Have: the bitfield changes, the availability does not.
GetHave(w) ==
    /\ pc[w] = "get"
    /\ \E i \in Pieces : bitfield' = [bitfield EXCEPT ![w] = @ \cup {i}]
    /\ UNCHANGED <<pmVars, pc, piece, cancelCh, pexVars, downloadVars>>

ReleasePiece(w) ==
    /\ \/ pc[w] = "releaseFailed" /\ Goto(w, "loop")
       \/ pc[w] = "releaseChoked" /\ Goto(w, "recoverUnchoke")
    /\ Release(piece[w])
    /\ UNCHANGED <<piece, bitfield, cancelCh, pexVars, downloadVars>>

\* pm.Complete.  Closing the cancel channel of the piece is seen by every
\* worker that holds it.
CompletePiece(w) ==
    /\ pc[w] = "complete"
    /\ \/ /\ \E r \in WriteResult : Complete(piece[w], r)
          /\ cancelCh' = [v \in Workers |->
                            IF /\ piece[v] = piece[w]
                               /\ cancelCh[v] = "open"
                               /\ piece[w] \in cancelChs
                            THEN "closed" ELSE cancelCh[v]]
          /\ Goto(w, "notify")
       \/ /\ CompleteAgain(piece[w])
          /\ Goto(w, "send")
          /\ UNCHANGED cancelCh
    /\ UNCHANGED <<piece, bitfield, pexVars, downloadVars>>

Notify(w) ==
    /\ pc[w] = "notify"
    /\ NotifyHave(piece[w])
    /\ Goto(w, "send")
    /\ UNCHANGED <<piece, bitfield, cancelCh, pexVars, downloadVars>>

\* The select between ctx.Done and the send of the result; a send on the
\* closed channel panics.
SendResult(w) ==
    /\ pc[w] = "send"
    /\ \/ /\ ctx = "done"
          /\ Goto(w, "unsubscribe")
          /\ UNCHANGED <<results, resultsCh>>
       \/ /\ resultsCh = "open" /\ results < total
          /\ results' = results + 1
          /\ Goto(w, "loop")
          /\ UNCHANGED resultsCh
       \/ /\ resultsCh = "closed"
          /\ resultsCh' = "panic"
          /\ UNCHANGED <<pc, results>>
    /\ UNCHANGED <<pmVars, piece, bitfield, cancelCh, pexVars, ctx, returned>>

-----------------------------------------------------------------------------
(* waitForNewPieces *)

\* Mutant: a waiting worker does not look at the context.
MutWaitTop(w) ==
    \/ done # "open" /\ Jump(w, "wait", "loop")
    \/ /\ pc[w] = "wait"
       /\ done = "open"
       /\ SendPendingHaves(w)
       /\ Goto(w, "waitRead")
       /\ UNCHANGED <<piece, bitfield, cancelCh, pexVars, downloadVars>>

\* The top of the loop.  The pending Haves go out only when neither channel
\* is ready; then the worker reads, with a deadline of 30 seconds.
WaitTop(w) ==
    \/ ctx = "done" /\ Jump(w, "wait", "unsubscribe")
    \/ done # "open" /\ Jump(w, "wait", "loop")
    \/ /\ pc[w] = "wait"
       /\ ctx = "open" /\ done = "open"
       /\ SendPendingHaves(w)
       /\ Goto(w, "waitRead")
       /\ UNCHANGED <<piece, bitfield, cancelCh, pexVars, downloadVars>>

\* ReadMessage fails.  The read deadline ends the worker as well: ReadMessage
\* wraps the error, so the type assertion to net.Error does not hold.
WaitFails(w) == Jump(w, "waitRead", "unsubscribe")

\* Any message but a Have: back to the top of the loop, after a Request
\* through HandleRequest, which writes a block to the peer.
WaitOther(w) == Jump(w, "waitRead", "wait") \/ Jump(w, "waitRead", "serve")

\* HandleRequest has written its block, or has failed to.
WaitServed(w) == Jump(w, "serve", "wait")

\* A Have message.  An index that is no piece changes neither the bitfield nor
\* the availability, but the worker looks for pending pieces all the same.
WaitHave(w) ==
    /\ pc[w] = "waitRead"
    /\ \/ \E i \in Pieces :
            /\ availability[i] < MaxAvailability
            /\ bitfield' = [bitfield EXCEPT ![w] = @ \cup {i}]
            /\ IncrementAvailability(i)
       \/ UNCHANGED <<pmVars, bitfield>>
    /\ Goto(w, "pendingFor")
    /\ UNCHANGED <<piece, cancelCh, pexVars, downloadVars>>

\* HasPendingFor, then SendInterested and WaitForUnchoke.
PendingFor(w) ==
    \/ HasPendingFor(bitfield[w]) /\ Jump(w, "pendingFor", "reUnchoke")
    \/ ~HasPendingFor(bitfield[w]) /\ Jump(w, "pendingFor", "wait")

-----------------------------------------------------------------------------
(* The deferred calls of Run: UnsubscribeHave, then cleanup *)

Unsubscribe(w) ==
    /\ pc[w] = "unsubscribe"
    /\ UnsubscribeHave(w)
    /\ Goto(w, "releaseAll")
    /\ UNCHANGED <<piece, bitfield, cancelCh, pexVars, downloadVars>>

CleanupRelease(w) ==
    /\ pc[w] = "releaseAll"
    /\ ReleaseAll(AddrOf[w])
    /\ Goto(w, "removeAvailability")
    /\ UNCHANGED <<piece, bitfield, cancelCh, pexVars, downloadVars>>

\* RemoveAvailability, Conn.Close and the wg.Done of the goroutine, which
\* drops the peer.
CleanupAvailability(w) ==
    /\ pc[w] = "removeAvailability"
    /\ RemoveAvailability(bitfield[w])
    /\ bitfield' = [bitfield EXCEPT ![w] = {}]
    /\ piece' = [piece EXCEPT ![w] = NoPiece]
    /\ Goto(w, "exited")
    /\ UNCHANGED <<cancelCh, pexVars, downloadVars>>

-----------------------------------------------------------------------------
(* PEX: HandlePEX and pexWorkerSpawner *)

Reading == UnchokeWait \cup {"get", "waitRead"}

\* HandlePEX with one address not seen before: queued, or dropped when the
\* channel is full.
HandlePEX(w, x) ==
    /\ pc[w] \in Reading
    /\ AddrOf[x] \notin seen
    /\ seen' = seen \cup {AddrOf[x]}
    /\ discovered' = IF Cardinality(discovered) < PexCap
                     THEN discovered \cup {x} ELSE discovered
    /\ UNCHANGED <<pmVars, workerVars, spawner, downloadVars>>

\* The spawner takes an address: wg.Add and a new worker.
SpawnWorker(x) ==
    /\ spawner = "running"
    /\ x \in discovered
    /\ discovered' = discovered \ {x}
    /\ Goto(x, "connect")
    /\ UNCHANGED <<pmVars, piece, bitfield, cancelCh, seen, spawner,
                   downloadVars>>

StopSpawner ==
    /\ spawner = "running"
    /\ ctx = "done" \/ done # "open"
    /\ spawner' = "stopped"
    /\ UNCHANGED <<pmVars, workerVars, seen, discovered, downloadVars>>

-----------------------------------------------------------------------------
(* Download: the closer, the collector and the context *)

\* wg.Wait returns and the results channel is closed.
CloseResults ==
    /\ resultsCh = "open"
    /\ Live = {}
    /\ resultsCh' = "closed"
    /\ UNCHANGED <<pmVars, workerVars, pexVars, results, ctx, returned>>

\* Mutant: the collector counts results that nobody sent.
MutCollectOne ==
    /\ returned = "running"
    /\ results' = results - 1
    /\ UNCHANGED <<pmVars, workerVars, pexVars, resultsCh, ctx, returned>>

\* collectResults receives a result.
CollectOne ==
    /\ returned = "running"
    /\ results > 0
    /\ results' = results - 1
    /\ UNCHANGED <<pmVars, workerVars, pexVars, resultsCh, ctx, returned>>

\* Mutant: Download returns what there is, without validatePieces.
MutCollectAll ==
    /\ returned = "running"
    /\ results = 0 /\ resultsCh # "open"
    /\ returned' = "ok"
    /\ ctx' = "done"
    /\ UNCHANGED <<pmVars, workerVars, pexVars, results, resultsCh>>

\* collectResults finds the channel closed and drained: Results and
\* validatePieces; the deferred cancelFunc ends the context.
CollectAll ==
    /\ returned = "running"
    /\ results = 0 /\ resultsCh # "open"
    /\ \E unreadable \in SUBSET stored :
         returned' = IF Results(unreadable) = Pieces THEN "ok" ELSE "missing"
    /\ ctx' = "done"
    /\ UNCHANGED <<pmVars, workerVars, pexVars, results, resultsCh>>

\* collectResults finds the context done.
CollectTimeout ==
    /\ returned = "running"
    /\ ctx = "done"
    /\ returned' = "timeout"
    /\ UNCHANGED <<pmVars, workerVars, pexVars, results, resultsCh, ctx>>

\* The deadline of the context (config.Timeout).
Timeout ==
    /\ ctx = "open"
    /\ ctx' = "done"
    /\ UNCHANGED <<pmVars, workerVars, pexVars, results, resultsCh, returned>>

-----------------------------------------------------------------------------

\* What worker w does without waiting for its peer.
Local(w) ==
    \/ Connect(w) \/ Register(w) \/ Subscribe(w)
    \/ LoopTop(w) \/ AssignPiece(w) \/ AssignFails(w) \/ CheckFinished(w)
    \/ GetCancelCh(w) \/ ReleasePiece(w)
    \/ CompletePiece(w) \/ Notify(w) \/ SendResult(w)
    \/ WaitTop(w) \/ PendingFor(w)
    \/ Unsubscribe(w) \/ CleanupRelease(w) \/ CleanupAvailability(w)

\* The end of a read from the peer of w, or of the write of a block to it.
Answered(w) ==
    \/ ReadBitfield(w) \/ SetupFails(w)
    \/ Unchoked(w) \/ UnchokeFails(w)
    \/ GetSucceeds(w) \/ GetFails(w) \/ GetChoked(w) \/ GetCancelled(w)
    \/ WaitServed(w)

\* The end of the read in waitForNewPieces, which has a deadline.
WaitRead(w) == WaitFails(w) \/ WaitOther(w) \/ WaitHave(w)

\* Messages that leave the worker where it was.
Message(w) ==
    \/ UnchokeBitfield(w) \/ GetHave(w)
    \/ \E x \in Workers : HandlePEX(w, x)

Collector == CollectOne \/ CollectAll \/ CollectTimeout

\* Download has returned and every goroutine of it has ended.
Terminated ==
    /\ returned # "running" /\ Live = {} /\ spawner = "stopped"
    /\ UNCHANGED vars

\* A panic has ended the process.
Crashed == Panicked /\ UNCHANGED vars

Next ==
    \/ /\ ~Panicked
       /\ \/ \E w \in Workers : Local(w) \/ Answered(w) \/ WaitRead(w) \/ Message(w)
          \/ \E x \in Workers : SpawnWorker(x)
          \/ StopSpawner
          \/ CloseResults
          \/ Collector
          \/ Timeout
          \/ Terminated
    \/ Crashed

Spec == Init /\ [][Next]_vars

\* Worker w waits for its peer in a call that has no deadline and does not look
\* at the context: it reads (setup, WaitForUnchoke, getBlocks), or writes a block,
\* the Haves that are pending, NotInterested or Interested.
HeldByPeer(w) ==
    \/ pc[w] \in UnchokeWait \cup {"setup", "get", "serve"}
    \/ pc[w] \in {"loop", "wait"} /\ haveSubs[w].queue # {}
    \/ pc[w] = "finished" /\ ~IsFinished
    \/ pc[w] = "pendingFor" /\ HasPendingFor(bitfield[w])

\* The Go scheduler runs every goroutine that does not wait for a peer, and the
\* read in waitForNewPieces has a deadline.  Nothing is said about the other
\* reads and writes, nor about the deadline of the context.
FairSpec ==
    /\ Spec
    /\ \A w \in Workers : /\ WF_vars(~HeldByPeer(w) /\ (Local(w) \/ WaitRead(w)))
                          /\ WF_vars(SpawnWorker(w))
    /\ WF_vars(StopSpawner) /\ WF_vars(CloseResults) /\ WF_vars(Collector)

-----------------------------------------------------------------------------
(* Properties *)

CompletedPieces == {i \in Pieces : states[i] = "Completed"}

\* Where the loop body of a worker still has to release or complete piece[w].
Downloading == {"endgame", "get", "complete", "releaseChoked", "releaseFailed"}

DistinctAddrs == \A v, w \in Workers : AddrOf[v] = AddrOf[w] => v = w

\* No piece is orphaned: behind a piece that the manager shows in progress
\* there is a worker of the owner's address whose loop body will complete or
\* release it.  An in-progress piece that nobody works on would only be
\* downloaded again in endgame (Assign, Release, ReleaseAll, Complete and the
\* ErrPieceCancelled path that skips Release).
NoOrphan ==
    \A i \in Pieces : states[i] = "InProgress" =>
        \E w \in Workers : /\ pc[w] \in Downloading
                          /\ piece[w] = i
                          /\ AddrOf[w] = owners[i]

\* The counter of completed pieces is right although several workers may
\* complete one piece in endgame, and done is closed exactly once, by the step
\* that completes the last piece (or by NewPieceManager, when resuming).
Accounting ==
    /\ completed = Cardinality(CompletedPieces)
    /\ done = IF completed = total /\ (HasStore \/ Pieces # {})
              THEN "closed" ELSE "open"

\* The bytes of a piece are in memory or in the disk store exactly when the
\* piece is completed, whichever way WritePiece failed (Complete, Results).
Recoverable == \A i \in Pieces : states[i] = "Completed" <=> i \in data \cup stored

\* A completed piece is never pending or in progress again, whatever the
\* workers that duplicated it release later (Release, ReleaseAll).
CompletedForever ==
    [][\A i \in Pieces : states[i] = "Completed" => states'[i] = "Completed"]_vars

\* Before endgame two workers never download the same piece, unless the peer
\* list holds an address twice (ReleaseAll releases by address).
Exclusive ==
    DistinctAddrs /\ ~endgameActivated =>
        \A v, w \in Workers :
            /\ pc[v] \in Downloading /\ pc[w] \in Downloading
            /\ piece[v] = piece[w]
            => v = w

\* The workers announce to their peers, in Have messages, only pieces that
\* they can serve (Complete, SubscribeHave, sendPendingHaves).
HavesServable == \A w \in Workers : haveSubs[w].queue \subseteq data \cup stored

\* The results channel is closed only after the last worker has ended, so no
\* worker sends on the closed channel (Download, "All workers done").
ResultsClosedAfterWorkers == resultsCh # "open" => Live = {}

\* Once every piece is completed Download returns, without waiting for its
\* deadline, unless a peer holds a worker for ever in a read or a write that has
\* no deadline (collectResults waits for every worker).
CompletionReturns ==
    (\A w \in Workers : []<>~HeldByPeer(w)) => (IsFinished ~> returned # "running")

\* Once Download has returned its workers end, but for those that a peer holds:
\* none goes on in a retry loop, or waits where it should see the end of the
\* context (pieceLoop, waitForNewPieces and the send of a result).
WorkersEnd == returned # "running" ~> [](\A w \in Live : HeldByPeer(w))

\* What Download promises, whatever it does inside.
Board == INSTANCE DownloadBoard WITH have <- CompletedPieces, outcome <- returned

\* The download implements its abstract specification.
ImplementsBoard == Board!Spec
=============================================================================
