-------------------------- MODULE DownloaderProofs --------------------------
(***************************************************************************)
(* Proofs about module Downloader, for every set of pieces, workers and    *)
(* addresses.                                                              *)
(***************************************************************************)
EXTENDS Downloader, FiniteSetTheorems, TLAPS

-----------------------------------------------------------------------------
(* The operations of the piece manager preserve its type. *)

HaveSub == [open : BOOLEAN, queue : SUBSET Pieces]

\* Replacing the queue of a subscription by pieces gives a subscription.
LEMMA HaveSubQueue ==
  ASSUME NEW sub \in HaveSub, NEW q \in SUBSET Pieces
  PROVE  [sub EXCEPT !.queue = q] \in HaveSub
BY DEF HaveSub

\* Assign leaves a well-typed piece manager.
LEMMA AssignType ==
  ASSUME PMTypeOK, NEW addr \in Addrs, NEW bf, NEW i \in Pieces, Assign(addr, bf, i)
  PROVE  PMTypeOK'
<1>1. endgameActivated' \in BOOLEAN
  BY Zenon DEF Assign
<1>2. /\ states' \in [Pieces -> PieceState]
      /\ owners' \in [Pieces -> Addrs \cup {NoOwner}]
  BY DEF Assign, PMTypeOK, PieceState
<1> QED
  BY <1>1, <1>2 DEF Assign, PMTypeOK

\* An Assign that finds nothing leaves a well-typed piece manager.
LEMMA AssignNoneType ==
  ASSUME PMTypeOK, NEW addr, NEW bf, AssignNone(addr, bf)
  PROVE  PMTypeOK'
<1>1. endgameActivated' \in BOOLEAN
  BY Zenon DEF AssignNone
<1> QED
  BY <1>1 DEF AssignNone, PMTypeOK

\* CancelCh of a piece leaves a well-typed piece manager.
LEMMA CancelChType ==
  ASSUME PMTypeOK, NEW i \in Pieces, CancelCh(i)
  PROVE  PMTypeOK'
BY DEF CancelCh, PMTypeOK

\* Complete leaves a well-typed piece manager.
LEMMA CompleteType ==
  ASSUME PMTypeOK, NEW i \in Pieces, NEW r, Complete(i, r)
  PROVE  PMTypeOK'
<1>1. /\ states' \in [Pieces -> PieceState]
      /\ owners' \in [Pieces -> Addrs \cup {NoOwner}]
  BY DEF Complete, PMTypeOK, PieceState
<1>2. data' \subseteq Pieces /\ stored' \subseteq Pieces /\ cancelChs' \subseteq Pieces
  BY DEF Complete, Persist, PMTypeOK
<1>3. completed' \in Nat /\ done' \in ChanState
  BY DEF Complete, PMTypeOK, CloseChan, ChanState
<1> QED
  BY <1>1, <1>2, <1>3 DEF Complete, PMTypeOK

\* Notifying the subscribers of a piece leaves a well-typed piece manager.
LEMMA NotifyHaveType ==
  ASSUME PMTypeOK, NEW i \in Pieces, NotifyHave(i)
  PROVE  PMTypeOK'
<1>1. ASSUME NEW s \in Subscribers PROVE haveSubs'[s] \in HaveSub
  <2>1. haveSubs[s] \in HaveSub /\ haveSubs[s].queue \cup {i} \in SUBSET Pieces
    BY DEF HaveSub, PMTypeOK
  <2>2. [haveSubs[s] EXCEPT !.queue = @ \cup {i}] \in HaveSub
    BY <2>1, HaveSubQueue
  <2>3. QED
    BY <2>1, <2>2 DEF NotifyHave
<1>2. haveSubs' \in [Subscribers -> HaveSub]
  BY <1>1 DEF NotifyHave
<1> QED
  BY <1>2 DEF NotifyHave, PMTypeOK, HaveSub

\* Release leaves a well-typed piece manager.
LEMMA ReleaseType ==
  ASSUME PMTypeOK, NEW i \in Pieces, Release(i)
  PROVE  PMTypeOK'
BY DEF Release, PMTypeOK, PieceState

\* ReleaseAll leaves a well-typed piece manager.
LEMMA ReleaseAllType ==
  ASSUME PMTypeOK, NEW addr, ReleaseAll(addr)
  PROVE  PMTypeOK'
BY DEF ReleaseAll, PMTypeOK, PieceState

\* Counting a peer in or out leaves a well-typed piece manager.
LEMMA ChangeAvailabilityType ==
  ASSUME PMTypeOK, NEW bf, NEW d \in Int, ChangeAvailability(bf, d)
  PROVE  PMTypeOK'
BY DEF ChangeAvailability, PMTypeOK

\* Replacing a subscription leaves a well-typed piece manager.
LEMMA SetQueueType ==
  ASSUME PMTypeOK, NEW s \in Subscribers, NEW sub \in HaveSub, SetQueue(s, sub)
  PROVE  PMTypeOK'
BY DEF SetQueue, PMTypeOK, HaveSub

\* SendPendingHaves leaves a well-typed piece manager.
LEMMA SendPendingHavesType ==
  ASSUME PMTypeOK, NEW w \in Workers, SendPendingHaves(w)
  PROVE  PMTypeOK'
<1>1. haveSubs[w] \in HaveSub /\ w \in Subscribers
  BY DownloaderAssumption DEF PMTypeOK, HaveSub
<1>2. PICK rest \in SUBSET haveSubs[w].queue :
        SetQueue(w, [haveSubs[w] EXCEPT !.queue = rest])
  BY DEF SendPendingHaves
<1>3. rest \in SUBSET Pieces
  BY <1>1 DEF HaveSub
<1>4. [haveSubs[w] EXCEPT !.queue = rest] \in HaveSub
  BY <1>1, <1>3, HaveSubQueue
<1> QED
  BY <1>1, <1>2, <1>4, SetQueueType

-----------------------------------------------------------------------------
(* Type correctness. *)

\* A worker in the loop body, after Assign, has a piece: GetCancelCh, Release,
\* Complete and NotifyHave are called with a piece of the torrent.
Held ==
    \A w \in Workers : pc[w] \in Downloading \cup {"notify"} => piece[w] \in Pieces

TInv == TypeOK /\ Held

\* A step that leaves the piece manager alone keeps its type.
LEMMA PMUnchangedType == PMTypeOK /\ UNCHANGED pmVars => PMTypeOK'
BY DEF PMTypeOK, pmVars

\* Every step of the download preserves its type and Held.
LEMMA TInvStep == TInv /\ [Next]_vars => TInv'
<1> SUFFICES ASSUME TInv, [Next]_vars PROVE TInv'
  OBVIOUS
<1> USE DEF TInv, TypeOK
<1> DEFINE WInv == DownloadTypeOK /\ Held
<1> USE DEF Held, DownloadTypeOK, PC, Downloading, Goto, Jump, pexVars,
            downloadVars, workerVars
<1>1. ASSUME NEW w \in Workers, Connect(w) PROVE TInv'
  <2>1. PMTypeOK'
    BY <1>1, PMUnchangedType DEF Connect
  <2>2. WInv'
    BY <1>1, DownloaderAssumption DEF Connect
  <2>3. QED
    BY <2>1, <2>2
<1>2. ASSUME NEW w \in Workers, Register(w) PROVE TInv'
  <2>1. PMTypeOK'
    BY <1>2, ChangeAvailabilityType DEF Register, AddAvailability
  <2>2. WInv'
    BY <1>2, DownloaderAssumption DEF Register
  <2>3. QED
    BY <2>1, <2>2
<1>3. ASSUME NEW w \in Workers, Subscribe(w) PROVE TInv'
  <2>1. PMTypeOK'
    BY <1>3, SetQueueType, DownloaderAssumption
    DEF Subscribe, SubscribeHave, Unsubscribed, HaveSub
  <2>2. WInv'
    BY <1>3, DownloaderAssumption DEF Subscribe
  <2>3. QED
    BY <2>1, <2>2
<1>4. ASSUME NEW w \in Workers, LoopTop(w) PROVE TInv'
  <2>1. PMTypeOK'
    BY <1>4, SendPendingHavesType DEF LoopTop
  <2>2. WInv'
    BY <1>4, DownloaderAssumption DEF LoopTop
  <2>3. QED
    BY <2>1, <2>2
<1>5. ASSUME NEW w \in Workers, AssignPiece(w) PROVE TInv'
  <2>1. PMTypeOK'
    BY <1>5, AssignType, DownloaderAssumption DEF AssignPiece
  <2>2. WInv'
    BY <1>5, DownloaderAssumption DEF AssignPiece
  <2>3. QED
    BY <2>1, <2>2
<1>6. ASSUME NEW w \in Workers, AssignFails(w) PROVE TInv'
  <2>1. PMTypeOK'
    BY <1>6, AssignNoneType DEF AssignFails
  <2>2. WInv'
    BY <1>6, DownloaderAssumption DEF AssignFails
  <2>3. QED
    BY <2>1, <2>2
<1>7. ASSUME NEW w \in Workers, CheckFinished(w) PROVE TInv'
  <2>1. PMTypeOK'
    BY <1>7, PMUnchangedType DEF CheckFinished
  <2>2. WInv'
    BY <1>7, DownloaderAssumption DEF CheckFinished
  <2>3. QED
    BY <2>1, <2>2
<1>8. ASSUME NEW w \in Workers, GetCancelCh(w) PROVE TInv'
  <2>1. PMTypeOK'
    BY <1>8, CancelChType, PMUnchangedType DEF GetCancelCh
  <2>2. WInv'
    BY <1>8, DownloaderAssumption DEF GetCancelCh
  <2>3. QED
    BY <2>1, <2>2
<1>9. ASSUME NEW w \in Workers, ReleasePiece(w) PROVE TInv'
  <2>1. PMTypeOK'
    BY <1>9, ReleaseType DEF ReleasePiece
  <2>2. WInv'
    BY <1>9, DownloaderAssumption DEF ReleasePiece
  <2>3. QED
    BY <2>1, <2>2
<1>10. ASSUME NEW w \in Workers, CompletePiece(w) PROVE TInv'
  <2>1. PMTypeOK'
    BY <1>10, CompleteType, PMUnchangedType DEF CompletePiece, CompleteAgain
  <2>2. WInv'
    BY <1>10, DownloaderAssumption DEF CompletePiece
  <2>3. QED
    BY <2>1, <2>2
<1>11. ASSUME NEW w \in Workers, Notify(w) PROVE TInv'
  <2>1. PMTypeOK'
    BY <1>11, NotifyHaveType DEF Notify
  <2>2. WInv'
    BY <1>11, DownloaderAssumption DEF Notify
  <2>3. QED
    BY <2>1, <2>2
<1>12. ASSUME NEW w \in Workers, SendResult(w) PROVE TInv'
  <2>1. PMTypeOK'
    BY <1>12, PMUnchangedType DEF SendResult
  <2>2. WInv'
    BY <1>12, DownloaderAssumption DEF SendResult, ChanState
  <2>3. QED
    BY <2>1, <2>2
<1>13. ASSUME NEW w \in Workers, WaitTop(w) PROVE TInv'
  <2>1. PMTypeOK'
    BY <1>13, SendPendingHavesType, PMUnchangedType DEF WaitTop
  <2>2. WInv'
    BY <1>13, DownloaderAssumption DEF WaitTop
  <2>3. QED
    BY <2>1, <2>2
<1>14. ASSUME NEW w \in Workers, PendingFor(w) PROVE TInv'
  <2>1. PMTypeOK'
    BY <1>14, PMUnchangedType DEF PendingFor
  <2>2. WInv'
    BY <1>14, DownloaderAssumption DEF PendingFor
  <2>3. QED
    BY <2>1, <2>2
<1>15. ASSUME NEW w \in Workers, Unsubscribe(w) PROVE TInv'
  <2>1. PMTypeOK'
    BY <1>15, SetQueueType, DownloaderAssumption
    DEF Unsubscribe, UnsubscribeHave, Unsubscribed, HaveSub
  <2>2. WInv'
    BY <1>15, DownloaderAssumption DEF Unsubscribe
  <2>3. QED
    BY <2>1, <2>2
<1>16. ASSUME NEW w \in Workers, CleanupRelease(w) PROVE TInv'
  <2>1. PMTypeOK'
    BY <1>16, ReleaseAllType DEF CleanupRelease
  <2>2. WInv'
    BY <1>16, DownloaderAssumption DEF CleanupRelease
  <2>3. QED
    BY <2>1, <2>2
<1>17. ASSUME NEW w \in Workers, CleanupAvailability(w) PROVE TInv'
  <2>1. PMTypeOK'
    BY <1>17, ChangeAvailabilityType DEF CleanupAvailability, RemoveAvailability
  <2>2. WInv'
    BY <1>17, DownloaderAssumption DEF CleanupAvailability
  <2>3. QED
    BY <2>1, <2>2
<1>18. ASSUME NEW w \in Workers, Answered(w) PROVE TInv'
  <2>1. PMTypeOK'
    BY <1>18, PMUnchangedType DEF Answered, ReadBitfield, SetupFails, Unchoked, UnchokeFails,
      GetSucceeds, GetFails, GetChoked, GetCancelled, GetReturns, WaitServed
  <2>2. WInv'
    BY <1>18, DownloaderAssumption DEF Answered, ReadBitfield, SetupFails, Unchoked, UnchokeFails,
      GetSucceeds, GetFails, GetChoked, GetCancelled, GetReturns, WaitServed
  <2>3. QED
    BY <2>1, <2>2
<1>19. ASSUME NEW w \in Workers, WaitFails(w) \/ WaitOther(w) PROVE TInv'
  <2>1. PMTypeOK'
    BY <1>19, PMUnchangedType DEF WaitFails, WaitOther
  <2>2. WInv'
    BY <1>19, DownloaderAssumption DEF WaitFails, WaitOther
  <2>3. QED
    BY <2>1, <2>2
<1>20. ASSUME NEW w \in Workers, WaitHave(w) PROVE TInv'
  <2>1. PMTypeOK'
    <3>1. CASE UNCHANGED pmVars
      BY <3>1, PMUnchangedType
    <3>2. CASE \E i \in Pieces : IncrementAvailability(i)
      BY <3>2, ChangeAvailabilityType DEF IncrementAvailability
    <3>3. QED
      BY <1>20, <3>1, <3>2 DEF WaitHave
  <2>2. WInv'
    BY <1>20, DownloaderAssumption DEF WaitHave
  <2>3. QED
    BY <2>1, <2>2
<1>21. ASSUME NEW w \in Workers, UnchokeBitfield(w) \/ GetHave(w) PROVE TInv'
  <2>1. PMTypeOK'
    BY <1>21, PMUnchangedType DEF UnchokeBitfield, GetHave
  <2>2. WInv'
    BY <1>21, DownloaderAssumption DEF UnchokeBitfield, GetHave
  <2>3. QED
    BY <2>1, <2>2
<1>22. ASSUME NEW w \in Workers, NEW x \in Workers, HandlePEX(w, x) PROVE TInv'
  <2>1. PMTypeOK'
    BY <1>22, PMUnchangedType DEF HandlePEX
  <2>2. WInv'
    BY <1>22, DownloaderAssumption DEF HandlePEX
  <2>3. QED
    BY <2>1, <2>2
<1>23. ASSUME NEW x \in Workers, SpawnWorker(x) PROVE TInv'
  <2>1. PMTypeOK'
    BY <1>23, PMUnchangedType DEF SpawnWorker
  <2>2. WInv'
    BY <1>23, DownloaderAssumption DEF SpawnWorker
  <2>3. QED
    BY <2>1, <2>2
<1>24. ASSUME StopSpawner PROVE TInv'
  <2>1. PMTypeOK'
    BY <1>24, PMUnchangedType DEF StopSpawner
  <2>2. WInv'
    BY <1>24, DownloaderAssumption DEF StopSpawner
  <2>3. QED
    BY <2>1, <2>2
<1>25. ASSUME CloseResults PROVE TInv'
  <2>1. PMTypeOK'
    BY <1>25, PMUnchangedType DEF CloseResults
  <2>2. WInv'
    BY <1>25, DownloaderAssumption DEF CloseResults, ChanState
  <2>3. QED
    BY <2>1, <2>2
<1>26. ASSUME Collector PROVE TInv'
  <2>1. PMTypeOK'
    BY <1>26, PMUnchangedType DEF Collector, CollectOne, CollectAll, CollectTimeout
  <2>2. WInv'
    BY <1>26, DownloaderAssumption DEF Collector, CollectOne, CollectAll, CollectTimeout
  <2>3. QED
    BY <2>1, <2>2
<1>27. ASSUME Timeout PROVE TInv'
  <2>1. PMTypeOK'
    BY <1>27, PMUnchangedType DEF Timeout
  <2>2. WInv'
    BY <1>27, DownloaderAssumption DEF Timeout
  <2>3. QED
    BY <2>1, <2>2
<1>28. ASSUME UNCHANGED vars PROVE TInv'
  <2>1. PMTypeOK'
    BY <1>28, PMUnchangedType DEF vars
  <2>2. WInv'
    BY <1>28, DownloaderAssumption DEF vars
  <2>3. QED
    BY <2>1, <2>2
<1> QED
  BY <1>1, <1>2, <1>3, <1>4, <1>5, <1>6, <1>7, <1>8, <1>9, <1>10, <1>11, <1>12, <1>13, <1>14, <1>15, <1>16, <1>17, <1>18, <1>19, <1>20, <1>21, <1>22, <1>23, <1>24, <1>25, <1>26, <1>27, <1>28
  DEF Next, Local, WaitRead, Message, Terminated, Crashed

\* The initial states are well typed.
LEMMA TInvInit == Init => TInv
<1> SUFFICES ASSUME Init PROVE TInv
  OBVIOUS
<1>1. stored \subseteq Pieces /\ IsFiniteSet(Pieces)
  BY PieceManagerAssumption DEF Init, NewPieceManager
<1>2. completed \in Nat
  BY <1>1, FS_Subset, FS_CardinalityType DEF Init, NewPieceManager
<1>3. PMTypeOK
  <2>1. states \in [Pieces -> PieceState]
    BY DEF Init, NewPieceManager, PieceState
  <2>2. haveSubs \in [Subscribers -> [open : BOOLEAN, queue : SUBSET Pieces]]
    BY DEF Init, NewPieceManager, Unsubscribed
  <2>3. /\ owners \in [Pieces -> Addrs \cup {NoOwner}]
        /\ availability \in [Pieces -> Int]
    BY DEF Init, NewPieceManager
  <2>4. endgameActivated \in BOOLEAN
    BY Zenon DEF Init, NewPieceManager
  <2>5. done = "closed" \/ done = "open"
    BY Zenon DEF Init, NewPieceManager
  <2>6. QED
    BY <1>1, <1>2, <2>1, <2>2, <2>3, <2>4, <2>5
    DEF Init, NewPieceManager, PMTypeOK, ChanState
<1>4. DownloadTypeOK /\ Held
  BY DownloaderAssumption
  DEF Init, DownloadTypeOK, Held, PC, Downloading, ChanState
<1> QED
  BY <1>3, <1>4 DEF TInv, TypeOK

\* Every reachable state of the download is well typed, in particular a piece
\* index that reaches the piece manager is one of the torrent's.
THEOREM TypeCorrect == Spec => []TypeOK
<1>1. Spec => []TInv
  BY TInvInit, TInvStep, PTL DEF Spec
<1> QED
  BY <1>1, PTL DEF TInv

-----------------------------------------------------------------------------
(* The steps that move a piece from one state to another, and the others. *)

PieceStep(w) ==
    AssignPiece(w) \/ ReleasePiece(w) \/ CompletePiece(w) \/ CleanupRelease(w)

\* What the other steps have in common: a worker that is in the loop body
\* stays in it with its piece, unless GetPiece was cancelled.
Quiet ==
    /\ UNCHANGED <<states, owners, data, stored, completed, done>>
    /\ endgameActivated => endgameActivated'
    /\ returned' = returned \/ Collector
    /\ \A w \in Workers :
         /\ pc[w] \in Downloading =>
              \/ pc'[w] \in Downloading /\ piece'[w] = piece[w]
              \/ pc[w] = "get" /\ cancelCh[w] = "closed"
         /\ pc'[w] \in Downloading =>
              pc[w] \in Downloading /\ piece'[w] = piece[w]
         /\ cancelCh'[w] # "nil" => pc'[w] = "get"
         /\ cancelCh'[w] = "closed" => cancelCh[w] = "closed"

\* A cancel channel exists only inside GetPiece.
CancelScope == \A w \in Workers : cancelCh[w] # "nil" => pc[w] = "get"

\* A closed cancel channel belongs to a completed piece.
CancelSound ==
    \A w \in Workers : cancelCh[w] = "closed" => states[piece[w]] = "Completed"

\* The seen set of the PEX manager: a worker that has been started has an
\* address in it, and a queued peer has no worker yet.
PexStarted == \A x \in Workers : pc[x] # "idle" => AddrOf[x] \in seen

PexQueued == /\ \A x \in discovered : pc[x] = "idle"
             /\ \A x \in discovered : AddrOf[x] \in seen

PexInv == PexStarted /\ PexQueued

\* Every step is quiet or moves a piece.
LEMMA QuietSteps ==
  ASSUME TInv, CancelScope, PexInv, [Next]_vars
  PROVE  Quiet \/ \E w \in Workers : PieceStep(w)
<1> USE DEF TInv, TypeOK, DownloadTypeOK, CancelScope, Quiet, Downloading, PC, Goto,
            Jump, pmVars, pexVars, downloadVars, workerVars
<1>1. ASSUME NEW w \in Workers, Connect(w) \/ CheckFinished(w) \/ SendResult(w) \/ PendingFor(w) PROVE Quiet
  BY <1>1
  DEF Connect, CheckFinished, SendResult, PendingFor
<1>2. ASSUME NEW w \in Workers, Register(w) \/ CleanupAvailability(w) \/ WaitHave(w) PROVE Quiet
  BY <1>2
  DEF Register, CleanupAvailability, WaitHave, AddAvailability,
      RemoveAvailability, IncrementAvailability, ChangeAvailability
<1>3. ASSUME NEW w \in Workers, Subscribe(w) \/ Unsubscribe(w) \/ LoopTop(w) \/ WaitTop(w) PROVE Quiet
  BY <1>3
  DEF Subscribe, Unsubscribe, LoopTop, WaitTop, SendPendingHaves,
      SubscribeHave, UnsubscribeHave, SetQueue
<1>4. ASSUME NEW w \in Workers, AssignFails(w) PROVE Quiet
  BY <1>4
  DEF AssignFails, AssignNone
<1>5. ASSUME NEW w \in Workers, GetCancelCh(w) PROVE Quiet
  BY <1>5
  DEF GetCancelCh, CancelCh
<1>6. ASSUME NEW w \in Workers, Notify(w) PROVE Quiet
  BY <1>6
  DEF Notify, NotifyHave
<1>7. ASSUME NEW w \in Workers, Answered(w) PROVE Quiet
  BY <1>7
  DEF Answered, ReadBitfield, SetupFails, Unchoked, UnchokeFails, GetSucceeds,
      GetFails, GetChoked, GetCancelled, GetReturns, WaitServed
<1>8. ASSUME NEW w \in Workers, WaitFails(w) \/ WaitOther(w) PROVE Quiet
  BY <1>8
  DEF WaitFails, WaitOther
<1>9. ASSUME NEW w \in Workers, UnchokeBitfield(w) \/ GetHave(w) PROVE Quiet
  BY <1>9
  DEF UnchokeBitfield, GetHave
<1>10. ASSUME NEW w \in Workers, NEW x \in Workers, HandlePEX(w, x) PROVE Quiet
  BY <1>10 DEF HandlePEX
<1>11. ASSUME NEW x \in Workers, SpawnWorker(x) PROVE Quiet
  <2>1. pc[x] = "idle"
    BY <1>11 DEF SpawnWorker, PexInv, PexQueued
  <2>2. QED
    BY <1>11, <2>1 DEF SpawnWorker
<1>12. ASSUME StopSpawner \/ CloseResults \/ Timeout PROVE Quiet
  BY <1>12 DEF StopSpawner, CloseResults, Timeout
<1>13. ASSUME Collector PROVE Quiet
  BY <1>13 DEF Collector, CollectOne, CollectAll, CollectTimeout
<1>14. ASSUME UNCHANGED vars PROVE Quiet
  BY <1>14 DEF vars
<1> QED
  BY <1>1, <1>2, <1>3, <1>4, <1>5, <1>6, <1>7, <1>8, <1>9, <1>10, <1>11, <1>12, <1>13, <1>14
  DEF Next, Local, WaitRead, Message, Terminated, Crashed, PieceStep

-----------------------------------------------------------------------------
(* No piece is orphaned. *)

OInv == TInv /\ CancelScope /\ CancelSound /\ PexInv /\ NoOrphan

\* A step that moves a piece keeps cancel channels inside GetPiece, and every
\* step does.
LEMMA CancelScopeStep ==
  ASSUME TInv, CancelScope, PexInv, [Next]_vars
  PROVE  CancelScope'
<1>1. CASE Quiet
  BY <1>1 DEF Quiet, CancelScope
<1>2. ASSUME NEW w \in Workers, AssignPiece(w) \/ ReleasePiece(w) \/ CleanupRelease(w)
      PROVE  CancelScope'
  BY <1>2 DEF AssignPiece, ReleasePiece, CleanupRelease, CancelScope, Goto, TInv,
     TypeOK, DownloadTypeOK
<1>3. ASSUME NEW w \in Workers, CompletePiece(w) PROVE CancelScope'
  BY <1>3 DEF CompletePiece, CancelScope, Goto, TInv, TypeOK, DownloadTypeOK
<1> QED
  BY <1>1, <1>2, <1>3, QuietSteps DEF PieceStep

\* Every step keeps the seen set of the PEX manager ahead of the workers.
LEMMA PexInvStep ==
  ASSUME TInv, PexInv, [Next]_vars
  PROVE  PexInv'
<1> USE DEF TInv, TypeOK, DownloadTypeOK, PC, PexInv, PexStarted, PexQueued, Goto, Jump, pexVars,
            downloadVars, workerVars
<1>1. ASSUME NEW w \in Workers, Local(w) PROVE PexInv'
  BY <1>1
  DEF Local, Connect, Register, Subscribe, LoopTop, AssignPiece, AssignFails,
      CheckFinished, GetCancelCh, ReleasePiece, CompletePiece, Notify, SendResult,
      WaitTop, PendingFor, Unsubscribe, CleanupRelease, CleanupAvailability
<1>2. ASSUME NEW w \in Workers, Answered(w) \/ WaitRead(w) PROVE PexInv'
  BY <1>2
  DEF Answered, ReadBitfield, SetupFails, Unchoked, UnchokeFails, GetSucceeds,
      GetFails, GetChoked, GetCancelled, GetReturns, WaitRead, WaitFails,
      WaitOther, WaitServed, WaitHave
<1>3. ASSUME NEW w \in Workers, UnchokeBitfield(w) \/ GetHave(w) PROVE PexInv'
  BY <1>3 DEF UnchokeBitfield, GetHave
<1>4. ASSUME NEW w \in Workers, NEW x \in Workers, HandlePEX(w, x) PROVE PexInv'
  BY <1>4 DEF HandlePEX
<1>5. ASSUME NEW x \in Workers, SpawnWorker(x) PROVE PexInv'
  BY <1>5 DEF SpawnWorker
<1>6. ASSUME StopSpawner \/ CloseResults \/ Timeout PROVE PexInv'
  BY <1>6 DEF StopSpawner, CloseResults, Timeout
<1>7. ASSUME Collector PROVE PexInv'
  BY <1>7 DEF Collector, CollectOne, CollectAll, CollectTimeout
<1>8. ASSUME UNCHANGED vars PROVE PexInv'
  BY <1>8 DEF vars
<1> QED
  BY <1>1, <1>2, <1>3, <1>4, <1>5, <1>6, <1>7, <1>8
  DEF Next, Message, Terminated, Crashed

\* Completed pieces stay completed in every step.
LEMMA CompletedStays ==
  ASSUME TInv, CancelScope, PexInv, [Next]_vars, NEW i \in Pieces, states[i] = "Completed"
  PROVE  states'[i] = "Completed"
<1>1. CASE Quiet
  BY <1>1 DEF Quiet
<1>2. ASSUME NEW w \in Workers, AssignPiece(w) PROVE states'[i] = "Completed"
  BY <1>2 DEF AssignPiece, Assign, TInv, TypeOK, PMTypeOK
<1>3. ASSUME NEW w \in Workers, ReleasePiece(w) PROVE states'[i] = "Completed"
  BY <1>3 DEF ReleasePiece, Release, TInv, TypeOK, PMTypeOK
<1>4. ASSUME NEW w \in Workers, CompletePiece(w) PROVE states'[i] = "Completed"
  BY <1>4 DEF CompletePiece, Complete, CompleteAgain, pmVars, TInv, TypeOK, PMTypeOK
<1>5. ASSUME NEW w \in Workers, CleanupRelease(w) PROVE states'[i] = "Completed"
  BY <1>5 DEF CleanupRelease, ReleaseAll, Owned, TInv, TypeOK, PMTypeOK
<1> QED
  BY <1>1, <1>2, <1>3, <1>4, <1>5, QuietSteps DEF PieceStep

\* Closing the cancel channel of a piece happens with its completion only.
LEMMA CancelSoundStep ==
  ASSUME TInv, CancelScope, CancelSound, PexInv, [Next]_vars
  PROVE  CancelSound'
<1> SUFFICES ASSUME NEW v \in Workers, cancelCh'[v] = "closed"
             PROVE  states'[piece'[v]] = "Completed"
  BY DEF CancelSound
<1>1. CancelScope' /\ pc'[v] = "get"
  BY CancelScopeStep DEF CancelScope
<1>2. CASE cancelCh[v] = "closed" /\ piece'[v] = piece[v]
  <2>1. piece[v] \in Pieces /\ states[piece[v]] = "Completed"
    BY <1>2 DEF CancelScope, CancelSound, TInv, Held, Downloading
  <2>2. QED
    BY <1>2, <2>1, CompletedStays
<1>3. CASE Quiet
  BY <1>1, <1>2, <1>3 DEF Quiet, Downloading
<1>4. ASSUME NEW w \in Workers, AssignPiece(w) PROVE states'[piece'[v]] = "Completed"
  BY <1>1, <1>2, <1>4
  DEF AssignPiece, Goto, TInv, TypeOK, DownloadTypeOK
<1>5. ASSUME NEW w \in Workers, ReleasePiece(w) \/ CleanupRelease(w)
      PROVE  states'[piece'[v]] = "Completed"
  BY <1>2, <1>5 DEF ReleasePiece, CleanupRelease
<1>6. ASSUME NEW w \in Workers, CompletePiece(w) PROVE states'[piece'[v]] = "Completed"
  <2>1. piece' = piece /\ piece[w] \in Pieces
    BY <1>6 DEF CompletePiece, TInv, Held, Downloading
  <2>2. CASE cancelCh[v] # "closed"
    <3>1. piece[v] = piece[w] /\ \E r \in WriteResult : Complete(piece[w], r)
      BY <1>6, <2>2 DEF CompletePiece, TInv, TypeOK, DownloadTypeOK
    <3>2. QED
      BY <2>1, <3>1 DEF Complete, TInv, TypeOK, PMTypeOK
  <2>3. QED
    BY <1>2, <2>1, <2>2
<1> QED
  BY <1>3, <1>4, <1>5, <1>6, QuietSteps DEF PieceStep

\* A worker of the owner's address stays behind every piece in progress.
LEMMA NoOrphanStep ==
  ASSUME TInv, CancelScope, CancelSound, PexInv, NoOrphan, [Next]_vars
  PROVE  NoOrphan'
<1> DEFINE Works(w, i) == /\ pc[w] \in Downloading
                          /\ piece[w] = i
                          /\ AddrOf[w] = owners[i]
<1> SUFFICES ASSUME NEW i \in Pieces, states'[i] = "InProgress"
             PROVE  \E w \in Workers : Works(w, i)'
  BY DEF NoOrphan
<1> USE DEF TInv, TypeOK, PMTypeOK, DownloadTypeOK
<1>1. CASE Quiet
  <2>1. PICK w \in Workers : Works(w, i)
    BY <1>1 DEF Quiet, NoOrphan
  <2>2. ~(pc[w] = "get" /\ cancelCh[w] = "closed")
    BY <1>1, <2>1 DEF Quiet, CancelSound
  <2>3. Works(w, i)'
    BY <1>1, <2>1, <2>2 DEF Quiet
  <2>4. QED
    BY <2>3
<1>2. ASSUME NEW w \in Workers, AssignPiece(w) PROVE \E v \in Workers : Works(v, i)'
  <2>1. PICK j \in Pieces : /\ Assign(AddrOf[w], bitfield[w], j)
                           /\ piece' = [piece EXCEPT ![w] = j]
    BY <1>2 DEF AssignPiece
  <2>2. pc' = [pc EXCEPT ![w] = "endgame"] /\ pc[w] = "assign"
    BY <1>2 DEF AssignPiece, Goto
  <2>3. CASE states[i] = "InProgress"
    <3>1. PICK v \in Workers : Works(v, i)
      BY <2>3 DEF NoOrphan
    <3>2. v # w /\ owners'[i] = owners[i]
      BY <2>1, <2>2, <2>3, <3>1 DEF Assign, Downloading
    <3>3. QED
      BY <2>1, <2>2, <3>1, <3>2
  <2>4. CASE states[i] # "InProgress"
    <3>1. i = j /\ owners'[i] = AddrOf[w]
      BY <2>1, <2>4 DEF Assign
    <3>2. QED
      BY <2>1, <2>2, <3>1 DEF Downloading
  <2>5. QED
    BY <2>3, <2>4
<1>3. ASSUME NEW w \in Workers, ReleasePiece(w) PROVE \E v \in Workers : Works(v, i)'
  <2>1. i # piece[w] /\ states[i] = "InProgress" /\ owners'[i] = owners[i]
    BY <1>3 DEF ReleasePiece, Release, Held, Downloading
  <2>2. PICK v \in Workers : Works(v, i)
    BY <2>1 DEF NoOrphan
  <2>3. QED
    BY <1>3, <2>1, <2>2 DEF ReleasePiece, Goto
<1>4. ASSUME NEW w \in Workers, CompletePiece(w) PROVE \E v \in Workers : Works(v, i)'
  <2>1. piece[w] \in Pieces
    BY <1>4 DEF CompletePiece, Held, Downloading
  <2>2. i # piece[w] /\ states[i] = "InProgress" /\ owners'[i] = owners[i]
    BY <1>4, <2>1 DEF CompletePiece, Complete, CompleteAgain, pmVars
  <2>3. PICK v \in Workers : Works(v, i)
    BY <2>2 DEF NoOrphan
  <2>4. QED
    BY <1>4, <2>2, <2>3 DEF CompletePiece, Goto
<1>5. ASSUME NEW w \in Workers, CleanupRelease(w) PROVE \E v \in Workers : Works(v, i)'
  <2>1. states[i] = "InProgress" /\ owners'[i] = owners[i]
    BY <1>5 DEF CleanupRelease, ReleaseAll, Owned
  <2>2. PICK v \in Workers : Works(v, i)
    BY <2>1 DEF NoOrphan
  <2>3. v # w
    BY <1>5, <2>2 DEF CleanupRelease, Downloading
  <2>4. QED
    BY <1>5, <2>1, <2>2, <2>3 DEF CleanupRelease, Goto
<1> QED
  BY <1>1, <1>2, <1>3, <1>4, <1>5, QuietSteps DEF PieceStep

\* OInv holds initially.
LEMMA OInvInit == Init => OInv
<1> SUFFICES ASSUME Init PROVE OInv
  OBVIOUS
<1>1. TInv
  BY TInvInit
<1>2. CancelScope /\ CancelSound
  BY DEF Init, CancelScope, CancelSound
<1>3. PexInv
  BY DownloaderAssumption DEF Init, PexInv, PexStarted, PexQueued
<1>4. NoOrphan
  BY DEF Init, NewPieceManager, NoOrphan
<1> QED
  BY <1>1, <1>2, <1>3, <1>4 DEF OInv

\* OInv holds in every reachable state.
LEMMA OInvAlways == Spec => []OInv
<1>1. OInv /\ [Next]_vars => OInv'
  BY TInvStep, CancelScopeStep, CancelSoundStep, PexInvStep, NoOrphanStep DEF OInv
<1> QED
  BY OInvInit, <1>1, PTL DEF Spec

\* No piece is ever orphaned, for any number of workers and pieces and even
\* when several workers have one address: behind every piece in progress is a
\* worker that will complete or release it.
THEOREM NoOrphanTheorem == Spec => []NoOrphan
BY OInvAlways, PTL DEF OInv

\* A completed piece stays completed, whatever its other downloaders do.
THEOREM CompletedForeverTheorem == Spec => CompletedForever
<1>1. OInv /\ [Next]_vars =>
        [\A i \in Pieces : states[i] = "Completed" => states'[i] = "Completed"]_vars
  BY CompletedStays DEF OInv
<1> QED
  BY OInvAlways, <1>1, PTL DEF Spec, CompletedForever

-----------------------------------------------------------------------------
(* The books of the piece manager, and what Download returns. *)

\* The set of completed pieces grows by the piece a step completes, and is
\* otherwise unchanged.
LEMMA CompletedPiecesStep ==
  ASSUME OInv, [Next]_vars
  PROVE  \/ /\ CompletedPieces' = CompletedPieces
            /\ UNCHANGED <<data, stored, completed, done>>
            /\ returned' = returned \/ Collector
         \/ \E i \in Pieces \ CompletedPieces, r \in WriteResult :
              /\ Complete(i, r)
              /\ CompletedPieces' = CompletedPieces \cup {i}
              /\ returned' = returned
<1> USE DEF OInv, TInv, TypeOK, PMTypeOK, CompletedPieces
<1>1. CASE Quiet
  BY <1>1 DEF Quiet
<1>2. ASSUME NEW w \in Workers, AssignPiece(w)
      PROVE  /\ CompletedPieces' = CompletedPieces
             /\ UNCHANGED <<data, stored, completed, done, returned>>
  BY <1>2 DEF AssignPiece, Assign, downloadVars
<1>3. ASSUME NEW w \in Workers, ReleasePiece(w)
      PROVE  /\ CompletedPieces' = CompletedPieces
             /\ UNCHANGED <<data, stored, completed, done, returned>>
  BY <1>3 DEF ReleasePiece, Release, downloadVars
<1>4. ASSUME NEW w \in Workers, CleanupRelease(w)
      PROVE  /\ CompletedPieces' = CompletedPieces
             /\ UNCHANGED <<data, stored, completed, done, returned>>
  BY <1>4 DEF CleanupRelease, ReleaseAll, Owned, downloadVars
<1>5. ASSUME NEW w \in Workers, CompletePiece(w), CompleteAgain(piece[w])
      PROVE  /\ CompletedPieces' = CompletedPieces
             /\ UNCHANGED <<data, stored, completed, done, returned>>
  BY <1>5 DEF CompletePiece, CompleteAgain, pmVars, downloadVars
<1>6. ASSUME NEW w \in Workers, CompletePiece(w), ~CompleteAgain(piece[w])
      PROVE  \E i \in Pieces \ CompletedPieces, r \in WriteResult :
               /\ Complete(i, r)
               /\ CompletedPieces' = CompletedPieces \cup {i}
               /\ returned' = returned
  <2>1. piece[w] \in Pieces
    BY <1>6 DEF CompletePiece, Held, Downloading
  <2>2. PICK r \in WriteResult : Complete(piece[w], r)
    BY <1>6 DEF CompletePiece
  <2>3. piece[w] \notin CompletedPieces /\ CompletedPieces' = CompletedPieces \cup {piece[w]}
    BY <2>1, <2>2 DEF Complete
  <2>4. returned' = returned
    BY <1>6 DEF CompletePiece, downloadVars
  <2>5. QED
    BY <2>1, <2>2, <2>3, <2>4
<1> QED
  BY <1>1, <1>2, <1>3, <1>4, <1>5, <1>6, QuietSteps DEF PieceStep

\* The counter and the done channel follow the completed pieces.
LEMMA AccountingStep ==
  ASSUME OInv, Accounting, [Next]_vars
  PROVE  Accounting'
<1>1. CASE CompletedPieces' = CompletedPieces /\ UNCHANGED <<completed, done>>
  BY <1>1 DEF Accounting, total
<1>2. ASSUME NEW i \in Pieces \ CompletedPieces, NEW r \in WriteResult, Complete(i, r),
             CompletedPieces' = CompletedPieces \cup {i}
      PROVE  Accounting'
  <2>1. IsFiniteSet(Pieces) /\ IsFiniteSet(CompletedPieces)
    BY PieceManagerAssumption, FS_Subset DEF CompletedPieces
  <2>2. completed' = Cardinality(CompletedPieces')
    BY <1>2, <2>1, FS_AddElement DEF Accounting, Complete
  <2>3. Cardinality(CompletedPieces) < total
    BY <2>1, <1>2, FS_Subset, FS_CardinalityType DEF CompletedPieces, total
  <2>4. completed # total /\ done = "open"
    BY <2>1, <2>3, FS_CardinalityType DEF Accounting, total
  <2>5. done' = IF completed' = total THEN "closed" ELSE "open"
    BY <1>2, <2>4 DEF Complete, CloseChan
  <2>6. QED
    BY <1>2, <2>2, <2>5 DEF Accounting, total
<1> QED
  BY <1>1, <1>2, CompletedPiecesStep

\* The counter of completed pieces is exact and done is closed once, exactly
\* when all pieces are completed: no duplicate download counts twice.
THEOREM AccountingTheorem == Spec => []Accounting
<1>1. Init => Accounting
  <2> SUFFICES ASSUME Init PROVE Accounting
    OBVIOUS
  <2>1. CompletedPieces = stored
    BY DEF Init, NewPieceManager, CompletedPieces
  <2>2. CASE HasStore
    BY <2>1, <2>2 DEF Init, NewPieceManager, Accounting
  <2>3. CASE ~HasStore
    <3>1. stored = {} /\ completed = 0
      BY <2>3, FS_EmptySet DEF Init, NewPieceManager
    <3>2. Pieces # {} => total # 0
      BY PieceManagerAssumption, FS_EmptySet DEF total
    <3>3. QED
      BY <2>1, <2>3, <3>1, <3>2 DEF Init, NewPieceManager, Accounting
  <2>4. QED
    BY <2>2, <2>3
<1>2. OInv /\ Accounting /\ [Next]_vars => Accounting'
  BY AccountingStep
<1> QED
  BY <1>1, <1>2, OInvAlways, PTL DEF Spec

\* Complete keeps the bytes of the piece in memory or on disk, however the
\* write to the store ends.
LEMMA RecoverableStep ==
  ASSUME OInv, Recoverable, [Next]_vars
  PROVE  Recoverable'
<1> USE DEF OInv, TInv, TypeOK, PMTypeOK
<1>1. CASE CompletedPieces' = CompletedPieces /\ UNCHANGED <<data, stored>>
  BY <1>1 DEF Recoverable, CompletedPieces
<1>2. ASSUME NEW i \in Pieces \ CompletedPieces, NEW r \in WriteResult, Complete(i, r)
      PROVE  Recoverable'
  <2>1. states' = [states EXCEPT ![i] = "Completed"] /\ Persist(i, r)
    BY <1>2 DEF Complete
  <2>2. i \in data' \cup stored'
    BY <2>1 DEF Persist
  <2>3. ASSUME NEW j \in Pieces, j # i
        PROVE  j \in data' \cup stored' <=> j \in data \cup stored
    BY <2>1, <2>3 DEF Persist
  <2>4. QED
    BY <2>1, <2>2, <2>3 DEF Recoverable
<1> QED
  BY <1>1, <1>2, CompletedPiecesStep

\* Recoverable holds in every reachable state.
LEMMA RecoverableAlways == Spec => [](OInv /\ Recoverable)
<1>1. Init => Recoverable
  BY DEF Init, NewPieceManager, Recoverable
<1>2. OInv /\ Recoverable /\ [Next]_vars => Recoverable'
  BY RecoverableStep
<1> QED
  BY <1>1, <1>2, OInvAlways, PTL DEF Spec

\* The bytes of every completed piece, and of no other, are kept.
THEOREM RecoverableTheorem == Spec => []Recoverable
BY RecoverableAlways, PTL

\* Every step of the download is a step of its abstract specification: a piece
\* is obtained, Download returns, or nothing visible happens.
LEMMA BoardStep ==
  ASSUME OInv, Recoverable, [Next]_vars
  PROVE  [Board!Next]_<<CompletedPieces, returned>>
<1>1. CASE CompletedPieces' = CompletedPieces /\ returned' = returned
  BY <1>1
<1>2. CASE CompletedPieces' = CompletedPieces /\ Collector
  <2>1. CASE CollectOne
    BY <1>2, <2>1 DEF CollectOne
  <2>2. CASE CollectAll
    <3>1. PICK unreadable \in SUBSET stored :
            returned' = IF Results(unreadable) = Pieces THEN "ok" ELSE "missing"
      BY <2>2 DEF CollectAll
    <3>2. Results(unreadable) = Pieces => CompletedPieces = Pieces
      BY DEF Results, Recoverable, CompletedPieces
    <3>3. Board!Return
      BY <1>2, <2>2, <3>1, <3>2 DEF CollectAll, Board!Return
    <3>4. QED
      BY <3>3 DEF Board!Next
  <2>3. CASE CollectTimeout
    BY <1>2, <2>3 DEF CollectTimeout, Board!Next, Board!Return
  <2>4. QED
    BY <1>2, <2>1, <2>2, <2>3 DEF Collector
<1>3. ASSUME NEW i \in Pieces \ CompletedPieces,
             CompletedPieces' = CompletedPieces \cup {i}, returned' = returned
      PROVE  Board!Next
  BY <1>3 DEF Board!Next, Board!Obtain
<1> QED
  BY <1>1, <1>2, <1>3, CompletedPiecesStep

\* The download implements DownloadBoard: it never loses a piece, returns at
\* most once, and returns the file only when it has every piece.
THEOREM ImplementsBoardTheorem == Spec => ImplementsBoard
<1>1. Init => Board!Init
  BY DEF Init, Board!Init, CompletedPieces
<1>2. OInv /\ Recoverable /\ [Next]_vars => [Board!Next]_<<CompletedPieces, returned>>
  BY BoardStep
<1> QED
  BY <1>1, <1>2, RecoverableAlways, PTL DEF Spec, ImplementsBoard, Board!Spec

-----------------------------------------------------------------------------
(* Before endgame a piece has one downloader. *)

\* Before endgame, and with distinct addresses, the manager shows the piece of
\* every worker in the loop body as in progress at that worker.
OwnsPiece ==
    DistinctAddrs /\ ~endgameActivated =>
        \A w \in Workers : pc[w] \in Downloading =>
            states[piece[w]] = "InProgress" /\ owners[piece[w]] = AddrOf[w]

\* OwnsPiece is preserved by every step.
LEMMA OwnsPieceStep ==
  ASSUME OInv, OwnsPiece, [Next]_vars
  PROVE  OwnsPiece'
<1> SUFFICES ASSUME DistinctAddrs, ~endgameActivated', NEW v \in Workers,
                    pc'[v] \in Downloading
             PROVE  states'[piece'[v]] = "InProgress" /\ owners'[piece'[v]] = AddrOf[v]
  BY DEF OwnsPiece, DistinctAddrs
<1> DEFINE Goal == states'[piece'[v]] = "InProgress" /\ owners'[piece'[v]] = AddrOf[v]
<1> USE DEF OInv, TInv, TypeOK, PMTypeOK, DownloadTypeOK
<1>1. ASSUME ~endgameActivated, NEW w \in Workers, pc[w] \in Downloading
      PROVE  /\ states[piece[w]] = "InProgress" /\ owners[piece[w]] = AddrOf[w]
             /\ piece[w] \in Pieces
  BY <1>1 DEF OwnsPiece, Held
<1>2. CASE Quiet
  BY <1>1, <1>2 DEF Quiet
<1>3. ASSUME NEW w \in Workers, AssignPiece(w) PROVE Goal
  <2>1. PICK i \in Pieces : /\ Assign(AddrOf[w], bitfield[w], i)
                           /\ piece' = [piece EXCEPT ![w] = i]
    BY <1>3 DEF AssignPiece
  <2>2. ~endgameActivated /\ ~InEndgame
    BY <2>1 DEF Assign
  <2>3. states[i] = "Pending"
    BY <2>1, <2>2 DEF Assign, Assignable, Select, Candidates, EndgameCandidates
  <2>4. /\ states' = [states EXCEPT ![i] = "InProgress"]
        /\ owners' = [owners EXCEPT ![i] = AddrOf[w]]
    BY <2>1, <2>3 DEF Assign
  <2>5. CASE v = w
    BY <2>1, <2>4, <2>5
  <2>6. CASE v # w
    <3>1. pc[v] \in Downloading /\ piece'[v] = piece[v]
      BY <1>3, <2>1, <2>6 DEF AssignPiece, Goto
    <3>2. QED
      BY <1>1, <2>2, <2>3, <2>4, <3>1
  <2>7. QED
    BY <2>5, <2>6
<1>4. ASSUME NEW w \in Workers, ReleasePiece(w) \/ CompletePiece(w) PROVE Goal
  <2>1. piece' = piece /\ endgameActivated' = endgameActivated
    BY <1>4 DEF ReleasePiece, CompletePiece, Release, Complete, CompleteAgain, pmVars
  <2>2. v # w /\ pc[v] \in Downloading /\ pc[w] \in Downloading
    BY <1>4 DEF ReleasePiece, CompletePiece, Goto, Downloading
  <2>3. piece[v] # piece[w]
    BY <1>1, <2>1, <2>2 DEF DistinctAddrs
  <2>4. states'[piece[v]] = states[piece[v]] /\ owners'[piece[v]] = owners[piece[v]]
    BY <1>1, <1>4, <2>1, <2>2, <2>3
    DEF ReleasePiece, CompletePiece, Release, Complete, CompleteAgain, pmVars
  <2>5. QED
    BY <1>1, <2>1, <2>2, <2>4
<1>5. ASSUME NEW w \in Workers, CleanupRelease(w) PROVE Goal
  <2>1. piece' = piece /\ endgameActivated' = endgameActivated
    BY <1>5 DEF CleanupRelease, ReleaseAll
  <2>2. v # w /\ pc[v] \in Downloading
    BY <1>5 DEF CleanupRelease, Goto, Downloading
  <2>3. piece[v] \notin Owned(AddrOf[w])
    BY <1>1, <2>1, <2>2 DEF Owned, DistinctAddrs
  <2>4. QED
    BY <1>1, <1>5, <2>1, <2>2, <2>3 DEF CleanupRelease, ReleaseAll
<1> QED
  BY <1>2, <1>3, <1>4, <1>5, QuietSteps DEF PieceStep

\* With distinct peer addresses no piece is downloaded twice before endgame.
THEOREM ExclusiveTheorem == Spec => []Exclusive
<1>1. Init => OwnsPiece
  BY DownloaderAssumption DEF Init, OwnsPiece, Downloading
<1>2. OInv /\ OwnsPiece /\ [Next]_vars => OwnsPiece'
  BY OwnsPieceStep
<1>3. OwnsPiece => Exclusive
  BY DEF OwnsPiece, Exclusive, DistinctAddrs
<1> QED
  BY <1>1, <1>2, <1>3, OInvAlways, PTL DEF Spec

-----------------------------------------------------------------------------
(* What the workers announce to their peers. *)

\* A Have is queued, or about to be, for completed pieces only.
Announcing == \A w \in Workers : pc[w] = "notify" => states[piece[w]] = "Completed"

Queued == \A w \in Workers : haveSubs[w].queue \subseteq CompletedPieces

\* A worker that announces its piece has just completed it.
LEMMA AnnouncingStep ==
  ASSUME OInv, Announcing, [Next]_vars
  PROVE  Announcing'
<1> SUFFICES ASSUME NEW v \in Workers, pc'[v] = "notify"
             PROVE  states'[piece'[v]] = "Completed"
  BY DEF Announcing
<1> USE DEF OInv, TInv, TypeOK, DownloadTypeOK
<1>1. CASE pc[v] = "notify" /\ piece'[v] = piece[v]
  <2>1. piece[v] \in Pieces /\ states[piece[v]] = "Completed"
    BY <1>1 DEF Announcing, Held
  <2> QED
    BY <1>1, <2>1, CompletedStays
<1>2. ASSUME NEW w \in Workers, CompletePiece(w) PROVE states'[piece'[v]] = "Completed"
  <2>1. piece' = piece /\ piece[w] \in Pieces
    BY <1>2 DEF CompletePiece, Held, Downloading
  <2>2. CASE v = w
    <3>1. \E r \in WriteResult : Complete(piece[w], r)
      BY <1>2, <2>2 DEF CompletePiece, Goto
    <3> QED
      BY <2>1, <2>2, <3>1 DEF Complete, PMTypeOK
  <2>3. CASE v # w
    BY <1>1, <1>2, <2>1, <2>3 DEF CompletePiece, Goto
  <2> QED
    BY <2>2, <2>3
<1>3. ASSUME NEW w \in Workers, Local(w), ~CompletePiece(w)
      PROVE  pc[v] = "notify" /\ piece'[v] = piece[v]
  BY <1>3
  DEF Local, Connect, Register, Subscribe, LoopTop, AssignPiece, AssignFails,
      CheckFinished, GetCancelCh, ReleasePiece, Notify, SendResult, WaitTop, PendingFor,
      Unsubscribe, CleanupRelease, CleanupAvailability, Goto, Jump, downloadVars
<1>4. ASSUME NEW w \in Workers, Answered(w) \/ WaitRead(w) \/ Message(w)
      PROVE  pc[v] = "notify" /\ piece'[v] = piece[v]
  BY <1>4
  DEF Answered, ReadBitfield, SetupFails, Unchoked, UnchokeFails, GetSucceeds,
      GetFails, GetChoked, GetCancelled, GetReturns, WaitRead, WaitFails,
      WaitOther, WaitServed, WaitHave, Message, UnchokeBitfield, GetHave, HandlePEX, Goto, Jump, workerVars
<1>5. CASE ~\E w \in Workers : Local(w) \/ Answered(w) \/ WaitRead(w) \/ Message(w)
  <2>1. pc[v] = "notify" /\ piece'[v] = piece[v]
    BY <1>5
    DEF Next, SpawnWorker, StopSpawner, CloseResults, Collector, CollectOne, CollectAll,
        CollectTimeout, Timeout, Terminated, Crashed, Goto, workerVars, vars
  <2> QED
    BY <1>1, <2>1
<1> QED
  BY <1>1, <1>2, <1>3, <1>4, <1>5

\* A queue loses what is sent and gains what is completed.
LEMMA QueuedStep ==
  ASSUME OInv, Announcing, Queued, [Next]_vars
  PROVE  Queued'
<1> SUFFICES ASSUME NEW v \in Workers PROVE haveSubs'[v].queue \subseteq CompletedPieces'
  BY DEF Queued
<1>1. /\ PMTypeOK /\ v \in Subscribers /\ haveSubs[v] \in HaveSub
      /\ haveSubs[v].queue \subseteq CompletedPieces
  BY DownloaderAssumption DEF OInv, TInv, TypeOK, PMTypeOK, HaveSub, Queued
<1>2. CompletedPieces \subseteq CompletedPieces'
  BY CompletedPiecesStep
<1>3. CASE haveSubs'[v].queue \subseteq haveSubs[v].queue
  BY <1>1, <1>2, <1>3
<1>4. ASSUME NEW w \in Workers, Notify(w)
      PROVE  haveSubs'[v].queue \subseteq CompletedPieces'
  <2>1. piece[w] \in CompletedPieces
    BY <1>4 DEF Notify, OInv, TInv, Held, Announcing, CompletedPieces
  <2>2. haveSubs'[v].queue \subseteq haveSubs[v].queue \cup {piece[w]}
    BY <1>1, <1>4 DEF Notify, NotifyHave, HaveSub
  <2> QED
    BY <1>1, <1>2, <2>1, <2>2
<1>5. ASSUME NEW w \in Workers, NEW sub \in HaveSub, SetQueue(w, sub),
             sub.queue \subseteq haveSubs[w].queue
      PROVE  haveSubs'[v].queue \subseteq CompletedPieces'
  <2>1. haveSubs'[v].queue \subseteq haveSubs[v].queue
    BY <1>1, <1>5, DownloaderAssumption DEF SetQueue, PMTypeOK
  <2> QED
    BY <1>3, <2>1
<1>6. ASSUME NEW w \in Workers, SendPendingHaves(w)
      PROVE  haveSubs'[v].queue \subseteq CompletedPieces'
  <2>1. PICK rest \in SUBSET haveSubs[w].queue :
            SetQueue(w, [haveSubs[w] EXCEPT !.queue = rest])
    BY <1>6 DEF SendPendingHaves
  <2>2. haveSubs[w] \in HaveSub /\ rest \in SUBSET Pieces
    BY <1>1, DownloaderAssumption DEF PMTypeOK, HaveSub
  <2>3. PICK sub : sub = [haveSubs[w] EXCEPT !.queue = rest]
    OBVIOUS
  <2>4. sub \in HaveSub /\ sub.queue = rest
    BY <2>2, <2>3 DEF HaveSub
  <2> QED
    BY <1>5, <2>1, <2>3, <2>4
<1>7. ASSUME NEW w \in Workers, Subscribe(w) \/ Unsubscribe(w)
      PROVE  haveSubs'[v].queue \subseteq CompletedPieces'
  BY <1>5, <1>7
  DEF Subscribe, Unsubscribe, SubscribeHave, UnsubscribeHave, Unsubscribed, HaveSub
<1>8. CASE UNCHANGED haveSubs
  BY <1>3, <1>8
<1>9. ASSUME NEW w \in Workers, Local(w)
      PROVE  haveSubs'[v].queue \subseteq CompletedPieces'
  <2>1. \/ UNCHANGED haveSubs \/ Notify(w) \/ SendPendingHaves(w)
        \/ Subscribe(w) \/ Unsubscribe(w)
    BY <1>9
    DEF Local, Connect, Register, LoopTop, AssignPiece, AssignFails,
        CheckFinished, GetCancelCh, ReleasePiece, CompletePiece, SendResult, WaitTop, PendingFor,
        CleanupRelease, CleanupAvailability, Jump, pmVars, AddAvailability, RemoveAvailability,
        ChangeAvailability, Assign, AssignNone, CancelCh, Release, Complete, CompleteAgain,
        ReleaseAll
  <2> QED
    BY <1>4, <1>6, <1>7, <1>8, <2>1
<1>10. ASSUME NEW w \in Workers, Answered(w) \/ WaitRead(w) \/ Message(w)
       PROVE  UNCHANGED haveSubs
  BY <1>10
  DEF Answered, ReadBitfield, SetupFails, Unchoked, UnchokeFails, GetSucceeds,
      GetFails, GetChoked, GetCancelled, GetReturns, WaitRead, WaitFails,
      WaitOther, WaitServed, WaitHave, Message, UnchokeBitfield, GetHave, HandlePEX, Jump, pmVars,
      IncrementAvailability, ChangeAvailability
<1>11. CASE ~\E w \in Workers : Local(w) \/ Answered(w) \/ WaitRead(w) \/ Message(w)
  <2>1. UNCHANGED haveSubs
    BY <1>11
    DEF Next, SpawnWorker, StopSpawner, CloseResults, Collector, CollectOne, CollectAll,
        CollectTimeout, Timeout, Terminated, Crashed, pmVars, vars
  <2> QED
    BY <1>8, <2>1
<1> QED
  BY <1>8, <1>9, <1>10, <1>11

\* A Have goes out only for a piece whose bytes are in memory or on disk,
\* however late it is sent (HavesServable).
THEOREM HavesServableTheorem == Spec => []HavesServable
<1>1. Init => Announcing /\ Queued
  BY DownloaderAssumption DEF Init, NewPieceManager, Unsubscribed, Announcing, Queued
<1>2. OInv /\ Announcing /\ Queued /\ [Next]_vars => Announcing' /\ Queued'
  BY AnnouncingStep, QueuedStep
<1>3. Queued /\ Recoverable => HavesServable
  BY DEF Queued, Recoverable, HavesServable, CompletedPieces
<1> QED
  BY <1>1, <1>2, <1>3, RecoverableAlways, PTL DEF Spec
=============================================================================
