---------------------------- MODULE PieceManager ----------------------------
(***************************************************************************)
(* The piece manager of a download (internal/downloader/piece_manager.go   *)
(* and selector.go): which pieces are pending, in progress or completed,   *)
(* who owns the ones in progress, how many peers have each piece, and the  *)
(* channels through which the workers learn that a piece, or the whole     *)
(* download, is complete.                                                  *)
(*                                                                         *)
(* Every exported method holds pm.mu from its first to its last statement, *)
(* so it is one step here.  Complete also notifies the Have subscribers    *)
(* after it has released pm.mu: that second critical section (under        *)
(* haveSubsMu) is the separate operator NotifyHave.  The operators are     *)
(* action fragments; module Downloader calls them from the steps of the    *)
(* workers.                                                                *)
(***************************************************************************)
EXTENDS Integers, FiniteSets

CONSTANTS
    Pieces,            \* the piece indices of the torrent
    Addrs,             \* peer addresses, the values of owners[i]
    Subscribers,       \* who may hold a Have subscription (the workers)
    NoOwner,           \* the empty owner string
    EndgameThreshold,  \* pieces remaining at which endgame starts, 0 = never
    HasStore,          \* whether a DiskStore is configured
    HaveCap            \* capacity of a Have subscription channel

ASSUME PieceManagerAssumption ==
    /\ IsFiniteSet(Pieces)
    /\ NoOwner \notin Addrs
    /\ EndgameThreshold \in Nat
    /\ HasStore \in BOOLEAN
    /\ HaveCap \in Nat \ {0}

VARIABLES
    states,            \* states[i]: Pending, InProgress or Completed
    owners,            \* owners[i]: address the piece was assigned to
    data,              \* the pieces whose bytes are held in memory
    stored,            \* the pieces the DiskStore's bitfield marks present
    availability,      \* availability[i]: peers counted as having piece i
    completed,         \* number of completed pieces
    done,              \* the channel closed when all pieces are completed
    endgameActivated,  \* endgame has been entered
    cancelChs,         \* the pieces with an open cancel channel in the map
    haveSubs           \* haveSubs[s]: buffered Have notifications, or none

pmVars == <<states, owners, data, stored, availability, completed, done,
            endgameActivated, cancelChs, haveSubs>>

PieceState == {"Pending", "InProgress", "Completed"}

\* A Have subscription that does not exist (before SubscribeHave, after
\* UnsubscribeHave).
Unsubscribed == [open |-> FALSE, queue |-> {}]

\* A Go channel that is only ever closed; closing it again panics.
ChanState == {"open", "closed", "panic"}

CloseChan(ch) == IF ch = "open" THEN "closed" ELSE "panic"

total == Cardinality(Pieces)

PMTypeOK ==
    /\ states \in [Pieces -> PieceState]
    /\ owners \in [Pieces -> Addrs \cup {NoOwner}]
    /\ data \subseteq Pieces
    /\ stored \subseteq Pieces
    /\ availability \in [Pieces -> Int]
    /\ completed \in Nat
    /\ done \in ChanState
    /\ endgameActivated \in BOOLEAN
    /\ cancelChs \subseteq Pieces
    /\ haveSubs \in [Subscribers -> [open : BOOLEAN, queue : SUBSET Pieces]]

(***************************************************************************)
(* NewPieceManager.  With a store, the pieces its bitfield marks present   *)
(* start out completed (resume); if that is all of them, done is closed    *)
(* at once.  Without a store the constructor never closes done.            *)
(***************************************************************************)
NewPieceManager ==
    /\ stored \in (IF HasStore THEN SUBSET Pieces ELSE {{}})
    /\ states = [i \in Pieces |-> IF i \in stored THEN "Completed" ELSE "Pending"]
    /\ owners = [i \in Pieces |-> NoOwner]
    /\ data = {}
    /\ availability = [i \in Pieces |-> 0]
    /\ completed = Cardinality(stored)
    /\ done = IF HasStore /\ completed = total THEN "closed" ELSE "open"
    /\ endgameActivated = FALSE
    /\ cancelChs = {}
    /\ haveSubs = [s \in Subscribers |-> Unsubscribed]

-----------------------------------------------------------------------------
(* Assign *)

InEndgame == EndgameThreshold > 0 /\ total - completed <= EndgameThreshold

\* RarestFirstSelector.Select: any candidate of lowest availability (ties are
\* broken at random).
Select(candidates) ==
    {i \in candidates : \A j \in candidates : availability[i] <= availability[j]}

\* Mutant: a piece that is in progress is a candidate as well.
MutCandidates(bitfield) == {i \in bitfield : states[i] # "Completed"}

Candidates(bitfield) == {i \in bitfield : states[i] = "Pending"}

EndgameCandidates(addr, bitfield) ==
    {i \in bitfield : /\ InEndgame
                      /\ states[i] = "InProgress"
                      /\ owners[i] # addr}

\* The pieces one call of Assign may return: pending pieces first, pieces in
\* progress at other addresses only in endgame and when nothing is pending.
Assignable(addr, bitfield) ==
    IF Candidates(bitfield) # {}
    THEN Select(Candidates(bitfield))
    ELSE Select(EndgameCandidates(addr, bitfield))

\* Assign returns piece i.  State and owner change only for a pending piece.
Assign(addr, bitfield, i) ==
    /\ i \in Assignable(addr, bitfield)
    /\ endgameActivated' = (endgameActivated \/ InEndgame)
    /\ IF states[i] = "Pending"
       THEN /\ states' = [states EXCEPT ![i] = "InProgress"]
            /\ owners' = [owners EXCEPT ![i] = addr]
       ELSE UNCHANGED <<states, owners>>
    /\ UNCHANGED <<data, stored, availability, completed, done, cancelChs,
                   haveSubs>>

\* Assign returns (nil, false).
AssignNone(addr, bitfield) ==
    /\ Assignable(addr, bitfield) = {}
    /\ endgameActivated' = (endgameActivated \/ InEndgame)
    /\ UNCHANGED <<states, owners, data, stored, availability, completed, done,
                   cancelChs, haveSubs>>

\* CancelCh(i): the entry of the map, created when there is none.
CancelCh(i) ==
    /\ cancelChs' = cancelChs \cup {i}
    /\ UNCHANGED <<states, owners, data, stored, availability, completed, done,
                   endgameActivated, haveSubs>>

-----------------------------------------------------------------------------
(* Complete, Release, ReleaseAll *)

\* How DiskStore.WritePiece can end: written; the piece file not written; the
\* piece file and the bitfield in memory written but not the bitfield file.
WriteResult == IF HasStore THEN {"ok", "writeErr", "saveErr"} ELSE {"nostore"}

\* Mutant: the copy in memory is freed although the write failed.
MutPersist(i, result) ==
    /\ stored' = IF result \in {"ok", "saveErr"} THEN stored \cup {i} ELSE stored
    /\ data' = IF HasStore THEN data \ {i} ELSE data \cup {i}

\* The call of store.WritePiece inside Complete.  Only a nil error frees the
\* copy in memory.
Persist(i, result) ==
    /\ stored' = IF result \in {"ok", "saveErr"} THEN stored \cup {i} ELSE stored
    /\ data' = IF result = "ok" THEN data \ {i} ELSE data \cup {i}

\* Mutant: a piece completed twice is counted twice.
MutCompleteTwice(i, result) ==
    /\ states' = [states EXCEPT ![i] = "Completed"]
    /\ owners' = [owners EXCEPT ![i] = NoOwner]
    /\ completed' = completed + 1
    /\ Persist(i, result)
    /\ cancelChs' = cancelChs \ {i}
    /\ done' = IF completed' = total THEN CloseChan(done) ELSE done
    /\ UNCHANGED <<availability, endgameActivated, haveSubs>>

\* Mutant: done is not closed when the last piece is completed.
MutCompleteNotDone(i, result) ==
    /\ states[i] # "Completed"
    /\ states' = [states EXCEPT ![i] = "Completed"]
    /\ owners' = [owners EXCEPT ![i] = NoOwner]
    /\ completed' = completed + 1
    /\ Persist(i, result)
    /\ cancelChs' = cancelChs \ {i}
    /\ UNCHANGED <<availability, done, endgameActivated, haveSubs>>

\* Complete, up to the release of pm.mu; the early return is CompleteAgain.
Complete(i, result) ==
    /\ states[i] # "Completed"
    /\ states' = [states EXCEPT ![i] = "Completed"]
    /\ owners' = [owners EXCEPT ![i] = NoOwner]
    /\ completed' = completed + 1
    /\ Persist(i, result)
    /\ cancelChs' = cancelChs \ {i}
    /\ done' = IF completed' = total THEN CloseChan(done) ELSE done
    /\ UNCHANGED <<availability, endgameActivated, haveSubs>>

\* The early return of Complete: the piece is already completed.
CompleteAgain(i) ==
    /\ states[i] = "Completed"
    /\ UNCHANGED pmVars

\* The end of Complete, under haveSubsMu: a non-blocking send to each
\* subscription; a full channel drops the notification.
NotifyHave(i) ==
    /\ haveSubs' = [s \in Subscribers |->
                      IF /\ haveSubs[s].open
                         /\ Cardinality(haveSubs[s].queue) < HaveCap
                      THEN [haveSubs[s] EXCEPT !.queue = @ \cup {i}]
                      ELSE haveSubs[s]]
    /\ UNCHANGED <<states, owners, data, stored, availability, completed, done,
                   endgameActivated, cancelChs>>

\* Mutant: a piece that another worker has completed becomes pending again.
MutRelease(i) ==
    /\ states' = [states EXCEPT ![i] = "Pending"]
    /\ owners' = [owners EXCEPT ![i] = NoOwner]
    /\ UNCHANGED <<data, stored, availability, completed, done,
                   endgameActivated, cancelChs, haveSubs>>

\* Release(i): back to pending, unless the piece has been completed meanwhile.
Release(i) ==
    /\ IF states[i] = "InProgress"
       THEN /\ states' = [states EXCEPT ![i] = "Pending"]
            /\ owners' = [owners EXCEPT ![i] = NoOwner]
       ELSE UNCHANGED <<states, owners>>
    /\ UNCHANGED <<data, stored, availability, completed, done,
                   endgameActivated, cancelChs, haveSubs>>

Owned(addr) == {i \in Pieces : owners[i] = addr /\ states[i] = "InProgress"}

\* ReleaseAll(addr): every piece in progress that addr owns is pending again.
ReleaseAll(addr) ==
    /\ states' = [i \in Pieces |-> IF i \in Owned(addr) THEN "Pending" ELSE states[i]]
    /\ owners' = [i \in Pieces |-> IF i \in Owned(addr) THEN NoOwner ELSE owners[i]]
    /\ UNCHANGED <<data, stored, availability, completed, done,
                   endgameActivated, cancelChs, haveSubs>>

-----------------------------------------------------------------------------
(* Queries and availability *)

IsFinished == completed = total

HasPendingFor(bitfield) == \E i \in bitfield : states[i] = "Pending"

\* AddAvailability (d = 1) and RemoveAvailability (d = -1).
ChangeAvailability(bitfield, d) ==
    /\ availability' = [i \in Pieces |-> IF i \in bitfield
                                         THEN availability[i] + d
                                         ELSE availability[i]]
    /\ UNCHANGED <<states, owners, data, stored, completed, done,
                   endgameActivated, cancelChs, haveSubs>>

AddAvailability(bitfield) == ChangeAvailability(bitfield, 1)

RemoveAvailability(bitfield) == ChangeAvailability(bitfield, -1)

IncrementAvailability(i) == ChangeAvailability({i}, 1)

\* What Results returns a non-nil slice for, when the disk reads of the
\* pieces in unreadable fail.
Results(unreadable) ==
    IF HasStore
    THEN data \cup {i \in stored \ unreadable : states[i] = "Completed"}
    ELSE data

-----------------------------------------------------------------------------
(* Have subscriptions *)

SetQueue(s, sub) ==
    /\ haveSubs' = [haveSubs EXCEPT ![s] = sub]
    /\ UNCHANGED <<states, owners, data, stored, availability, completed, done,
                   endgameActivated, cancelChs>>

SubscribeHave(s) == SetQueue(s, [open |-> TRUE, queue |-> {}])

UnsubscribeHave(s) == SetQueue(s, Unsubscribed)

=============================================================================
