--------------------------- MODULE TrackerSession ---------------------------
(***************************************************************************)
(* The announces of one download: handleDownload (cmd/bittorrent), the     *)
(* TrackerUpdater goroutine (internal/downloader/tracker_updater.go) and   *)
(* the MultiTracker they share (internal/tracker/multi.go), which has a    *)
(* UDP tracker and then an HTTP tracker.                                   *)
(*                                                                         *)
(* Download cancels its context when it returns, and the main goroutine    *)
(* announces "stopped" on the same tracker while the updater, which nobody *)
(* waits for, may be in the middle of a call.                              *)
(***************************************************************************)
EXTENDS UDPTracker

CONSTANTS
    PieceLength,   \* length of a piece
    TotalLength    \* length of the torrent; the last piece may be shorter

ASSUME SessionAssumption ==
    /\ Callers = {"main", "updater"}
    /\ PieceLength \in Nat \ {0}
    /\ TotalLength \in Nat \ {0}

NumPieces == (TotalLength + PieceLength - 1) \div PieceLength

VARIABLES
    main,       \* where handleDownload is
    updater,    \* where TrackerUpdater.Run is
    udpUp,      \* newUDPTracker succeeded: MultiTracker has the UDP tracker
    ctx,        \* the context of the download
    completed,  \* pm.Progress: completed pieces
    nothingLeft \* (history) some announce said that nothing is left

sessionVars == <<main, updater, udpUp, ctx, completed, nothingLeft>>
vars == <<udpVars, sessionVars>>

TypeOK ==
    /\ UDPTypeOK
    /\ main \in {"connect", "starting", "download", "stop", "stopping", "exit", "aborted"}
    /\ updater \in {"off", "select", "update", "final", "ended"}
    /\ udpUp \in BOOLEAN
    /\ ctx \in {"open", "done"}
    /\ completed \in 0..NumPieces
    /\ nothingLeft \in BOOLEAN

Init ==
    /\ n = 0 /\ expired = FALSE
    /\ at = [c \in Callers |-> IF c = "main" THEN "dial" ELSE "out"]
    /\ net = {} /\ socket = <<>> /\ taken = {}
    /\ main = "connect" /\ updater = "off"
    /\ udpUp = FALSE /\ ctx = "open"
    /\ completed = 0 /\ nothingLeft = FALSE

Running == main \notin {"exit", "aborted"}

-----------------------------------------------------------------------------
(* MultiTracker *)

\* Announce: the UDP tracker first, when there is one.
Announce(c, left) ==
    /\ at[c] = "out"
    /\ nothingLeft' = (nothingLeft \/ left = 0)
    /\ IF udpUp
       THEN MarshalAnnounce(c)
       ELSE Goto(c, "http") /\ UNCHANGED <<n, expired, net, socket, taken>>

\* Falling back to the HTTP tracker, which answers or fails.  Only the first
\* announce is looked at.
HTTPAnnounce(c) ==
    /\ Running
    /\ at[c] = "http" /\ (c = "main" => main # "connect")
    /\ \E r \in (IF main = "starting" THEN {"httpOk", "failed"} ELSE {"failed"}) : Goto(c, r)
    /\ UNCHANGED <<n, expired, net, socket, taken, sessionVars>>

Returned(c) == at[c] \in {"ok", "httpOk", "failed"}

\* The caller goes on.
EndCall(c) ==
    /\ Goto(c, "out")
    /\ taken' = taken \ {c}
    /\ UNCHANGED <<n, expired, net, socket>>

-----------------------------------------------------------------------------
(* TrackerUpdater *)

\* Mutant: a piece that has been started counts as downloaded.
MutComputeLeft ==
    IF (completed + 1) * PieceLength > TotalLength THEN 0
    ELSE TotalLength - (completed + 1) * PieceLength

computeLeft ==
    IF completed * PieceLength > TotalLength THEN 0
    ELSE TotalLength - completed * PieceLength

Done == completed = NumPieces

\* The select of Run.  When several channels are ready, any of them.
SendStopped ==
    /\ Running /\ updater = "select" /\ ctx = "done"
    /\ Announce("updater", computeLeft)
    /\ updater' = "final"
    /\ UNCHANGED <<main, udpUp, ctx, completed>>

SendCompleted ==
    /\ Running /\ updater = "select" /\ Done
    /\ Announce("updater", 0)
    /\ updater' = "final"
    /\ UNCHANGED <<main, udpUp, ctx, completed>>

SendUpdate ==
    /\ Running /\ updater = "select"
    /\ Announce("updater", computeLeft)
    /\ updater' = "update"
    /\ UNCHANGED <<main, udpUp, ctx, completed>>

\* The announce returns; its error is only logged.
UpdaterReturns ==
    /\ Running /\ updater \in {"update", "final"} /\ Returned("updater")
    /\ EndCall("updater")
    /\ updater' = IF updater = "final" THEN "ended" ELSE "select"
    /\ UNCHANGED <<main, udpUp, ctx, completed, nothingLeft>>

-----------------------------------------------------------------------------
(* handleDownload *)

\* NewMultiTracker: a UDP tracker that did not connect is left out.  Then the
\* first announce.
NewMultiTracker ==
    /\ main = "connect" /\ at["main"] \in {"ok", "http"}
    /\ udpUp' = (at["main"] = "ok")
    /\ EndCall("main")
    /\ main' = "starting"
    /\ UNCHANGED <<updater, ctx, completed, nothingLeft>>

AnnounceStarted ==
    /\ main = "starting"
    /\ Announce("main", TotalLength)
    /\ UNCHANGED <<main, updater, udpUp, ctx, completed>>

\* The announce succeeded: Download starts, with the pieces found on disk, and
\* with it the updater.  If it failed, the command ends.
StartDownload ==
    /\ main = "starting" /\ Returned("main")
    /\ EndCall("main")
    /\ IF at["main"] # "failed"
       THEN /\ main' = "download" /\ updater' = "select"
            /\ completed' \in 0..NumPieces
       ELSE main' = "aborted" /\ UNCHANGED <<updater, completed>>
    /\ UNCHANGED <<udpUp, ctx, nothingLeft>>

\* Mutant: a piece is counted again when it is completed again.
MutCompletePiece ==
    /\ main = "download"
    /\ completed' = completed + 1
    /\ UNCHANGED <<udpVars, main, updater, udpUp, ctx, nothingLeft>>

\* A worker completes a piece that was not completed before.
CompletePiece ==
    /\ main = "download" /\ ~Done
    /\ completed' = completed + 1
    /\ UNCHANGED <<udpVars, main, updater, udpUp, ctx, nothingLeft>>

\* The deadline of the download.
Deadline ==
    /\ main = "download" /\ ctx = "open"
    /\ ctx' = "done"
    /\ UNCHANGED <<udpVars, main, updater, udpUp, completed, nothingLeft>>

\* Download returns, cancelling the context, and its result is saved.  Download
\* fails when the context ends it, or when the workers have all ended and pieces
\* are missing; saving fails with every piece there.  Then the command ends.
DownloadReturns ==
    /\ main = "download"
    /\ ctx' = "done"
    /\ \/ Done /\ main' = "stop"
       \/ main' = "aborted"
    /\ UNCHANGED <<udpVars, updater, udpUp, completed, nothingLeft>>

\* "Best-effort stopped announce", on the tracker the updater is using.
AnnounceStopped ==
    /\ main = "stop"
    /\ Announce("main", 0)
    /\ main' = "stopping"
    /\ UNCHANGED <<updater, udpUp, ctx, completed>>

\* The command ends, and with it the process.
Exit ==
    /\ main = "stopping" /\ Returned("main")
    /\ EndCall("main")
    /\ main' = "exit"
    /\ UNCHANGED <<updater, udpUp, ctx, completed, nothingLeft>>

\* Time passes while nobody calls the tracker: more than a minute.
TimePasses ==
    /\ Running /\ udpUp /\ main \in {"download", "stop"}
    /\ at["main"] = "out" /\ at["updater"] = "out"
    /\ ~expired /\ expired' = TRUE
    /\ UNCHANGED <<n, at, net, socket, taken, sessionVars>>

Stopped == ~Running /\ UNCHANGED vars

-----------------------------------------------------------------------------

Step(c) == Running /\ UDPCall(c) /\ UNCHANGED sessionVars

Main ==
    \/ NewMultiTracker \/ AnnounceStarted \/ StartDownload \/ DownloadReturns
    \/ AnnounceStopped \/ Exit

Updater == SendStopped \/ SendCompleted \/ SendUpdate \/ UpdaterReturns

Next ==
    \/ \E c \in Callers : Step(c) \/ HTTPAnnounce(c)
    \/ \E c \in Callers : Running /\ (Timeout(c) \/ SocketError(c)) /\ UNCHANGED sessionVars
    \/ \E m \in net : Running /\ (Answer(m) \/ AnswerError(m) \/ Lose(m))
                        /\ UNCHANGED sessionVars
    \/ Main \/ Updater
    \/ CompletePiece \/ Deadline \/ TimePasses
    \/ Stopped

Spec == Init /\ [][Next]_vars

\* Goroutines run, a read that gets no datagram times out, and a select whose
\* channels are ready again and again takes each of them.  Nothing is assumed of
\* the trackers: an HTTP request, which has no timeout, may never end, and
\* datagrams may never be answered.
FairSpec ==
    /\ Spec
    /\ \A c \in Callers :
         /\ WF_vars(Step(c))
         /\ WF_vars(Running /\ Timeout(c) /\ UNCHANGED sessionVars)
    /\ WF_vars(Main) /\ WF_vars(UpdaterReturns) /\ SF_vars(SendStopped)

-----------------------------------------------------------------------------
(* Properties *)

\* An announce over UDP succeeds only if the tracker has taken this very
\* request, although two goroutines read the answers from one socket, and
\* answers to earlier requests or to copies of them may be in front
\* (sendWithDeadline, unmarshalUDPAnnounceResponse).
OwnAnswer == \A c \in Callers : at[c] = "ok" => c \in taken \/ main = "connect"

\* No announce of either goroutine says that nothing is left before the download
\* is complete, whatever the length of the last piece (computeLeft).
NothingLeftIsComplete == nothingLeft => Done

\* In the connect inside an announce.
Reconnecting(c) == at[c] = "connRead"

\* There are two ways in which a call of the tracker can hold up handleDownload
\* for ever, before the download or after it: an HTTP request that never ends, and
\* reconnects without end, each of which sets the shared n back to 0.  Otherwise
\* timeouts add up over requests, connects and both goroutines until the UDP
\* tracker is given up (sendWithDeadline), and MultiTracker goes on, although the
\* updater is using the same socket and may hang itself.
MainGoesOn ==
    []<>(at["main"] # "http") /\ <>[](\A c \in Callers : ~Reconnecting(c))
        => (main \in {"connect", "starting", "stop", "stopping"}
               ~> main \in {"download", "exit", "aborted"})

=============================================================================
