--------------------------- MODULE DownloadBoard ---------------------------
(***************************************************************************)
(* What Downloader.Download promises its caller: pieces are obtained one   *)
(* by one and never lost again, it returns once, and it returns the file   *)
(* only if it has every piece.                                             *)
(***************************************************************************)
CONSTANT Pieces

VARIABLES
    have,      \* the pieces obtained so far
    outcome    \* running, or what Download returned

Init ==
    /\ have \in SUBSET Pieces
    /\ outcome = "running"

Obtain ==
    /\ \E i \in Pieces \ have : have' = have \cup {i}
    /\ UNCHANGED outcome

Return ==
    /\ outcome = "running"
    /\ outcome' \in {"missing", "timeout"} \cup {o \in {"ok"} : have = Pieces}
    /\ UNCHANGED have

Next == Obtain \/ Return

Spec == Init /\ [][Next]_<<have, outcome>>
=============================================================================
