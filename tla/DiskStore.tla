----------------------------- MODULE DiskStore -----------------------------
(***************************************************************************)
(* The disk store of a download (internal/storage/disk_store.go) across    *)
(* crashes and restarts of the process.                                    *)
(*                                                                         *)
(* WritePiece runs under the piece manager's lock, once for a piece and    *)
(* session, so one write is in progress at a time; pc is the system call   *)
(* it is about to make.  os.WriteFile truncates before it writes: a crash  *)
(* or an error may leave a partial file.  A resumed download trusts the    *)
(* bitfield file: the hash of a stored piece is never checked again.  When *)
(* the bitfield file cannot be read the session starts afresh, and writes  *)
(* over what the file still marks.                                         *)
(***************************************************************************)
EXTENDS FiniteSets

CONSTANTS
    Pieces,      \* the piece indices of the torrent
    NoIndex      \* no write is in progress

ASSUME DiskStoreAssumption == NoIndex \notin Pieces

VARIABLES
    pieceFile,     \* pieceFile[i]: the file piece-i
    bitfieldFile,  \* the pieces the bitfield file marks ({} when there is none)
    bitfield,      \* ds.bitfield
    buf,           \* the copy of bitfield that saveBitfield writes
    index,         \* the piece being written
    pc,            \* the next step of WritePiece, idle, or down
    completed,     \* the pieces the piece manager has completed this session
    written,       \* the pieces for which WritePiece has returned nil, ever
    unread         \* the pieces a session has failed to read from the bitfield
                   \* file, and for which WritePiece has not returned nil since

files == <<pieceFile, bitfieldFile>>
memory == <<bitfield, buf, index, pc, completed>>
history == <<written, unread>>
vars == <<files, memory, history>>

PC == {"down", "idle", "writePiece", "mark", "copyBitfield", "writeTmp", "rename"}

TypeOK ==
    /\ pieceFile \in [Pieces -> {"absent", "partial", "whole"}]
    /\ bitfieldFile \subseteq Pieces
    /\ bitfield \subseteq Pieces
    /\ buf \subseteq Pieces
    /\ index \in Pieces \cup {NoIndex}
    /\ pc \in PC
    /\ pc \in PC \ {"down", "idle"} => index \in Pieces
    /\ completed \subseteq Pieces
    /\ written \subseteq Pieces
    /\ unread \subseteq Pieces

\* The process is not running, and nothing is stored.
Init ==
    /\ pieceFile = [i \in Pieces |-> "absent"]
    /\ bitfieldFile = {}
    /\ written = {} /\ unread = {}
    /\ pc = "down"
    /\ bitfield = {} /\ buf = {} /\ index = NoIndex /\ completed = {}

-----------------------------------------------------------------------------

\* Mutant: the marks of the file are not copied to ds.bitfield.
MutLoadBitfield == bitfield' = {} /\ UNCHANGED unread

\* loadBitfield: the marks of the bitfield file, or none on any error of
\* os.ReadFile, which is taken for a file that does not exist.
loadBitfield ==
    \/ bitfield' = bitfieldFile /\ UNCHANGED unread
    \/ bitfield' = {} /\ unread' = unread \cup bitfieldFile

\* NewDiskStore, and the resume loop of NewPieceManager.
NewDiskStore ==
    /\ pc = "down"
    /\ loadBitfield
    /\ completed' = bitfield'
    /\ pc' = "idle"
    /\ UNCHANGED <<files, buf, index, written>>

\* WritePiece returns, with an error or nil.
Return ==
    /\ pc' = "idle"
    /\ index' = NoIndex
    /\ buf' = {}

\* Complete calls WritePiece for a piece that is not completed: the piece file
\* is created or truncated, or cannot be opened.
WritePiece(i) ==
    /\ pc = "idle"
    /\ i \notin completed
    /\ completed' = completed \cup {i}
    /\ \/ /\ pieceFile' = [pieceFile EXCEPT ![i] = "partial"]
          /\ pc' = "writePiece"
          /\ index' = i
       \/ UNCHANGED <<pieceFile, pc, index>>
    /\ UNCHANGED <<bitfieldFile, bitfield, buf, history>>

\* Mutant: the error of os.WriteFile is ignored.
MutWriteFile ==
    /\ pc = "writePiece"
    /\ pieceFile' \in {pieceFile, [pieceFile EXCEPT ![index] = "whole"]}
    /\ pc' = "mark"
    /\ UNCHANGED <<index, buf, bitfieldFile, bitfield, completed, history>>

\* The bytes of the piece are in its file, or os.WriteFile fails.
WriteFile ==
    /\ pc = "writePiece"
    /\ \/ /\ pieceFile' = [pieceFile EXCEPT ![index] = "whole"]
          /\ pc' = "mark"
          /\ UNCHANGED <<index, buf>>
       \/ Return /\ UNCHANGED pieceFile
    /\ UNCHANGED <<bitfieldFile, bitfield, completed, history>>

\* The bit of the piece is set in memory.
Mark ==
    /\ pc = "mark"
    /\ bitfield' = bitfield \cup {index}
    /\ pc' = "copyBitfield"
    /\ UNCHANGED <<files, buf, index, completed, history>>

\* saveBitfield: the copy under ds.mu.
CopyBitfield ==
    /\ pc = "copyBitfield"
    /\ buf' = bitfield
    /\ pc' = "writeTmp"
    /\ UNCHANGED <<files, bitfield, index, completed, history>>

\* Mutant: the bitfield file is written in place.
MutWriteTmp ==
    /\ pc = "writeTmp"
    /\ bitfieldFile' = {}
    /\ pc' = "rename"
    /\ UNCHANGED <<pieceFile, bitfield, index, buf, completed, history>>

\* saveBitfield: the write of the temporary file, which nobody reads.
WriteTmp ==
    /\ pc = "writeTmp"
    /\ \/ pc' = "rename" /\ UNCHANGED <<index, buf>>
       \/ Return
    /\ UNCHANGED <<files, bitfield, completed, history>>

\* saveBitfield: the temporary file replaces the bitfield file; WritePiece
\* returns nil.
Rename ==
    /\ pc = "rename"
    /\ \/ /\ bitfieldFile' = buf
          /\ written' = written \cup {index}
          /\ unread' = unread \ {index}
       \/ UNCHANGED <<bitfieldFile, history>>
    /\ Return
    /\ UNCHANGED <<pieceFile, bitfield, completed>>

\* The process ends, at any point, and its memory is gone.
Stop ==
    /\ pc # "down"
    /\ pc' = "down"
    /\ bitfield' = {} /\ buf' = {} /\ index' = NoIndex /\ completed' = {}

\* A crash of the process.  Nothing runs at the end of a session (Close
\* does nothing), so this is also how a session ends.
Crash ==
    /\ Stop
    /\ UNCHANGED <<files, history>>

Next ==
    \/ NewDiskStore
    \/ \E i \in Pieces : WritePiece(i)
    \/ WriteFile \/ Mark \/ CopyBitfield \/ WriteTmp \/ Rename
    \/ Crash

Spec == Init /\ [][Next]_vars

-----------------------------------------------------------------------------
(* Properties *)

\* A resumed download never trusts a piece that is not there: whatever is in
\* the bitfield file, or in its copies, is the name of a whole piece file, at
\* every point where the process may crash (WritePiece, saveBitfield), but for
\* the pieces a session has failed to read from the bitfield file and may be
\* writing anew.
ResumeSound ==
    \A i \in (bitfieldFile \cup bitfield \cup buf) \ unread : pieceFile[i] = "whole"

\* A piece for which WritePiece has returned nil is found again by every later
\* session: the bitfield file is never torn or overwritten with an older one
\* (saveBitfield, loadBitfield), unless a session has failed to read it since.
Durable == written \subseteq bitfieldFile \cup unread

\* The bitfield file loses a mark, in a session or between two, only when a
\* session that could not read it writes its own over it.
BitfieldFileGrows == [][bitfieldFile \subseteq bitfieldFile' \cup unread]_vars

=============================================================================
