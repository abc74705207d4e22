-------------------------- MODULE DiskStoreProofs --------------------------
(***************************************************************************)
(* Proofs about module DiskStore, for every set of pieces and any number   *)
(* of crashes and sessions.                                                *)
(***************************************************************************)
EXTENDS DiskStore, TLAPS

\* While the process runs, memory is ahead of what could be read of the bitfield
\* file and behind the piece manager, so a piece file that is about to be
\* truncated is in none of the bitfields, or was not read.
Ahead ==
    IF pc = "down" THEN bitfield = {} /\ buf = {}
    ELSE bitfieldFile \subseteq bitfield \cup unread /\ buf \subseteq bitfield /\ bitfield \subseteq completed

\* What the steps of WritePiece have achieved.
Progress ==
    /\ pc \in {"mark", "copyBitfield", "writeTmp", "rename"} => pieceFile[index] = "whole"
    /\ pc \in {"writePiece", "mark"} => index \in completed /\ index \notin bitfield
    /\ pc \in {"copyBitfield", "writeTmp", "rename"} => index \in bitfield
    /\ pc \in {"writeTmp", "rename"} => buf = bitfield

DInv == TypeOK /\ Ahead /\ Progress /\ ResumeSound /\ Durable

\* DInv holds initially.
LEMMA DInvInit == Init => DInv
BY DiskStoreAssumption
DEF Init, DInv, TypeOK, PC, Ahead, Progress, ResumeSound, Durable

\* Every step, a crash included, preserves DInv.
LEMMA DInvStep == DInv /\ [Next]_vars => DInv'
<1> SUFFICES ASSUME DInv, [Next]_vars PROVE DInv'
  OBVIOUS
<1> USE DiskStoreAssumption
    DEF DInv, TypeOK, PC, Ahead, Progress, ResumeSound, Durable, files, memory,
        history
<1>1. CASE NewDiskStore
  BY <1>1 DEF NewDiskStore, loadBitfield
<1>2. ASSUME NEW i \in Pieces, WritePiece(i) PROVE DInv'
  BY <1>2 DEF WritePiece
<1>3. CASE WriteFile
  BY <1>3 DEF WriteFile, Return
<1>4. CASE Mark
  BY <1>4 DEF Mark
<1>5. CASE CopyBitfield
  BY <1>5 DEF CopyBitfield
<1>6. CASE WriteTmp
  BY <1>6 DEF WriteTmp, Return
<1>7. CASE Rename
  BY <1>7 DEF Rename, Return
<1>8. CASE Crash
  BY <1>8 DEF Crash, Stop
<1>9. CASE UNCHANGED vars
  BY <1>9 DEF vars
<1> QED
  BY <1>1, <1>2, <1>3, <1>4, <1>5, <1>6, <1>7, <1>8, <1>9 DEF Next

\* DInv holds in every reachable state.
LEMMA DInvAlways == Spec => []DInv
BY DInvInit, DInvStep, PTL DEF Spec

\* Every variable keeps its type, across crashes too.
THEOREM TypeTheorem == Spec => []TypeOK
BY DInvAlways, PTL DEF DInv

\* After any number of crashes, at any points, a resumed download finds only
\* whole pieces behind the marks it trusts, but for those a session has failed
\* to read.
THEOREM ResumeSoundTheorem == Spec => []ResumeSound
BY DInvAlways, PTL DEF DInv

\* A piece for which WritePiece has returned nil is not forgotten unless a
\* session fails to read the bitfield file.
THEOREM DurableTheorem == Spec => []Durable
BY DInvAlways, PTL DEF DInv

\* The bitfield file loses only marks that a session has failed to read.
THEOREM BitfieldFileGrowsTheorem == Spec => BitfieldFileGrows
<1>1. DInv /\ [Next]_vars => [bitfieldFile \subseteq bitfieldFile' \cup unread]_vars
  <2> SUFFICES ASSUME DInv, [Next]_vars PROVE bitfieldFile \subseteq bitfieldFile' \cup unread
    OBVIOUS
  <2>1. CASE Rename
    BY <2>1 DEF Rename, DInv, Ahead, Progress, history
  <2>2. CASE ~Rename
    BY <2>2 DEF Next, NewDiskStore, WritePiece, WriteFile, Mark, CopyBitfield, WriteTmp,
       Crash, files, vars
  <2> QED
    BY <2>1, <2>2
<1> QED
  BY <1>1, DInvAlways, PTL DEF Spec, BitfieldFileGrows
=============================================================================
