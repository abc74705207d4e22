---------------------------- MODULE MCDHTLookup -----------------------------
(***************************************************************************)
(* An instance of DHTLookup: a network of six nodes with IDs of three bits *)
(* in which the node closest to the torrent is not the last that a lookup  *)
(* learns of.  A lookup asks n1, then n2 and n3, then n4; if n2 has        *)
(* answered, it asks n5 as well, and runs out of rounds before it has      *)
(* asked everybody.                                                        *)
(***************************************************************************)
EXTENDS DHTLookup

me == <<0, 0, 0>>
n1 == <<0, 1, 0>>
n2 == <<0, 1, 1>>
n3 == <<1, 0, 0>>
n4 == <<1, 1, 1>>
n5 == <<0, 0, 1>>

MCNode == {me, n1, n2, n3, n4, n5}

MCKnown == [n \in MCNode |-> CASE n = me -> {n1}
                               [] n = n1 -> {n2, n3}
                               [] n = n2 -> {n1, n5}
                               [] n = n3 -> {n2, n4}
                               [] n = n4 -> {n1, n2, n3}
                               [] n = n5 -> {me, n1}]

MCReliable == {me, n1, n3, n4, n5}

MCHolders == {n4}

MCInfoHash == <<1, 0, 1>>

MCFindTargets == {me}
=============================================================================
