---------------------------- MODULE MCDownloader ----------------------------
(***************************************************************************)
(* Instances of Downloader for TLC: the peer addresses of the workers and  *)
(* the bitfields their peers send.                                         *)
(***************************************************************************)
EXTENDS Downloader

CONSTANT MinOffer   \* the number of pieces of the smallest bitfield a peer sends

ASSUME MCAssumption == MinOffer \in 0..total

MCAddrOf == [w \in Workers |-> w]

MCOffers == {s \in SUBSET Pieces : Cardinality(s) >= MinOffer}
=============================================================================
