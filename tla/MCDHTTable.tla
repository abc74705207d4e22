----------------------------- MODULE MCDHTTable -----------------------------
(* Values for the constants of DHTTable. *)
EXTENDS DHTTable

CONSTANTS a1, a2, a3, a4, g1

\* Three-bit IDs; the node's own is 000.  Bucket 0 has the IDs 1xx.
MCSelf == <<0, 0, 0>>

Node(id, addr) == [id |-> id, addr |-> addr]

\* One node with one address, one that has moved from a dead address to a lively one, one
\* that is dead, all of bucket 0.
MCNodes == {Node(<<1, 0, 0>>, a1), Node(<<1, 0, 1>>, a2), Node(<<1, 0, 1>>, a3),
            Node(<<1, 1, 0>>, a4)}

MCValid == {n \in MCNodes : n.addr # a3}

=============================================================================
