--------------------------- MODULE MCEpochInputs ---------------------------
(* EpochInputs with three wallets, one of them with two token accounts. *)
EXTENDS EpochInputs, TLC

CONSTANTS w1, w2, w3, a1, a2, a3, a4

MCOwnerOf == a1 :> w1 @@ a2 :> w1 @@ a3 :> w2 @@ a4 :> w3

\* Every proof of a tree of up to six leaves verifies, and for no other leaf.
ASSUME TreeAssumption ==
    \A n \in 1..6 :
        LET entries == [i \in 1..n |-> [index |-> i - 1, wallet |-> w1, lamports |-> i]]
            leaves == [i \in 1..n |-> Leaf(entries[i])]
        IN  \A i, j \in 1..n : Verify(entries[j], Proof(leaves, i), Root(leaves)) <=> i = j
=============================================================================
