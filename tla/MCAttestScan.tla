---------------------------- MODULE MCAttestScan ----------------------------
(* Every instruction list of length 0..3 over a scan of 2, two keys, two   *)
(* venues and two slots, one of them the largest u64; among them data that *)
(* is too short, and data that is not what was signed.                     *)
EXTENDS AttestScan

CONSTANTS K1, K2

MCSlots == {1, U64Max}

Ixs == {Ed25519Ix(k, v, s) : k \in {K1, K2}, v \in {0, 1}, s \in MCSlots}
       \cup {[Ed25519Ix(K1, 0, 1) EXCEPT !.complete = FALSE], OtherIx("budget"),
             Ed25519Data(K1, 0, 1, {<<K2, 1, 1>>})}

MCCalls ==
    [ixs : UNION {[1..n -> Ixs] : n \in 0..(ScanLimit + 1)},
     attestor : {K1}, venue : {0, 1}, slot : MCSlots,
     staleness : {0, 1}, now : 1..U64Max]
=============================================================================
