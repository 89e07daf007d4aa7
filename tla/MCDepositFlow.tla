--------------------------- MODULE MCDepositFlow ---------------------------
(* DepositFlow with a feed that lists no pool (the code's placeholders) and  *)
(* one with a poor, over-used market on Kamino and a rich one on marginfi,   *)
(* so that each of the two can win.                                          *)
EXTENDS DepositFlow

Poor == [apy |-> 0, tvl |-> 0, util |-> 100]
Rich == [apy |-> 12, tvl |-> 40, util |-> 75]

MCFeeds == {[v \in {} |-> Poor],
            [v \in {0, 1} |-> IF v = 0 THEN Poor ELSE Rich]}
=============================================================================
