--------------------------- MODULE MCDepositForm ---------------------------
(* DepositForm with amounts of one decimal up to two wXRP. *)
EXTENDS DepositForm

CONSTANTS mainnet, devnet

MCFunds == [c \in {mainnet, devnet} |-> IF c = mainnet THEN 5 ELSE 25]
\* "x00.5.5", "x" and "100", which overflows.
MCPasted == {<<11, 0, 0, Dot, 5, Dot, 5>>, <<11>>, <<1, 0, 0>>}
=============================================================================
