-------------------------- MODULE OneToOneWrapper --------------------------
(***************************************************************************)
(* What the on-chain program promises as a whole (README: "Deposit wXRP.   *)
(* Receive yXRP 1:1"; AUDIT.md invariants 4 and 5): a reserve that always  *)
(* covers the receipts issued against it.  Wrapping adds the same amount   *)
(* to both, and never happens while halted; unwrapping takes the same      *)
(* amount from both, halted or not.  Holders may also destroy receipts,    *)
(* and anyone may add to the reserve; nothing else moves either.           *)
(***************************************************************************)
EXTENDS Naturals

VARIABLES
    supply,    \* yXRP receipts in existence
    reserve,   \* wXRP held against them
    halted     \* the circuit breaker

vars == <<supply, reserve, halted>>

Covered == supply <= reserve

Init == supply = 0 /\ reserve = 0 /\ halted = FALSE

Wrap ==
    /\ ~halted
    /\ \E n \in 1..reserve' : supply' = supply + n /\ reserve' = reserve + n
    /\ UNCHANGED halted

Unwrap ==
    /\ \E n \in 1..supply : supply' = supply - n /\ reserve' = reserve - n
    /\ UNCHANGED halted

DestroyReceipts ==
    /\ supply' < supply
    /\ UNCHANGED <<reserve, halted>>

AddReserve ==
    /\ reserve' > reserve
    /\ UNCHANGED <<supply, halted>>

Switch ==
    /\ halted' \in BOOLEAN
    /\ UNCHANGED <<supply, reserve>>

Next == Wrap \/ Unwrap \/ DestroyReceipts \/ AddReserve \/ Switch

Spec == Init /\ [][Next]_vars
=============================================================================
