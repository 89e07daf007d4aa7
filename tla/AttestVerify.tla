---------------------------- MODULE AttestVerify ----------------------------
(***************************************************************************)
(* What attest::verify (programs/yieldfy/src/attest.rs) accepts, stated    *)
(* declaratively.  The transaction is the sequence of its instructions as  *)
(* the instructions sysvar shows them.  The ed25519 precompile verifies    *)
(* signatures over bytes that the offsets in the instruction's data point  *)
(* at; verify reads the bytes at fixed places of that data, and neither    *)
(* the number of signatures nor the offsets.  The two are kept apart here. *)
(* AttestScan models the procedure step by step and is checked, and        *)
(* proved, to agree with Verified below.                                   *)
(***************************************************************************)
EXTENDS Naturals, Sequences

CONSTANTS
    U64Max,     \* largest u64; kept small by the model instances
    ScanLimit   \* how many instructions verify looks at (16 in the code)

ASSUME U64MaxAssumption == U64Max \in Nat
ASSUME ScanLimitAssumption == ScanLimit \in Nat

\* u64::saturating_add and u64::saturating_sub.
SatAdd(x, y) == IF x + y > U64Max THEN U64Max ELSE x + y
SatSub(x, y) == IF x < y THEN 0 ELSE x - y

\* An ed25519 precompile instruction: the key at [16..48] of its data, the venue
\* and the slot at [112..121], whether the data reaches that far, and what the
\* precompile verified: the keys that signed, each with a venue and a slot.
Ed25519Data(key, venue, slot, signed) ==
    [program |-> "ed25519", complete |-> TRUE,
     key |-> key, venue |-> venue, slot |-> slot, signed |-> signed]

\* The one clients build: a single signature, whose offsets point at these bytes.
Ed25519Ix(key, venue, slot) == Ed25519Data(key, venue, slot, {<<key, venue, slot>>})
OfClients(ix) == ix.signed = {<<ix.key, ix.venue, ix.slot>>}

\* Any other instruction: a ComputeBudget one put in front by the wallet, an
\* ATA creation, the Yieldfy instruction itself.
OtherIx(program) == [program |-> program]

Ed25519Positions(ixs) ==
    {i \in DOMAIN ixs : i <= ScanLimit /\ ixs[i].program = "ed25519"}

IsFirstEd25519(ixs, i) ==
    /\ i \in Ed25519Positions(ixs)
    /\ \A j \in Ed25519Positions(ixs) : i <= j

\* Mutant: the comparison is the wrong way round.
FreshReversed(slot, staleness, now) == SatAdd(slot, staleness) <= now

Fresh(slot, staleness, now) == now <= SatAdd(slot, staleness)

\* attest::verify returns Ok: the first ed25519 instruction in sight has the
\* attestor's key, this venue and this slot at the places verify reads, and the
\* slot is not stale.  Whether these bytes are what was signed is not looked at.
Verified(ixs, attestor, venue, attestationSlot, staleness, now) ==
    \E i \in DOMAIN ixs :
        /\ IsFirstEd25519(ixs, i)
        /\ ixs[i].complete
        /\ ixs[i].key = attestor
        /\ ixs[i].venue = venue
        /\ ixs[i].slot = attestationSlot
        /\ Fresh(attestationSlot, staleness, now)
=============================================================================
