----------------------------- MODULE AttestScan -----------------------------
(***************************************************************************)
(* attest::verify as the code runs it: the bounded scan for the first      *)
(* ed25519 instruction, one loop iteration per step, then the checks in    *)
(* their order, each with its own error.                                   *)
(***************************************************************************)
EXTENDS AttestVerify

CONSTANT Calls   \* the calls considered, each a record of verify's arguments

\* The sysvar shows the instructions of the transaction as a sequence.
ASSUME CallsAssumption ==
    \A c \in Calls : Len(c.ixs) \in Nat /\ DOMAIN c.ixs = 1..Len(c.ixs)

VARIABLES
    call,     \* the arguments of this call; never changes
    i,        \* loop index (0-based, as in the code)
    edIx,     \* index of the instruction found, or NotFound
    pc,       \* next check
    result    \* "none" until verify returns

verifyVars == <<call, i, edIx, pc, result>>

NotFound == ScanLimit + 1

Errors == {"BadAttestIx", "BadAttestor", "VenueMismatch", "AttestationStale"}
Checks == {"scan", "found", "key", "venue", "slot", "age", "done"}

VerifyTypeOK ==
    /\ call \in Calls
    /\ i \in 0..ScanLimit
    /\ edIx \in 0..NotFound
    /\ pc \in Checks
    /\ result \in {"none", "ok"} \cup Errors

VerifyInit ==
    /\ call \in Calls
    /\ i = 0
    /\ edIx = NotFound
    /\ pc = "scan"
    /\ result = "none"

\* load_instruction_at_checked(n) is Err past the last instruction.
Loaded(n) == n < Len(call.ixs)
IsEd25519(n) == call.ixs[n + 1].program = "ed25519"

ScanHit ==
    /\ pc = "scan" /\ i < ScanLimit /\ Loaded(i) /\ IsEd25519(i)
    /\ edIx' = i
    /\ pc' = "found"
    /\ UNCHANGED <<call, i, result>>

ScanNext ==
    /\ pc = "scan" /\ i < ScanLimit /\ Loaded(i) /\ ~IsEd25519(i)
    /\ i' = i + 1
    /\ UNCHANGED <<call, edIx, pc, result>>

ScanEnd ==
    /\ pc = "scan" /\ (i = ScanLimit \/ ~Loaded(i))
    /\ pc' = "found"
    /\ UNCHANGED <<call, i, edIx, result>>

\* require!(holds, error): go on to the next check or return the error.
Require(here, holds, error, next) ==
    /\ pc = here
    /\ pc' = IF holds THEN next ELSE "done"
    /\ result' = IF ~holds THEN error
                 ELSE IF next = "done" THEN "ok" ELSE result
    /\ UNCHANGED <<call, i, edIx>>

Ed == call.ixs[edIx + 1]

\* Mutant: the venue byte is not compared.
CheckVenueSkipped == Require("venue", TRUE, "VenueMismatch", "slot")

CheckFound == Require("found", edIx # NotFound /\ Ed.complete, "BadAttestIx", "key")
CheckKey   == Require("key", Ed.key = call.attestor, "BadAttestor", "venue")
CheckVenue == Require("venue", Ed.venue = call.venue, "VenueMismatch", "slot")
CheckSlot  == Require("slot", Ed.slot = call.slot, "AttestationStale", "age")
CheckAge   == Require("age", call.now <= SatAdd(Ed.slot, call.staleness),
                      "AttestationStale", "done")

VerifyNext ==
    \/ ScanHit \/ ScanNext \/ ScanEnd
    \/ CheckFound \/ CheckKey \/ CheckVenue \/ CheckSlot \/ CheckAge

\* One call runs to its end: the runtime never abandons it half-way.
VerifySpec == VerifyInit /\ [][VerifyNext]_verifyVars /\ WF_verifyVars(VerifyNext)

-----------------------------------------------------------------------------
Accepts ==
    Verified(call.ixs, call.attestor, call.venue, call.slot,
             call.staleness, call.now)

\* verify accepts a transaction exactly when the first ed25519 instruction in
\* its scan carries the attestor's key, this venue and this slot, still fresh, at
\* the places it reads (AUDIT.md: it "must reject everything except the exact
\* (venue, slot) pair").  The attestor then signed that pair if the instruction is
\* laid out as clients lay it out; of any other layout verify ensures no more than
\* the bytes.
AcceptsExactly ==
    pc = "done" =>
        /\ result = "ok" <=> Accepts
        /\ result = "ok" /\ OfClients(Ed) =>
              <<call.attestor, call.venue, call.slot>> \in Ed.signed

\* The error a caller sees names the first check that fails: a signature by
\* another key is BadAttestor even when it is stale as well.
ErrorNamesFirstFailure ==
    /\ result = "BadAttestIx" =>
         \A n \in DOMAIN call.ixs : IsFirstEd25519(call.ixs, n) => ~call.ixs[n].complete
    /\ result = "AttestationStale" =>
         \E n \in DOMAIN call.ixs :
            /\ IsFirstEd25519(call.ixs, n)
            /\ call.ixs[n].key = call.attestor
            /\ call.ixs[n].venue = call.venue

=============================================================================
