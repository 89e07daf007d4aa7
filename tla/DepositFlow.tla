---------------------------- MODULE DepositFlow ----------------------------
(***************************************************************************)
(* A deposit from the click to the message the user sees: the dashboard's  *)
(* deposit view, the SDK client, the optimizer that signs, the wallet, and *)
(* the chain that executes the transaction some time later.  Every await   *)
(* is a place where slots go by, an admin changes the Config, the          *)
(* optimizer restarts, or the user leaves the view.                        *)
(*                                                                         *)
(* An attempt is one run of the view's onConfirm; it goes on in the        *)
(* background when the view is left, and Retry starts another one.         *)
(***************************************************************************)
EXTENDS AttestVerify, VenueScore

CONSTANTS
    Attempts,    \* attempts the user may start, numbered in their order
    Keys,        \* ed25519 keys of optimizers and of Config.attestor
    Feeds,       \* answers of the yield feed: see VenueScore
    NoAtt,       \* no attestation yet
    Staleness,   \* Config.staleness_slots
    Funds,       \* how many deposits the wallet's wXRP allows
    Lifetime,    \* slots a blockhash is good for (150 blocks on Solana)
    MaxSlot      \* bound on the slots explored, deadlines waited out apart

ASSUME FeedsAssumption ==
    \A feed \in Feeds : /\ DOMAIN feed \subseteq Venues
                        /\ \A v \in DOMAIN feed : feed[v] \in Snapshots
ASSUME NumbersAssumption ==
    /\ Attempts \subseteq Nat
    /\ Staleness \in Nat /\ Funds \in Nat /\ Lifetime \in Nat /\ MaxSlot \in Nat

VARIABLES
    slot,      \* the cluster's slot
    config,    \* the fields of Config that decide over a deposit
    signer,    \* the key the running optimizer signs with
    funds,     \* deposits the wallet can still pay for
    pc,        \* what each attempt awaits
    att,       \* the attestation each attempt was given
    shown,     \* is the view that started the attempt still showing it?
    stage,     \* what that view says of it
    deadline,  \* the last slot its confirmation waits for; 0 outside that wait
    tx,        \* the attempt's transaction
    valid,     \* the last slot in which it can execute; 0 when it no longer can
    upset      \* ghost: was it made to fail after its simulation had passed?

chain == <<slot, config, funds>>
transaction == <<tx, valid, upset>>
vars == <<chain, signer, pc, att, shown, stage, deadline, transaction>>

Attestations == [key : Keys, venue : Venues, slot : Nat, listed : BOOLEAN]
Steps == {"new", "attest", "receive", "prepare", "wallet", "blockhash", "confirm", "ended"}

\* "expired" is the error whose message says that the transaction has expired.
Stages == {"working", "done", "error", "expired"}

TypeOK ==
    /\ slot \in Nat
    /\ config \in [attestor : Keys, paused : BOOLEAN]
    /\ signer \in Keys
    /\ funds \in 0..Funds
    /\ pc \in [Attempts -> Steps]
    /\ att \in [Attempts -> Attestations \cup {NoAtt}]
    /\ shown \in [Attempts -> BOOLEAN]
    /\ stage \in [Attempts -> Stages]
    /\ deadline \in [Attempts -> Nat] /\ valid \in [Attempts -> Nat]
    /\ tx \in [Attempts -> {"none", "flying", "landed", "failed"}]
    /\ upset \in [Attempts -> BOOLEAN]

Init ==
    /\ slot = 0
    /\ signer \in Keys
    /\ config = [attestor |-> signer, paused |-> FALSE]
    /\ funds = Funds
    /\ pc = [a \in Attempts |-> "new"]
    /\ att = [a \in Attempts |-> NoAtt]
    /\ shown = [a \in Attempts |-> FALSE]
    /\ stage = [a \in Attempts |-> "working"]
    /\ deadline = [a \in Attempts |-> 0] /\ valid = [a \in Attempts |-> 0]
    /\ tx = [a \in Attempts |-> "none"]
    /\ upset = [a \in Attempts |-> FALSE]

Goto(a, step) == pc' = [pc EXCEPT ![a] = step]

\* The attempt is over; a view that was left shows nothing of it.
End(a, outcome) ==
    /\ Goto(a, "ended")
    /\ deadline' = [deadline EXCEPT ![a] = 0]
    /\ stage' = IF shown[a] THEN [stage EXCEPT ![a] = outcome] ELSE stage

-----------------------------------------------------------------------------
(* The deposit view. *)

\* Confirm in a fresh view, Retry after an error, or a new deposit after a
\* success: the view shows one attempt, and offers no button while it works.
Confirm(a) ==
    /\ pc[a] = "new"
    /\ \A b \in Attempts : b < a => pc[b] # "new"
    /\ \A b \in Attempts : shown[b] => stage[b] # "working"
    /\ Goto(a, "attest")
    /\ shown' = [b \in Attempts |-> b = a]
    /\ stage' = [b \in Attempts |-> "working"]
    /\ UNCHANGED <<chain, signer, att, deadline, transaction>>

\* The user goes to another page: the view unmounts, its attempt runs on.
Leave ==
    /\ \E a \in Attempts : shown[a]
    /\ shown' = [a \in Attempts |-> FALSE]
    /\ stage' = [a \in Attempts |-> "working"]
    /\ UNCHANGED <<chain, signer, pc, att, deadline, transaction>>

\* The attestation arrives; an attempt whose view was left stops here.
Receive(a) ==
    /\ pc[a] = "receive"
    /\ Goto(a, IF shown[a] THEN "prepare" ELSE "ended")
    /\ UNCHANGED <<chain, signer, att, shown, stage, deadline, transaction>>

\* The request to the optimizer throws: it was refused, or its answer is lost.
RequestFails(a) ==
    /\ pc[a] \in {"attest", "receive"}
    /\ End(a, "error")
    /\ UNCHANGED <<chain, signer, att, shown, transaction>>

\* The attestation arrives, and there was no client when the attempt began: no
\* wallet that signs, or no program id.
NotReady(a) ==
    /\ pc[a] = "receive"
    /\ End(a, "error")
    /\ UNCHANGED <<chain, signer, att, shown, transaction>>

-----------------------------------------------------------------------------
(* The optimizer. *)

SignAttestation(venue, s) == [key |-> signer, venue |-> venue, slot |-> s]

\* GET /choose, and the choice in GET /attest: the winner for a profile, and
\* whether the feed lists its pool, as the snapshot in the answer says.
Choices ==
    {choice \in [venue : Venues, listed : BOOLEAN] :
        \E feed \in Feeds, profile \in Profiles :
            /\ Chooses(choice.venue, FetchSnapshots(feed), profile)
            /\ choice.listed = (choice.venue \in DOMAIN feed)}

Answer(choice, attestation) ==
    [key |-> attestation.key, venue |-> attestation.venue, slot |-> attestation.slot,
     listed |-> choice.listed]

\* GET /attest: reads the feed and the slot, chooses the venue, signs.
Attest(a) ==
    /\ pc[a] = "attest"
    /\ \E choice \in Choices :
         att' = [att EXCEPT ![a] = Answer(choice, SignAttestation(choice.venue, slot))]
    /\ Goto(a, "receive")
    /\ UNCHANGED <<chain, signer, shown, stage, deadline, transaction>>

\* A restart, without YIELDFY_ATTESTOR_KEY or with a new one: another key.
Restart(key) ==
    /\ key # signer
    /\ signer' = key
    /\ UNCHANGED <<chain, pc, att, shown, stage, deadline, transaction>>

-----------------------------------------------------------------------------
(* The client and the wallet. *)

\* Attestation first, then the token account if it is missing, then deposit.
TransactionOf(a) ==
    <<Ed25519Ix(att[a].key, att[a].venue, att[a].slot), OtherIx("yieldfy")>>

\* What the program decides about the attempt's transaction at this moment.
Accepts(a) ==
    /\ ~config.paused
    /\ att[a].venue = Kamino
    /\ Verified(TransactionOf(a), config.attestor, att[a].venue, att[a].slot,
                Staleness, slot)
    /\ funds > 0

\* The Config and the token account are read, and the transaction is built.
Prepare(a) ==
    /\ pc[a] = "prepare"
    /\ Goto(a, "wallet")
    /\ UNCHANGED <<chain, signer, att, shown, stage, deadline, transaction>>

\* One of the reads throws.
PrepareFails(a) ==
    /\ pc[a] = "prepare"
    /\ End(a, "error")
    /\ UNCHANGED <<chain, signer, att, shown, transaction>>

\* Approved: the transaction is simulated, and sent if that succeeds, with a
\* blockhash the wallet has asked for some time before.
\* Mutant: it is sent without a simulation.
SubmitBlindly(a) ==
    /\ pc[a] = "wallet"
    /\ tx' = [tx EXCEPT ![a] = "flying"]
    /\ \E left \in 0..Lifetime : valid' = [valid EXCEPT ![a] = slot + left]
    /\ UNCHANGED <<chain, signer, att, shown, upset>>

Submit(a) ==
    /\ pc[a] = "wallet"
    /\ Accepts(a)
    /\ tx' = [tx EXCEPT ![a] = "flying"]
    /\ \E left \in 0..Lifetime : valid' = [valid EXCEPT ![a] = slot + left]
    /\ UNCHANGED <<chain, signer, att, shown, upset>>

Send(a) ==
    /\ Submit(a)
    /\ Goto(a, "blockhash")
    /\ UNCHANGED <<stage, deadline>>

\* It is sent, and the answer with its signature is lost.
SendLost(a) ==
    /\ Submit(a)
    /\ End(a, "error")

\* The user declines, or the simulation fails.
Reject(a) ==
    /\ pc[a] = "wallet"
    /\ End(a, "error")
    /\ UNCHANGED <<chain, signer, att, shown, transaction>>

\* getLatestBlockhash, once it is sent: how long the confirmation waits.
\* Mutant: the wait counts from when the optimizer answered.
BlockhashOfBefore(a) ==
    /\ pc[a] = "blockhash"
    /\ deadline' = [deadline EXCEPT ![a] = att[a].slot + Lifetime]
    /\ Goto(a, "confirm")
    /\ UNCHANGED <<chain, signer, att, shown, stage, transaction>>

Blockhash(a) ==
    /\ pc[a] = "blockhash"
    /\ deadline' = [deadline EXCEPT ![a] = slot + Lifetime]
    /\ Goto(a, "confirm")
    /\ UNCHANGED <<chain, signer, att, shown, stage, transaction>>

BlockhashFails(a) ==
    /\ pc[a] = "blockhash"
    /\ End(a, "error")
    /\ UNCHANGED <<chain, signer, att, shown, transaction>>

\* confirmTransaction returns once the transaction has executed, well or not;
\* the client does not look which.
Confirmed(a) ==
    /\ pc[a] = "confirm"
    /\ tx[a] \in {"landed", "failed"}
    /\ End(a, "done")
    /\ UNCHANGED <<chain, signer, att, shown, transaction>>

\* Mutant: what the confirmation throws is not caught.
ConfirmThrows(a) ==
    /\ pc[a] = "confirm"
    /\ slot > deadline[a]
    /\ Goto(a, "ended")
    /\ deadline' = [deadline EXCEPT ![a] = 0]
    /\ UNCHANGED <<chain, signer, att, shown, stage, transaction>>

\* It throws when its deadline is past, even if the transaction has executed and
\* only the news of it has not come.
ConfirmExpires(a) ==
    /\ pc[a] = "confirm"
    /\ slot > deadline[a]
    /\ End(a, "expired")
    /\ UNCHANGED <<chain, signer, att, shown, transaction>>

\* It throws for another reason, whatever becomes of the transaction.
ConfirmFails(a) ==
    /\ pc[a] = "confirm"
    /\ End(a, "error")
    /\ UNCHANGED <<chain, signer, att, shown, transaction>>

-----------------------------------------------------------------------------
(* The chain. *)

\* A step of the chain makes a transaction in the air fail that would have
\* succeeded: a pause, a rotation, wXRP spent, or its attestation gone stale.
Upsets(a) ==
    /\ tx'[a] = "flying"
    /\ \/ config'.paused \/ config'.attestor # config.attestor
       \/ funds' < funds
       \/ ~Fresh(att[a].slot, Staleness, slot')
ChainMoves ==
    /\ upset' = [a \in Attempts |-> tx'[a] # "landed" /\ (upset[a] \/ Upsets(a))]
    /\ valid' = [a \in Attempts |-> IF tx'[a] = "flying" THEN valid[a] ELSE 0]
    /\ UNCHANGED <<signer, pc, att, shown, stage, deadline>>

Execute(a) ==
    /\ tx[a] = "flying" /\ slot <= valid[a]
    /\ tx' = [tx EXCEPT ![a] = IF Accepts(a) THEN "landed" ELSE "failed"]
    /\ funds' = IF Accepts(a) THEN funds - 1 ELSE funds
    /\ UNCHANGED <<slot, config>>
    /\ ChainMoves

Admin ==
    /\ \/ \E key \in Keys : config' = [config EXCEPT !.attestor = key]
       \/ \E paused \in BOOLEAN : config' = [config EXCEPT !.paused = paused]
    /\ UNCHANGED <<slot, funds, tx>>
    /\ ChainMoves

\* Slots go by, as many as may be.
Tick ==
    /\ \E s \in (slot + 1)..MaxSlot : slot' = s
    /\ UNCHANGED <<config, funds, tx>>
    /\ ChainMoves

PassDeadline(a) ==
    /\ pc[a] = "confirm" /\ slot <= deadline[a]
    /\ slot' = deadline[a] + 1
    /\ UNCHANGED <<config, funds, tx>>
    /\ ChainMoves

\* The steps of an attempt that wait for the network, not for the user.
Progress(a) ==
    \/ Attest(a) \/ RequestFails(a) \/ Receive(a) \/ NotReady(a)
    \/ Prepare(a) \/ PrepareFails(a) \/ Blockhash(a) \/ BlockhashFails(a)
    \/ Confirmed(a) \/ ConfirmExpires(a)

\* What the wallet makes of a transaction.
Prompted(a) == Send(a) \/ SendLost(a) \/ Reject(a)

Next ==
    \/ \E a \in Attempts :
        \/ Confirm(a) \/ Progress(a) \/ Prompted(a) \/ ConfirmFails(a)
        \/ Execute(a) \/ PassDeadline(a)
    \/ Leave
    \/ \E key \in Keys : Restart(key)
    \/ Admin
    \/ Tick

\* A request is answered or fails, and time passes any deadline.  A transaction
\* may never execute, and a wallet popup may stay open for ever.
Fair(a) == WF_vars(Progress(a)) /\ WF_vars(PassDeadline(a))
Fairness == \A a \in Attempts : Fair(a)

Spec == Init /\ [][Next]_vars /\ Fairness

-----------------------------------------------------------------------------
(* Properties. *)

\* When the user reads that a deposit has expired, and may press Retry, nothing is
\* to come of it any more, although the wallet's blockhash is older than the one
\* the confirmation waits for, and it was sent and executes at any time.
ExpiredIsSettled ==
    \A a \in Attempts : stage[a] = "expired" => tx[a] # "flying" \/ slot > valid[a]

\* "Deposit confirmed" is shown of a transaction that deposited, or of one that
\* would have when it was simulated, and was made to fail before it executed: by a
\* pause or a rotation, another attempt that spent the wXRP, or its age.
DoneMeansDeposited ==
    \A a \in Attempts : stage[a] = "done" => tx[a] = "landed" \/ (tx[a] = "failed" /\ upset[a])

\* The optimizer sends a deposit to another venue than Kamino, where the program
\* refuses it, only once the feed lists that venue's pool: as long as the pools
\* are placeholders every deposit can go through.
OtherVenueMeansListed ==
    \A a \in Attempts : att[a] # NoAtt /\ att[a].venue # Kamino => att[a].listed

\* What an attempt waits for, other than the user, can come, whatever was changed
\* under it: the answer to a request, or the end of the wait for a confirmation.
NeverStuck ==
    \A a \in Attempts :
        /\ pc[a] \in {"attest", "receive", "prepare", "blockhash"} => ENABLED <<Progress(a)>>_vars
        /\ pc[a] = "confirm" => IF slot <= deadline[a]
                               THEN ENABLED <<PassDeadline(a)>>_vars
                               ELSE ENABLED <<Progress(a)>>_vars

\* So a view that stays open does not show "working" for ever, unless the wallet
\* still waits for the user.
OutcomeShown ==
    /\ []NeverStuck
    /\ \A a \in Attempts :
         pc[a] \in Steps \ {"new", "wallet"} ~>
             pc[a] = "wallet" \/ stage[a] # "working" \/ ~shown[a]
=============================================================================
