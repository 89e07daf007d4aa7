----------------------------- MODULE OpsScripts -----------------------------
(***************************************************************************)
(* The scripts operators run beside a live program: on mainnet the watcher *)
(* (watch-mainnet.ts) and the smoke test (smoke-test-mainnet.ts), on devnet *)
(* the circuit-breaker drill (circuit-breaker-dryrun.ts) and the deposit    *)
(* script (devnet-deposit.ts).  Each reads the chain account by account,    *)
(* while users, admins and the other script go on; any RPC call may fail,   *)
(* and a transaction whose confirmation failed may have landed.             *)
(*                                                                         *)
(* The program is reduced to what these scripts read.  An amount is a       *)
(* number of deposits; principal stands for a Position's receipt_supply as  *)
(* well, which moves with it (YieldfyProgram, Lockstep).                    *)
(***************************************************************************)
EXTENDS Naturals, FiniteSets, Functions

CONSTANTS
    Users,     \* holders of positions and of yXRP
    Signer,    \* the one whose key the scripts sign with
    MaxMoves,  \* bound on what users and admins do
    MaxVault,  \* bound on the vault
    MaxFailures \* bound on failed RPC calls

ASSUME OpsAssumption ==
    Signer \in Users /\ IsFiniteSet(Users) /\ {MaxMoves, MaxVault, MaxFailures} \subseteq Nat

\* What else the watcher pins of the Config.
Pinned == {"authority", "attestor", "cap"}

VARIABLES
    cluster,       \* mainnet or devnet
    paused, drift, \* Config.paused; the pinned fields that differ
    opened, principal, vault, yxrp, \* positions, vault_wxrp.amount, receipts held
    moves, failures,
    watch,     \* the watcher, see Watches
    quiet,     \* ghost: nothing moved and nothing failed since the watcher began
    smoke,     \* the deposit script
    drill,     \* the drill
    meddled    \* ghost: the drill met a fault, or someone else used the switch

settings == <<paused, drift>>
funds == <<opened, principal, vault, yxrp>>
accounts == <<settings, funds>>
opsVars == <<cluster, accounts, moves, failures, watch, quiet, smoke, drill, meddled>>

Most == MaxVault * Cardinality(Users)
Watches == [at : {"off", "list", "position", "vault", "supply", "alert"},
            left : SUBSET Users, bad : BOOLEAN, sum : 0..Most, vault : 0..Most,
            told : BOOLEAN,
            verdict : {"none", "healthy", "failing", "error"}]
Smokes == [at : {"off", "sign", "before", "send", "after"}, before : 0..Most,
           landed : BOOLEAN, calm : BOOLEAN,
           verdict : {"none", "passed", "broken", "error"}]
Drills == {"off", "pause", "deposit", "unpause", "verify", "complete"}

OpsTypeOK ==
    /\ cluster \in {"mainnet", "devnet"}
    /\ paused \in BOOLEAN /\ drift \subseteq Pinned
    /\ opened \subseteq Users /\ vault \in 0..Most
    /\ principal \in [Users -> 0..Most] /\ yxrp \in [Users -> 0..Most]
    /\ moves \in 0..MaxMoves /\ failures \in 0..MaxFailures
    /\ watch \in Watches /\ smoke \in Smokes /\ drill \in Drills
    /\ quiet \in BOOLEAN /\ meddled \in BOOLEAN

OpsInit ==
    /\ cluster \in {"mainnet", "devnet"}
    /\ paused = FALSE /\ drift = {}
    /\ opened = {} /\ vault = 0
    /\ principal = [u \in Users |-> 0] /\ yxrp = [u \in Users |-> 0]
    /\ moves = 0 /\ failures = 0 /\ quiet = TRUE /\ meddled = FALSE
    /\ watch = [at |-> "off", left |-> {}, bad |-> FALSE, sum |-> 0, vault |-> 0,
                told |-> FALSE, verdict |-> "none"]
    /\ smoke = [at |-> "off", before |-> 0, landed |-> FALSE, calm |-> TRUE,
                verdict |-> "none"]
    /\ drill = "off"

-----------------------------------------------------------------------------
(* Users and admins. *)

\* deposit_wxrp_to_kamino of one unit by u.
Deposit(u) ==
    /\ vault < MaxVault
    /\ opened' = opened \cup {u}
    /\ principal' = [principal EXCEPT ![u] = @ + 1]
    /\ vault' = vault + 1
    /\ yxrp' = [yxrp EXCEPT ![u] = @ + 1]

Withdraw(u) ==
    /\ principal[u] > 0 /\ yxrp[u] > 0
    /\ principal' = [principal EXCEPT ![u] = @ - 1]
    /\ vault' = vault - 1
    /\ yxrp' = [yxrp EXCEPT ![u] = @ - 1]
    /\ UNCHANGED opened

\* A transfer of wXRP into the vault; a burn and a transfer of receipts.
Donate == vault < MaxVault /\ vault' = vault + 1 /\ UNCHANGED <<opened, principal, yxrp>>
BurnReceipt(u) ==
    /\ yxrp[u] > 0 /\ yxrp' = [yxrp EXCEPT ![u] = @ - 1]
    /\ UNCHANGED <<opened, principal, vault>>
SendReceipt(u, v) ==
    /\ u # v /\ yxrp[u] > 0
    /\ yxrp' = [yxrp EXCEPT ![u] = @ - 1, ![v] = @ + 1]
    /\ UNCHANGED <<opened, principal, vault>>

\* What a change on chain does to the ghosts.
Disturb ==
    /\ quiet' = FALSE
    /\ smoke' = [smoke EXCEPT !.calm = @ /\ yxrp'[Signer] = yxrp[Signer]]

Move == moves < MaxMoves /\ moves' = moves + 1 /\ Disturb /\ UNCHANGED <<cluster, failures, watch, drill>>

UserMove ==
    /\ \/ \E u \in Users : (~paused /\ Deposit(u)) \/ Withdraw(u) \/ BurnReceipt(u)
       \/ \E u, v \in Users : SendReceipt(u, v)
       \/ Donate
    /\ UNCHANGED <<settings, meddled>> /\ Move

AdminMove ==
    /\ \/ paused' = ~paused /\ meddled' = TRUE /\ UNCHANGED drift
       \/ /\ \E f \in Pinned : drift' = (drift \cup {f}) \ (drift \cap {f})
          /\ UNCHANGED <<paused, meddled>>
    /\ UNCHANGED funds /\ Move

Failure == failures < MaxFailures /\ failures' = failures + 1
NoFailure == UNCHANGED <<cluster, moves, failures>>

-----------------------------------------------------------------------------
(* The watcher, once every ten minutes. *)

\* Mutant: the authority is not compared.
SuspectAttestor == paused \/ drift \cap {"attestor", "cap"} # {}

Suspect == paused \/ drift # {}

Matches(sum, v, supply) == sum = v /\ sum = supply

WatchTo(w) == watch' = w /\ UNCHANGED <<accounts, smoke, drill, meddled>>

\* checks 1 to 4, from one read of the Config
WatchConfig ==
    /\ cluster = "mainnet" /\ watch.at = "off"
    /\ WatchTo([at |-> "list", left |-> {}, bad |-> Suspect, sum |-> 0, vault |-> 0,
                told |-> FALSE, verdict |-> "none"])
    /\ quiet' = TRUE /\ NoFailure

\* the positions there are, then each of them
WatchList ==
    /\ watch.at = "list"
    /\ WatchTo([watch EXCEPT !.at = "position", !.left = opened])
    /\ UNCHANGED quiet /\ NoFailure
WatchPosition ==
    /\ watch.at = "position"
    /\ \/ \E u \in watch.left :
            WatchTo([watch EXCEPT !.left = @ \ {u}, !.sum = @ + principal[u]])
       \/ watch.left = {} /\ WatchTo([watch EXCEPT !.at = "vault"])
    /\ UNCHANGED quiet /\ NoFailure

\* getAccount(...).catch(() => null): a failed read is a balance of zero.
WatchVault ==
    /\ watch.at = "vault"
    /\ \/ WatchTo([watch EXCEPT !.at = "supply", !.vault = vault])
          /\ UNCHANGED quiet /\ NoFailure
       \/ WatchTo([watch EXCEPT !.at = "supply", !.vault = 0])
          /\ quiet' = FALSE /\ Failure /\ UNCHANGED <<cluster, moves>>

WatchEnds(healthy) ==
    WatchTo(IF healthy THEN [watch EXCEPT !.at = "off", !.verdict = "healthy"]
            ELSE [watch EXCEPT !.at = "alert"])

\* Mutant: a vault that holds more than the positions is taken for healthy.
WatchSupplyAtLeast ==
    /\ watch.at = "supply"
    /\ WatchEnds(~watch.bad /\ watch.sum <= watch.vault /\ watch.sum = SumFunction(yxrp))
    /\ UNCHANGED quiet /\ NoFailure

WatchSupply ==
    /\ watch.at = "supply"
    /\ WatchEnds(~watch.bad /\ Matches(watch.sum, watch.vault, SumFunction(yxrp)))
    /\ UNCHANGED quiet /\ NoFailure

\* alertWebhook, whose own failure is caught, before the exit code says so too.
WatchAlert ==
    /\ watch.at = "alert"
    /\ \/ WatchTo([watch EXCEPT !.at = "off", !.verdict = "failing", !.told = TRUE])
          /\ NoFailure
       \/ WatchTo([watch EXCEPT !.at = "off", !.verdict = "failing"])
          /\ Failure /\ UNCHANGED <<cluster, moves>>
    /\ UNCHANGED quiet

\* An RPC call throws: the exit code is 1, and nobody is alerted.
WatchFails ==
    /\ watch.at \notin {"off", "alert"} /\ Failure
    /\ WatchTo([watch EXCEPT !.at = "off", !.verdict = "error"])
    /\ UNCHANGED <<cluster, moves, quiet>>

Watch ==
    WatchConfig \/ WatchList \/ WatchPosition \/ WatchVault \/ WatchSupply \/ WatchAlert

-----------------------------------------------------------------------------
(* The deposit scripts.  Only the mainnet one looks at the Config first and  *)
(* compares the receipts before and after.                                  *)

SmokeTo(s) == smoke' = s
SmokeEnds(v) == SmokeTo([smoke EXCEPT !.at = "off", !.verdict = v])

SmokeBegins == [at |-> "sign", before |-> 0, landed |-> FALSE, calm |-> TRUE,
                verdict |-> "none"]

SmokeStart ==
    /\ cluster = "mainnet" /\ smoke.at = "off"
    /\ IF paused \/ "attestor" \in drift THEN SmokeEnds("error") ELSE SmokeTo(SmokeBegins)
    /\ NoFailure /\ UNCHANGED <<accounts, watch, quiet, drill, meddled>>

\* getSlot and the signature.
SmokeSign ==
    /\ cluster = "mainnet" /\ smoke.at = "sign"
    /\ SmokeTo([smoke EXCEPT !.at = "before"])
    /\ NoFailure /\ UNCHANGED <<accounts, watch, quiet, drill, meddled>>

\* On devnet the wXRP for it is minted first, nothing is checked.
DevnetPrepare ==
    /\ cluster = "devnet"
    /\ \/ smoke.at = "off" /\ SmokeTo(SmokeBegins)
       \/ smoke.at = "sign" /\ SmokeTo([smoke EXCEPT !.at = "send"])
    /\ NoFailure /\ UNCHANGED <<accounts, watch, quiet, drill, meddled>>

\* getAccount(...).catch(() => null) again.
SmokeBefore ==
    /\ smoke.at = "before"
    /\ \/ /\ SmokeTo([smoke EXCEPT !.at = "send", !.before = yxrp[Signer], !.calm = TRUE])
          /\ NoFailure
       \/ /\ SmokeTo([smoke EXCEPT !.at = "send", !.before = 0, !.calm = FALSE])
          /\ Failure /\ UNCHANGED <<cluster, moves>>
    /\ UNCHANGED <<accounts, watch, quiet, drill, meddled>>

\* The program takes a deposit that its attestor signed while it is not paused,
\* if there is wXRP left (MaxVault in all).
Accepted == ~paused /\ "attestor" \notin drift /\ vault < MaxVault

\* .rpc(): the deposit lands and is confirmed, or the script throws.
RpcDeposit ==
    /\ smoke.at = "send"
    /\ IF Accepted
       THEN /\ Deposit(Signer) /\ SmokeTo([smoke EXCEPT !.at = "after", !.landed = TRUE])
            /\ quiet' = FALSE
       ELSE SmokeEnds("error") /\ UNCHANGED <<funds, quiet>>
    /\ NoFailure /\ UNCHANGED <<settings, watch, drill, meddled>>

SmokeSend == cluster = "mainnet" /\ RpcDeposit
DevnetSend == cluster = "devnet" /\ RpcDeposit

SmokeAfter ==
    /\ cluster = "mainnet" /\ smoke.at = "after"
    /\ SmokeEnds(IF yxrp[Signer] = smoke.before + 1 THEN "passed" ELSE "broken")
    /\ NoFailure /\ UNCHANGED <<accounts, watch, quiet, drill, meddled>>

DevnetReport ==
    /\ cluster = "devnet" /\ smoke.at = "after"
    /\ SmokeEnds("passed")
    /\ NoFailure /\ UNCHANGED <<accounts, watch, quiet, drill, meddled>>

\* An RPC call fails; the deposit of a failed .rpc() may have landed.
SmokeFails ==
    /\ smoke.at # "off" /\ Failure
    /\ SmokeEnds("error")
    /\ \/ UNCHANGED <<funds, quiet>>
       \/ smoke.at = "send" /\ Accepted /\ Deposit(Signer) /\ quiet' = FALSE
    /\ UNCHANGED <<cluster, moves, settings, watch, drill, meddled>>

Smoke ==
    \/ SmokeStart \/ SmokeSign \/ SmokeBefore \/ SmokeSend \/ SmokeAfter
    \/ DevnetPrepare \/ DevnetSend \/ DevnetReport
    \/ SmokeFails

-----------------------------------------------------------------------------
(* The drill on devnet, with DRY_RUN=0. *)

DrillTo(step) == drill' = step /\ UNCHANGED <<drift, funds, watch, smoke>>

\* [1/6] refuses a program that is paused or not the deployer's.
DrillStart ==
    /\ cluster = "devnet" /\ drill \in {"off", "complete"}
    /\ ~paused /\ "authority" \notin drift
    /\ DrillTo("pause") /\ meddled' = FALSE
    /\ NoFailure /\ UNCHANGED <<paused, quiet>>

\* [2/6] and [4/6] set_paused(b) with .rpc(), which throws if it is refused.
DrillSwitch(at, b, next) ==
    /\ drill = at
    /\ IF "authority" \in drift
       THEN DrillTo("off") /\ meddled' = TRUE /\ UNCHANGED <<paused, quiet>>
       ELSE DrillTo(next) /\ paused' = b /\ quiet' = FALSE /\ UNCHANGED meddled
    /\ NoFailure

\* Mutant: the expected error ends the script as any other does.
DrillDepositThrows ==
    /\ drill = "deposit"
    /\ DrillTo("off")
    /\ NoFailure /\ UNCHANGED <<paused, quiet, meddled>>

\* [3/6] a deposit, with no attestation beside it: Paused is what is expected,
\* any other error is thrown on.
DrillDeposit ==
    /\ drill = "deposit"
    /\ DrillTo(IF paused THEN "unpause" ELSE "off")
    /\ NoFailure /\ UNCHANGED <<paused, quiet, meddled>>

DrillVerify ==
    /\ drill = "verify"
    /\ DrillTo(IF paused THEN "off" ELSE "complete")
    /\ NoFailure /\ UNCHANGED <<paused, quiet, meddled>>

\* fetchAttestation throws: the optimizer fails, or has chosen another venue
\* than Kamino.  The program stays paused.
DrillUnattested ==
    /\ drill = "deposit" /\ Failure
    /\ DrillTo("off") /\ meddled' = TRUE
    /\ UNCHANGED <<cluster, moves, paused, quiet>>

\* An RPC call fails; what set_paused was to do may be done.
DrillFails ==
    /\ drill \notin {"off", "complete"} /\ Failure
    /\ DrillTo("off") /\ meddled' = TRUE
    /\ \/ UNCHANGED paused
       \/ drill = "pause" /\ "authority" \notin drift /\ paused' = TRUE
       \/ drill = "unpause" /\ "authority" \notin drift /\ paused' = FALSE
    /\ quiet' = FALSE /\ UNCHANGED <<cluster, moves>>

Drill ==
    \/ DrillStart \/ DrillSwitch("pause", TRUE, "deposit") \/ DrillDeposit
    \/ DrillUnattested \/ DrillSwitch("unpause", FALSE, "verify") \/ DrillVerify \/ DrillFails

OpsNext == UserMove \/ AdminMove \/ Watch \/ WatchFails \/ Smoke \/ Drill

\* cron starts the watcher again and again, and the RPC node answers it.
OpsSpec == OpsInit /\ [][OpsNext]_opsVars /\ WF_opsVars(Watch)

-----------------------------------------------------------------------------
(* Properties. *)

Healthy == ~paused /\ drift = {} /\ Matches(SumFunction(principal), vault, SumFunction(yxrp))

\* The watcher's exit code is right about the chain if nothing moved and no read
\* failed while it ran; otherwise it adds up accounts of different moments.
QuietVerdict ==
    (watch.at = "off" /\ quiet) =>
        /\ watch.verdict = "healthy" => Healthy
        /\ watch.verdict = "failing" => ~Healthy

\* Nothing stops the watcher, and no run of it reads positions for ever.
WatcherGoesOn == cluster = "mainnet" => ENABLED <<Watch>>_opsVars
PositionsEnd == []<>(watch.at # "position")

\* A program that stays out of order is reported to the webhook, not masked by the
\* reads being spread out, nor by the reads and alerts that fail.
AlarmRings ==
    /\ []WatcherGoesOn /\ PositionsEnd
    /\ <>[](cluster = "mainnet" /\ ~Healthy) => []<>(watch.verdict = "failing" /\ watch.told)

\* The smoke test's "1:1 mint invariant failed" is only ever caused by a failed
\* read or by other movements of the deployer's yXRP, and it does not report
\* success for a deposit that did not land.
SmokeVerdict ==
    /\ smoke.verdict = "broken" => ~smoke.calm
    /\ smoke.verdict = "passed" => smoke.landed

\* The scripts' verdicts mean what they say, on a chain whose accounts have their
\* types.
Verdicts == OpsTypeOK /\ QuietVerdict /\ SmokeVerdict

\* A drill leaves the program unpaused, as it found it, if nothing failed and no
\* one else used the switch.
DrillRestores == (drill \in {"off", "complete"} /\ ~meddled) => ~paused
=============================================================================
