----------------------------- MODULE Bootstrap -----------------------------
(***************************************************************************)
(* The bootstrap scripts, ops/scripts/init-mainnet.ts and init-devnet.ts:  *)
(* key files on the operator's disk, then a row of steps that each look at *)
(* the chain and skip or send one transaction.  A run may stop at any      *)
(* await and is started again ("Safe to re-run"); what it had sent may     *)
(* still execute, before, during or after the next run.                    *)
(***************************************************************************)
EXTENDS Naturals, Sequences

CONSTANTS
    Keys,         \* keypairs a script can generate
    Deployer, ConfigPda, Squads, \* who may hold an authority
    Absent, Torn, \* a key file (or mint) not there; a file opened, not filled
    MaxFaults     \* bound on stops of a run and on lost transactions

ASSUME FaultsAssumption == MaxFaults \in Nat

Files == {"attestor", "mints"}
Mints == {"wxrp", "yxrp"}

\* The steps of main() that send a transaction, in the order of the script.
StepsOf(net) ==
    IF net = "mainnet"
    THEN <<"yxrp", "initialize", "rotate", "handOver">>
    ELSE <<"wxrp", "yxrp", "initialize", "handOver">>

\* Steps sent with .rpc(), which throws if the transaction fails; the others
\* ignore what confirmTransaction says of that.
RpcSteps == {"initialize", "rotate"}

VARIABLES
    net,     \* which of the two scripts
    file,    \* the operator's key files
    lost,    \* whether a key file has gone missing (ops/artifacts is not in git)
    pc,      \* where the run is
    key,     \* the keypairs the run holds
    step,    \* index of the step of the run
    sent,    \* the transaction the run waits for, Absent if none
    result,  \* what has become of it
    flying,  \* transactions sent that may still execute
    mint,    \* mint authority of each mint, Absent before its creation
    config,  \* the Config account, Absent before initialize
    faults

disk == <<file, lost>>
run == <<pc, key, step>>
wire == <<sent, result, flying>>
chain == <<mint, config>>
vars == <<net, disk, run, wire, chain, faults>>

Steps == StepsOf(net)
Step == Steps[step]

Configs == [authority : {Deployer, Squads}, yxrp : Keys, wxrp : Keys \cup {Absent}, attestor : Keys]
Transactions == [step : {"wxrp", "yxrp", "initialize", "rotate", "handOver"},
                 mints : Keys, attestor : Keys, nonce : 0..MaxFaults]

ASSUME SentinelAssumption ==
    /\ Absent \notin Keys /\ Torn \notin Keys /\ Absent # Torn
    /\ Absent # Deployer /\ Absent # ConfigPda /\ Absent \notin Configs

TypeOK ==
    /\ net \in {"mainnet", "devnet"}
    /\ file \in [Files -> Keys \cup {Absent, Torn}] /\ lost \in BOOLEAN
    /\ pc \in {"off", "keys", "fill", "check", "send", "confirm", "complete"}
    /\ key \in [Files -> Keys \cup {Absent}]
    /\ step \in 1..5
    /\ sent \in Transactions \cup {Absent} /\ flying \subseteq Transactions
    /\ result \in {"none", "ok", "failed", "expired"}
    /\ mint \in [Mints \X Keys -> {Absent, Deployer, ConfigPda}]
    /\ config \in Configs \cup {Absent}
    /\ faults \in 0..MaxFaults

\* On mainnet the attestor's key file is made beforehand.
Init ==
    /\ net \in {"mainnet", "devnet"}
    /\ \E k \in Keys : file = [f \in Files |->
                          IF f = "attestor" /\ net = "mainnet" THEN k ELSE Absent]
    /\ lost = FALSE
    /\ pc = "off" /\ key = [f \in Files |-> Absent] /\ step = 1
    /\ sent = Absent /\ result = "none" /\ flying = {}
    /\ mint = [m \in Mints \X Keys |-> Absent] /\ config = Absent
    /\ faults = 0

-----------------------------------------------------------------------------
(* Key files.  A key is generated, its file is opened, then filled; a file  *)
(* that is there is parsed, which throws if it is torn.                     *)

Goto(p) == pc' = p
Exit == Goto("off") /\ UNCHANGED <<key, step>>

Start ==
    /\ pc = "off"
    /\ Goto("keys") /\ key' = [f \in Files |-> Absent] /\ step' = 1
    /\ sent' = Absent /\ result' = "none"
    /\ UNCHANGED <<net, disk, flying, chain, faults>>

\* The next file to load: the attestor's, then the mints'.
FileAt == IF key["attestor"] = Absent THEN "attestor" ELSE "mints"
Loaded(k) ==
    /\ key' = [key EXCEPT ![FileAt] = k]
    /\ Goto(IF FileAt = "mints" THEN "check" ELSE "keys")
    /\ UNCHANGED step

\* Mutant: the key is used at once and its file is never written.
CreateUnsaved ==
    /\ file[FileAt] = Absent /\ (FileAt = "mints" \/ net = "devnet")
    /\ \E k \in Keys : Loaded(k)
    /\ UNCHANGED file

Load ==
    /\ file[FileAt] \in Keys
    /\ Loaded(file[FileAt])
    /\ UNCHANGED file

\* JSON.parse of a torn file throws, and so does reading a missing attestor.json.
LoadFails ==
    /\ file[FileAt] = Torn \/ (file[FileAt] = Absent /\ FileAt = "attestor" /\ net = "mainnet")
    /\ Exit
    /\ UNCHANGED file

Create ==
    /\ file[FileAt] = Absent /\ (FileAt = "mints" \/ net = "devnet")
    /\ file' = [file EXCEPT ![FileAt] = Torn]
    /\ Goto("fill") /\ UNCHANGED <<key, step>>

Keypairs ==
    /\ pc = "keys" /\ (Load \/ LoadFails \/ Create)
    /\ UNCHANGED <<net, lost, wire, chain, faults>>

\* A keypair generated now is one that was never used before.
Unused(k) ==
    /\ \A f \in Files : file[f] # k /\ key[f] # k
    /\ \A m \in Mints : mint[<<m, k>>] = Absent
    /\ \A t \in flying : t.mints # k /\ t.attestor # k
    /\ IF config = Absent THEN TRUE ELSE config.attestor # k

Fill ==
    /\ pc = "fill"
    /\ \E k \in Keys :
         /\ Unused(k)
         /\ file' = [file EXCEPT ![FileAt] = k]
         /\ Loaded(k)
    /\ UNCHANGED <<net, lost, wire, chain, faults>>

-----------------------------------------------------------------------------
(* One step: look, send, wait. *)

Account(m) == mint[<<m, key["mints"]>>]

\* Mutant: a mint that has an authority is taken for handed over.
SkipsHandedOver(s) ==
    CASE s \in Mints -> Account(s) # Absent
      [] s = "initialize" -> config # Absent
      [] s = "rotate" -> config # Absent /\ config.authority = Squads
      [] s = "handOver" -> Account("yxrp") # Absent

\* Mutant: createMint does not look for the mint first.
SkipsNoMint(s) ==
    CASE s \in Mints -> FALSE
      [] s = "initialize" -> config # Absent
      [] s = "rotate" -> config # Absent /\ config.authority = Squads
      [] s = "handOver" -> Account("yxrp") = ConfigPda

\* What makes a step skip its transaction.
Skips(s) ==
    CASE s \in Mints -> Account(s) # Absent
      [] s = "initialize" -> config # Absent
      [] s = "rotate" -> config # Absent /\ config.authority = Squads
      [] s = "handOver" -> Account("yxrp") = ConfigPda

\* What a step throws at: no Config or mint to read, or an authority that drifted.
Throws(s) ==
    \/ s = "rotate" /\ (config = Absent \/ config.authority \notin {Squads, Deployer})
    \/ s = "handOver" /\ Account("yxrp") = Absent

Check ==
    /\ pc = "check" /\ step <= Len(Steps)
    /\ \/ Throws(Step) /\ Exit
       \/ ~Throws(Step) /\ Skips(Step) /\ step' = step + 1 /\ UNCHANGED <<pc, key>>
       \/ ~Throws(Step) /\ ~Skips(Step) /\ Goto("send") /\ UNCHANGED <<key, step>>
    /\ UNCHANGED <<net, disk, wire, chain, faults>>

\* [5/5] verify of the mainnet script; the devnet script only prints.
Verified ==
    net = "mainnet" => config.authority = Squads /\ Account("yxrp") = ConfigPda

Verify ==
    /\ pc = "check" /\ step > Len(Steps)
    /\ IF config # Absent /\ Account("yxrp") # Absent /\ Verified
       THEN Goto("complete") /\ UNCHANGED <<key, step>> ELSE Exit
    /\ UNCHANGED <<net, disk, wire, chain, faults>>

\* Whether the programs on chain execute a transaction.
Valid(t) ==
    CASE t.step \in Mints -> mint[<<t.step, t.mints>>] = Absent
      [] t.step = "initialize" ->
            /\ config = Absent /\ mint[<<"yxrp", t.mints>>] # Absent
            /\ net = "devnet" => mint[<<"wxrp", t.mints>>] # Absent
      [] t.step = "rotate" -> config # Absent /\ config.authority = Deployer
      [] t.step = "handOver" -> mint[<<"yxrp", t.mints>>] = Deployer

\* Simulated before it is sent; a simulation that fails throws.
Send ==
    /\ pc = "send"
    /\ LET t == [step |-> Step, mints |-> key["mints"], attestor |-> key["attestor"],
                 nonce |-> faults]
       IN  IF Valid(t)
           THEN /\ sent' = t /\ result' = "none" /\ flying' = flying \cup {t}
                /\ Goto("confirm") /\ UNCHANGED <<key, step>>
           ELSE Exit /\ UNCHANGED wire
    /\ UNCHANGED <<net, disk, chain, faults>>

Confirm ==
    /\ pc = "confirm" /\ result # "none"
    /\ IF result = "ok" \/ (result = "failed" /\ Step \notin RpcSteps)
       THEN step' = step + 1 /\ Goto("check") /\ UNCHANGED key
       ELSE Exit
    /\ UNCHANGED <<net, disk, wire, chain, faults>>

-----------------------------------------------------------------------------
(* The chain. *)

Settles(t, r) ==
    /\ flying' = flying \ {t}
    /\ result' = IF t = sent THEN r ELSE result
    /\ UNCHANGED <<net, disk, run, sent>>

Effect(t) ==
    /\ mint' =
         CASE t.step \in Mints -> [mint EXCEPT ![<<t.step, t.mints>>] = Deployer]
           [] t.step = "handOver" -> [mint EXCEPT ![<<"yxrp", t.mints>>] = ConfigPda]
           [] OTHER -> mint
    /\ config' =
         CASE t.step = "initialize" ->
                [authority |-> Deployer, yxrp |-> t.mints, attestor |-> t.attestor,
                 wxrp |-> IF net = "devnet" THEN t.mints ELSE Absent]
           [] t.step = "rotate" -> [config EXCEPT !.authority = Squads]
           [] OTHER -> config

Execute(t) ==
    /\ IF Valid(t) THEN Settles(t, "ok") /\ Effect(t)
                   ELSE Settles(t, "failed") /\ UNCHANGED chain
    /\ UNCHANGED faults

Fault == faults < MaxFaults /\ faults' = faults + 1

Expire(t) == Fault /\ Settles(t, "expired") /\ UNCHANGED chain

-----------------------------------------------------------------------------
(* The operator and the machine. *)

\* An await that fails, an interrupt, a crash.
Stop ==
    /\ Fault /\ pc \notin {"off", "complete"} /\ Exit
    /\ UNCHANGED <<net, disk, wire, chain>>

\* The operator deletes a file that does not parse.
RemoveTorn ==
    /\ pc = "off"
    /\ \E f \in Files : file[f] = Torn /\ file' = [file EXCEPT ![f] = Absent]
    /\ UNCHANGED <<net, lost, run, wire, chain, faults>>

\* The script is run again where the mints' key file is not, or it is deleted.
LoseFile ==
    /\ pc = "off" /\ Fault /\ file["mints"] \in Keys
    /\ file' = [file EXCEPT !["mints"] = Absent] /\ lost' = TRUE
    /\ UNCHANGED <<net, run, wire, chain>>

RunAgain ==
    /\ pc = "complete" /\ Exit
    /\ UNCHANGED <<net, disk, wire, chain, faults>>

Script == Start \/ Keypairs \/ Fill \/ Check \/ Verify \/ Send \/ Confirm
Chain == \E t \in flying : Execute(t) \/ Expire(t)
Next == Script \/ Chain \/ Stop \/ RemoveTorn \/ LoseFile \/ RunAgain

\* The operator starts the script until it completes, and deletes torn files; the
\* transaction that a run waits for executes or expires.
Landing == \E t \in flying : t = sent /\ (Execute(t) \/ Expire(t))
Fairness == WF_vars(Script) /\ WF_vars(Landing) /\ SF_vars(RemoveTorn)
Spec == Init /\ [][Next]_vars /\ Fairness

-----------------------------------------------------------------------------
(* Properties. *)

\* A mint that exists, or that a transaction under way may create, has its key
\* in the file a re-run reads, so every re-run works on the same mints: a torn
\* file is only ever one whose key was never used (init-mainnet.ts: "Safe to
\* re-run: every step is idempotent").
KeysAreKept ==
    lost \/ \A k \in Keys :
        (\/ \E m \in Mints : mint[<<m, k>>] # Absent
         \/ \E t \in flying : t.mints = k)
        => file["mints"] = k

\* A run that reports completion leaves the Config bound to the mint whose
\* authority it is, and on mainnet under the Squads vault, through stops,
\* re-runs and transactions that execute late.  If the key file was lost, the
\* mint verified need not be the Config's.
CompleteMeansBound ==
    pc = "complete" =>
        /\ net = "mainnet" => config.authority = Squads
        /\ lost \/ mint[<<"yxrp", config.yxrp>>] = ConfigPda

\* Nothing stops the operator, a run or what it waits for.
BootstrapGoesOn ==
    /\ (pc # "complete" /\ (pc = "confirm" => result # "none")) => ENABLED <<Script>>_vars
    /\ (pc = "confirm" /\ result = "none") => ENABLED <<Landing>>_vars
    /\ (pc = "off" /\ \E f \in Files : file[f] = Torn) => ENABLED <<RemoveTorn>>_vars

\* With finitely many faults, and no key file lost, re-running gets there.
Completes == []BootstrapGoesOn /\ <>(lost \/ pc = "complete")
=============================================================================
