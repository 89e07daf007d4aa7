--------------------------- MODULE ScriptsProofs ---------------------------
(***************************************************************************)
(* The properties of the operators' scripts.  Bootstrap: for any number of *)
(* keypairs, of stops and re-runs, and of transactions that are late or    *)
(* lost.  OpsScripts: for any number of users, of their moves and of failed*)
(* calls.  A bootstrap that is run again completes, and the watcher's alarm*)
(* rings: under their fairness, once faults have ceased.                   *)
(***************************************************************************)
EXTENDS Bootstrap, OpsScripts, SumTheorems

-----------------------------------------------------------------------------
(* Bootstrap: keypairs, transactions in flight and re-runs. *)


\* A run that has loaded its keys, and what it waits for.
RunOK ==
    /\ pc \in {"check", "send", "confirm", "complete"} =>
         key["attestor"] \in Keys /\ key["mints"] \in Keys
    /\ pc \in {"keys", "fill"} => step = 1
    /\ pc \in {"send", "confirm"} => step \in 1..4
    /\ pc = "fill" => file[FileAt] = Torn
    /\ pc = "confirm" =>
         sent \in Transactions /\ sent.step = Steps[step] /\ sent.mints = key["mints"]

\* The mints in use are the file's, and so are those of a run that has its keys.
InUse(k) ==
    \/ \E m \in Mints : mint[<<m, k>>] # Absent
    \/ \E t \in flying : t.mints = k

Kept ==
    ~lost =>
        /\ \A k \in Keys : InUse(k) => file["mints"] = k
        /\ pc \in {"check", "send", "confirm", "complete"} => file["mints"] = key["mints"]

\* A transaction that hands the yXRP mint over was valid when it was sent, so
\* the mint is the Config's once it is settled, even if it failed.
Yxrp(k) == mint[<<"yxrp", k>>]

Bound ==
    /\ config # Absent => Yxrp(config.yxrp) # Absent
    /\ \A t \in flying : t.step = "handOver" => Yxrp(t.mints) \in {Deployer, ConfigPda}
    /\ (pc = "confirm" /\ sent.step = "handOver" /\ result \in {"ok", "failed"}) =>
         Yxrp(sent.mints) = ConfigPda
    /\ (pc = "complete" \/ (pc = "check" /\ step = 5)) => Yxrp(key["mints"]) = ConfigPda
    /\ pc = "complete" => config # Absent /\ (net = "mainnet" => config.authority = Squads)

IInv == TypeOK /\ RunOK /\ Kept /\ Bound

\* Both scripts have four steps, of these names, and hand the mint over last.
LEMMA StepNames ==
    ASSUME net \in {"mainnet", "devnet"}
    PROVE  /\ Len(Steps) = 4 /\ Steps[4] = "handOver"
           /\ \A i \in 1..4 : Steps[i] \in {"wxrp", "yxrp", "initialize", "rotate", "handOver"}
           /\ \A i \in 1..4 : Steps[i] = "handOver" => i = 4
<1>1. CASE net = "mainnet"
  BY <1>1 DEF Steps, StepsOf
<1>2. CASE net = "devnet"
  BY <1>2 DEF Steps, StepsOf
<1> QED BY <1>1, <1>2

\* Only the attestor has a key file, and no run has started.
LEMMA InitInvariant == Init => IInv
<1> SUFFICES ASSUME Init PROVE IInv
  OBVIOUS
<1>1. TypeOK
  <2>1. file \in [Files -> Keys \cup {Absent, Torn}]
    BY DEF Init, Files
  <2>2. mint \in [Mints \X Keys -> {Absent, Deployer, ConfigPda}]
    BY DEF Init
  <2>3. key \in [Files -> Keys \cup {Absent}] /\ faults \in 0..MaxFaults
    BY FaultsAssumption DEF Init
  <2>4. /\ net \in {"mainnet", "devnet"} /\ lost = FALSE /\ pc = "off" /\ step = 1
        /\ sent = Absent /\ flying = {} /\ result = "none" /\ config = Absent
    BY DEF Init
  <2>5. sent \in Transactions \cup {Absent} /\ flying \subseteq Transactions
        /\ config \in Configs \cup {Absent}
    BY <2>4
  <2>6. lost \in BOOLEAN
    BY <2>4
  <2>7. 1 \in 1..5
    OBVIOUS
  <2> QED BY <2>1, <2>2, <2>3, <2>4, <2>5, <2>6, <2>7 DEF TypeOK
<1>2. RunOK
  BY DEF Init, RunOK
<1>3. Kept
  BY DEF Init, Kept, InUse
<1>4. Bound
  BY DEF Init, Bound
<1> QED BY <1>1, <1>2, <1>3, <1>4 DEF IInv

-----------------------------------------------------------------------------
(* Steps of the run that leave the chain and the wire alone. *)

\* A run that stops, or starts anew.
LEMMA LeavingSteps ==
    ASSUME IInv, pc' = "off" \/ (pc' = "keys" /\ step' = 1), UNCHANGED <<net, disk, chain>>, flying' = flying,
           step' \in 1..5, key' \in [Files -> Keys \cup {Absent}],
           sent' \in Transactions \cup {Absent}, result' \in {"none", "ok", "failed", "expired"},
           faults' \in 0..MaxFaults
    PROVE  IInv'
<1> USE DEF IInv, disk, chain
<1>1. TypeOK'
  BY DEF TypeOK
<1>2. RunOK'
  BY DEF RunOK
<1>3. Kept'
  BY DEF Kept, InUse
<1>4. Bound'
  BY DEF Bound, Yxrp
<1> QED BY <1>1, <1>2, <1>3, <1>4

\* A run starts, stops, or is started again.
LEMMA StartSteps ==
    ASSUME IInv, Start \/ Stop \/ RunAgain
    PROVE  IInv'
<1>1. /\ pc' = "off" \/ (pc' = "keys" /\ step' = 1)
      /\ UNCHANGED <<net, disk, chain>> /\ flying' = flying
      /\ key' \in [Files -> Keys \cup {Absent}] /\ step' \in 1..5
      /\ sent' \in Transactions \cup {Absent} /\ result' \in {"none", "ok", "failed", "expired"}
  BY DEF Start, Stop, RunAgain, Exit, Goto, wire, IInv, TypeOK
<1>2. faults' \in 0..MaxFaults
  BY FaultsAssumption DEF Start, Stop, RunAgain, Fault, IInv, TypeOK
<1> QED BY <1>1, <1>2, LeavingSteps

\* A key file is read or created; one that is filled was not in use before.
LEMMA KeyFileSteps ==
    ASSUME IInv, Keypairs \/ Fill
    PROVE  IInv'
<1> USE DEF IInv
<1>1. /\ UNCHANGED <<net, lost, sent, result, flying, mint, config, faults>>
      /\ pc \in {"keys", "fill"} /\ FileAt \in Files
      /\ file[FileAt] \in Keys \/ Fill \/ pc = "keys"
  BY DEF Keypairs, Fill, wire, chain, FileAt, Files
<1>2. CASE Keypairs /\ LoadFails
  <2>1. pc' = "off" /\ UNCHANGED <<key, step, file>>
    BY <1>2 DEF LoadFails, Exit, Goto
  <2> QED BY <1>1, <2>1, LeavingSteps DEF disk, chain, TypeOK
<1>3. CASE Keypairs /\ Create
  <2>1. /\ file[FileAt] = Absent /\ file' = [file EXCEPT ![FileAt] = Torn]
        /\ pc' = "fill" /\ UNCHANGED <<key, step>> /\ FileAt' = FileAt
    BY <1>3 DEF Create, Goto, FileAt
  <2>2. TypeOK'
    BY <1>1, <2>1 DEF TypeOK
  <2>3. RunOK'
    BY <1>1, <2>1 DEF RunOK, TypeOK
  <2>4. Kept'
    BY <1>1, <2>1, SentinelAssumption DEF Kept, InUse, TypeOK
  <2>5. Bound'
    BY <1>1, <2>1 DEF Bound, Yxrp
  <2> QED BY <2>2, <2>3, <2>4, <2>5
<1>4. ASSUME NEW k \in Keys, Loaded(k), file' = [file EXCEPT ![FileAt] = k],
             file[FileAt] = k \/ file[FileAt] = Torn
      PROVE  IInv'
  <2>1. /\ key' = [key EXCEPT ![FileAt] = k] /\ UNCHANGED step
        /\ pc' = (IF FileAt = "mints" THEN "check" ELSE "keys")
    BY <1>4 DEF Loaded, Goto
  <2>2. TypeOK'
    BY <1>1, <1>4, <2>1 DEF TypeOK
  <2>3. FileAt = "mints" => key["attestor"] \in Keys
    BY DEF FileAt, TypeOK, Files
  <2>4. RunOK'
    BY <1>1, <2>1, <2>3 DEF RunOK, TypeOK, Files
  <2>5. Kept'
    BY <1>1, <1>4, <2>1, SentinelAssumption DEF Kept, InUse, TypeOK, Files
  <2>6. Bound'
    <3>1. step = 1
      BY <1>1 DEF RunOK
    <3> QED BY <1>1, <2>1, <3>1 DEF Bound, Yxrp
  <2> QED BY <2>2, <2>4, <2>5, <2>6
<1>5. CASE Keypairs /\ Load
  <2>1. file[FileAt] \in Keys /\ Loaded(file[FileAt]) /\ file' = file
    BY <1>5 DEF Load
  <2>2. file' = [file EXCEPT ![FileAt] = file[FileAt]]
    BY <2>1 DEF TypeOK
  <2> QED BY <2>1, <2>2, <1>4
<1>6. CASE Fill
  <2>1. PICK k \in Keys : file' = [file EXCEPT ![FileAt] = k] /\ Loaded(k)
    BY <1>6 DEF Fill
  <2>2. file[FileAt] = Torn
    BY <1>6 DEF Fill, RunOK
  <2> QED BY <2>1, <2>2, <1>4
<1> QED BY <1>2, <1>3, <1>5, <1>6 DEF Keypairs

\* The operator deletes a torn file, which no mint depends on, or loses the
\* mints' file.
LEMMA FileSteps ==
    ASSUME IInv, RemoveTorn \/ LoseFile
    PROVE  IInv'
<1> USE DEF IInv
<1>1. /\ pc = "off" /\ UNCHANGED <<net, pc, key, step, sent, result, flying, mint, config>>
      /\ faults' \in 0..MaxFaults
      /\ \E f \in Files : file' = [file EXCEPT ![f] = Absent] /\ (lost' \/ (file[f] = Torn /\ lost' = lost))
      /\ lost' \in BOOLEAN
  <2>1. faults \in 0..MaxFaults /\ lost \in BOOLEAN
    BY DEF TypeOK
  <2>2. CASE RemoveTorn
    BY <2>1, <2>2 DEF RemoveTorn, run, wire, chain
  <2>3. CASE LoseFile
    BY <2>1, <2>3, FaultsAssumption DEF LoseFile, Fault, run, wire, chain, Files
  <2> QED BY <2>2, <2>3
<1>2. TypeOK'
  BY <1>1 DEF TypeOK
<1>3. RunOK'
  BY <1>1 DEF RunOK
<1>4. Kept'
  BY <1>1, SentinelAssumption DEF Kept, InUse, TypeOK, Files
<1>5. Bound'
  BY <1>1 DEF Bound, Yxrp
<1> QED BY <1>2, <1>3, <1>4, <1>5

-----------------------------------------------------------------------------
(* One step of the script. *)

\* Steps that change only where the run is.
LEMMA CheckSteps ==
    ASSUME IInv, Check
    PROVE  IInv'
<1> USE DEF IInv
<1>1. /\ UNCHANGED <<net, file, lost, sent, result, flying, mint, config, faults, key>>
      /\ pc = "check" /\ Len(Steps) = 4 /\ Steps[4] = "handOver" /\ step \in 1..4
  <2>1. Len(Steps) = 4 /\ Steps[4] = "handOver" /\ step \in 1..5
    BY StepNames DEF TypeOK
  <2> QED BY <2>1 DEF Check, disk, wire, chain, Exit
<1>2. CASE pc' = "off" /\ step' = step
  BY <1>1, <1>2, LeavingSteps DEF disk, chain, TypeOK
<1>3. CASE pc' = pc /\ step' = step + 1 /\ Skips(Step)
  <2>1. step' = 5 => Yxrp(key["mints"]) = ConfigPda
    <3>1. step' = 5 => Step = "handOver"
      BY <1>1, <1>3 DEF Step
    <3> QED BY <1>3, <3>1 DEF Skips, Account, Yxrp, Mints
  <2>2. TypeOK'
    BY <1>1, <1>3 DEF TypeOK
  <2>3. RunOK'
    BY <1>1, <1>3 DEF RunOK
  <2>4. Kept'
    BY <1>1, <1>3 DEF Kept, InUse
  <2>5. Bound'
    BY <1>1, <1>3, <2>1 DEF Bound, Yxrp
  <2> QED BY <2>2, <2>3, <2>4, <2>5
<1>4. CASE pc' = "send" /\ step' = step
  <2>2. TypeOK'
    BY <1>1, <1>4 DEF TypeOK
  <2>3. RunOK'
    BY <1>1, <1>4 DEF RunOK
  <2>4. Kept'
    BY <1>1, <1>4 DEF Kept, InUse
  <2>5. Bound'
    BY <1>1, <1>4 DEF Bound, Yxrp
  <2> QED BY <2>2, <2>3, <2>4, <2>5
<1> QED BY <1>2, <1>3, <1>4 DEF Check, Exit, Goto

\* A run reads back what it has initialized.
LEMMA VerifySteps ==
    ASSUME IInv, Verify
    PROVE  IInv'
<1> USE DEF IInv
<1>1. /\ UNCHANGED <<net, file, lost, sent, result, flying, mint, config, faults, key, step>>
      /\ pc = "check" /\ step = 5
  BY StepNames DEF Verify, disk, wire, chain, Exit, TypeOK
<1>2. CASE pc' = "off"
  BY <1>1, <1>2, LeavingSteps DEF disk, chain, TypeOK
<1>3. CASE pc' = "complete" /\ config # Absent /\ Verified
  <2>2. TypeOK'
    BY <1>1, <1>3 DEF TypeOK
  <2>3. RunOK'
    BY <1>1, <1>3 DEF RunOK
  <2>4. Kept'
    BY <1>1, <1>3 DEF Kept, InUse
  <2>5. Bound'
    BY <1>1, <1>3 DEF Bound, Yxrp, Verified
  <2> QED BY <2>2, <2>3, <2>4, <2>5
<1> QED BY <1>2, <1>3 DEF Verify, Exit, Goto

\* A transaction that is sent is about the run's mints, which its file keeps.
LEMMA SendSteps ==
    ASSUME IInv, Send
    PROVE  IInv'
<1> USE DEF IInv
<1> DEFINE t == [step |-> Step, mints |-> key["mints"], attestor |-> key["attestor"],
                 nonce |-> faults]
<1>1. UNCHANGED <<net, file, lost, mint, config, faults, key, step>> /\ pc = "send"
  BY DEF Send, disk, chain, Exit
<1>2. CASE pc' = "off" /\ UNCHANGED wire
  BY <1>1, <1>2, LeavingSteps DEF disk, chain, wire, TypeOK
<1>3. CASE /\ Valid(t) /\ sent' = t /\ result' = "none" /\ flying' = flying \cup {t}
           /\ pc' = "confirm"
  <2>1. t \in Transactions
    BY <1>1, StepNames DEF RunOK, TypeOK, Transactions, Step
  <2>2. TypeOK'
    BY <1>1, <1>3, <2>1 DEF TypeOK
  <2>3. RunOK'
    <3>1. t.step = Steps[step] /\ t.mints = key["mints"] /\ Steps' = Steps
      BY <1>1 DEF Step, Steps
    <3> QED BY <1>1, <1>3, <2>1, <3>1 DEF RunOK
  <2>4. Kept'
    BY <1>1, <1>3, SentinelAssumption DEF Kept, InUse, RunOK
  <2>5. Bound'
    <3>1. t.step = "handOver" => Yxrp(t.mints) = Deployer
      BY <1>3 DEF Valid, Yxrp, Mints
    <3> HIDE DEF t
    <3> QED BY <1>1, <1>3, <3>1 DEF Bound, Yxrp
  <2> QED BY <2>2, <2>3, <2>4, <2>5
<1> QED BY <1>2, <1>3 DEF Send, Exit, Goto

\* What a run has sent is confirmed to it, or not.
LEMMA ConfirmSteps ==
    ASSUME IInv, Confirm
    PROVE  IInv'
<1> USE DEF IInv
<1>1. /\ UNCHANGED <<net, file, lost, sent, result, flying, mint, config, faults, key>>
      /\ pc = "confirm" /\ step \in 1..4
  BY DEF Confirm, disk, wire, chain, Exit, RunOK
<1>2. CASE pc' = "off" /\ step' = step
  BY <1>1, <1>2, LeavingSteps DEF disk, chain, TypeOK
<1>3. CASE pc' = "check" /\ step' = step + 1 /\ result \in {"ok", "failed"}
  <2>1. step' = 5 => Yxrp(key["mints"]) = ConfigPda
    BY <1>1, <1>3, StepNames DEF RunOK, Bound, TypeOK
  <2>2. TypeOK'
    BY <1>1, <1>3 DEF TypeOK
  <2>3. RunOK'
    BY <1>1, <1>3 DEF RunOK
  <2>4. Kept'
    BY <1>1, <1>3 DEF Kept, InUse
  <2>5. Bound'
    BY <1>1, <1>3, <2>1 DEF Bound, Yxrp
  <2> QED BY <2>2, <2>3, <2>4, <2>5
<1> QED BY <1>2, <1>3 DEF Confirm, Exit, Goto

-----------------------------------------------------------------------------
(* The chain. *)

\* What a transaction under way does to the mints: one that has an authority
\* keeps one, and the Config's stays the Config's.
LEMMA ExecuteEffect ==
    ASSUME IInv, NEW t \in flying, Execute(t)
    PROVE  /\ mint' \in [Mints \X Keys -> {Absent, Deployer, ConfigPda}]
           /\ \A m \in Mints, k \in Keys :
                 /\ mint'[<<m, k>>] # Absent => mint[<<m, k>>] # Absent \/ k = t.mints
                 /\ mint[<<m, k>>] # Absent => mint'[<<m, k>>] # Absent
           /\ \A k \in Keys :
                 /\ Yxrp(k) = ConfigPda => Yxrp(k)' = ConfigPda
                 /\ Yxrp(k) \in {Deployer, ConfigPda} => Yxrp(k)' \in {Deployer, ConfigPda}
           /\ t.step = "handOver" => Yxrp(t.mints)' = ConfigPda
           /\ config' \in Configs \cup {Absent}
           /\ \/ config' = config
              \/ config = Absent /\ Yxrp(config'.yxrp) # Absent
              \/ config # Absent /\ config' # Absent /\ config'.yxrp = config.yxrp
                   /\ config'.authority = Squads
<1> USE DEF IInv
<1>1. t \in Transactions
  BY DEF TypeOK
<1>2. IF Valid(t) THEN Effect(t) ELSE UNCHANGED <<mint, config>>
  BY DEF Execute, chain
<1>3. /\ mint' \in [Mints \X Keys -> {Absent, Deployer, ConfigPda}]
      /\ \A m \in Mints, k \in Keys :
            /\ mint'[<<m, k>>] # Absent => mint[<<m, k>>] # Absent \/ k = t.mints
            /\ mint[<<m, k>>] # Absent => mint'[<<m, k>>] # Absent
      /\ \A k \in Keys :
            /\ Yxrp(k) = ConfigPda => Yxrp(k)' = ConfigPda
            /\ Yxrp(k) \in {Deployer, ConfigPda} => Yxrp(k)' \in {Deployer, ConfigPda}
      /\ t.step = "handOver" => Yxrp(t.mints)' = ConfigPda
  <2>0. mint \in [Mints \X Keys -> {Absent, Deployer, ConfigPda}] /\ t.mints \in Keys
    BY <1>1 DEF TypeOK, Transactions
  <2>1. CASE Valid(t) /\ t.step \in Mints
    <3>1. mint' = [mint EXCEPT ![<<t.step, t.mints>>] = Deployer]
      <4>1. Effect(t) /\ t.step \in Mints /\ t.step # "handOver"
        BY <1>2, <2>1 DEF Mints
      <4> QED BY <4>1 DEF Effect
    <3>2. mint[<<t.step, t.mints>>] = Absent /\ t.step # "handOver"
      BY <2>1 DEF Valid, Mints
    <3> QED BY <2>0, <2>1, <3>1, <3>2, SentinelAssumption DEF Yxrp, Mints
  <2>2. CASE Valid(t) /\ t.step = "handOver"
    <3>0. t.step \notin Mints
      BY <2>2 DEF Mints
    <3>1. mint' = [mint EXCEPT ![<<"yxrp", t.mints>>] = ConfigPda]
      <4>1. Effect(t) /\ t.step = "handOver"
        BY <1>2, <2>2
      <4> QED BY <4>1, <3>0 DEF Effect
    <3> QED BY <2>0, <2>2, <3>1, SentinelAssumption DEF Yxrp, Mints
  <2>3. CASE Valid(t) /\ t.step \notin Mints \cup {"handOver"}
    BY <1>2, <2>0, <2>3 DEF Effect, Yxrp, Mints
  <2>4. CASE ~Valid(t)
    <3>1. t.step = "handOver" => Yxrp(t.mints) \in {Deployer, ConfigPda} /\ Yxrp(t.mints) # Deployer
      BY <2>4 DEF Bound, Valid, Yxrp, Mints
    <3> QED BY <1>2, <2>0, <2>4, <3>1 DEF Yxrp
  <2> QED BY <2>1, <2>2, <2>3, <2>4
<1>4. /\ config' \in Configs \cup {Absent}
      /\ config' = config
         \/ (config = Absent /\ Yxrp(config'.yxrp) # Absent)
         \/ (config # Absent /\ config' # Absent /\ config'.yxrp = config.yxrp
             /\ config'.authority = Squads)
  <2>1. CASE Valid(t) /\ t.step = "initialize"
    <3>1. /\ config' = [authority |-> Deployer, yxrp |-> t.mints, attestor |-> t.attestor,
                        wxrp |-> IF net = "devnet" THEN t.mints ELSE Absent]
          /\ config = Absent /\ Yxrp(t.mints) # Absent
      BY <1>2, <2>1 DEF Effect, Valid, Yxrp, Mints
    <3> QED BY <1>1, <3>1 DEF Configs, Transactions
  <2>2. CASE Valid(t) /\ t.step = "rotate"
    <3>1. config' = [config EXCEPT !.authority = Squads] /\ config # Absent
      BY <1>2, <2>2 DEF Effect, Valid, Mints
    <3>2. config' \in Configs /\ config'.yxrp = config.yxrp /\ config'.authority = Squads
      BY <3>1 DEF TypeOK, Configs
    <3> QED BY <3>1, <3>2, SentinelAssumption
  <2>3. CASE ~Valid(t) \/ t.step \notin {"initialize", "rotate"}
    BY <1>2, <2>3 DEF Effect, TypeOK
  <2> QED BY <2>1, <2>2, <2>3
<1> QED BY <1>3, <1>4

\* So a step of a transaction leaves the mints the file's and the Config bound.
LEMMA ExecuteSteps ==
    ASSUME IInv, NEW t \in flying, Execute(t)
    PROVE  IInv'
<1> USE DEF IInv
<1>1. /\ UNCHANGED <<net, file, lost, pc, key, step, sent, faults>>
      /\ flying' = flying \ {t} /\ t \in Transactions
      /\ result' = IF t = sent THEN (IF Valid(t) THEN "ok" ELSE "failed") ELSE result
  BY DEF Execute, Settles, disk, run, TypeOK
<1>3. /\ mint' \in [Mints \X Keys -> {Absent, Deployer, ConfigPda}]
      /\ \A m \in Mints, k \in Keys :
            /\ mint'[<<m, k>>] # Absent => mint[<<m, k>>] # Absent \/ k = t.mints
            /\ mint[<<m, k>>] # Absent => mint'[<<m, k>>] # Absent
      /\ \A k \in Keys :
            /\ Yxrp(k) = ConfigPda => Yxrp(k)' = ConfigPda
            /\ Yxrp(k) \in {Deployer, ConfigPda} => Yxrp(k)' \in {Deployer, ConfigPda}
      /\ t.step = "handOver" => Yxrp(t.mints)' = ConfigPda
  BY ExecuteEffect
<1>4. /\ config' \in Configs \cup {Absent}
      /\ config' = config
         \/ (config = Absent /\ Yxrp(config'.yxrp) # Absent)
         \/ (config # Absent /\ config' # Absent /\ config'.yxrp = config.yxrp
             /\ config'.authority = Squads)
  BY ExecuteEffect
<1>5. TypeOK'
  BY <1>1, <1>3, <1>4 DEF TypeOK
<1>6. RunOK'
  <2>1. FileAt' = FileAt /\ Steps' = Steps
    BY <1>1 DEF FileAt, Steps
  <2> QED BY <1>1, <2>1 DEF RunOK
<1>7. Kept'
  <2>1. ASSUME NEW k \in Keys, InUse(k)' PROVE InUse(k)
    BY <1>1, <1>3, <2>1 DEF InUse
  <2> QED BY <1>1, <2>1 DEF Kept
<1>8. Bound'
  <2>1. \A s \in flying : s.mints \in Keys
    BY DEF TypeOK, Transactions
  <2>2. config' # Absent => Yxrp(config.yxrp)' # Absent
    <3>1. config # Absent => config.yxrp \in Keys /\ Yxrp(config.yxrp) # Absent
      BY DEF Bound, TypeOK, Configs
    <3>2. config' # Absent => config'.yxrp \in Keys
      BY <1>4 DEF Configs
    <3>3. \A k \in Keys : mint[<<"yxrp", k>>] # Absent => mint'[<<"yxrp", k>>] # Absent
      BY <1>3 DEF Mints
    <3>4. config' # Absent => Yxrp(config'.yxrp) # Absent
      BY <1>4, <3>1
    <3> QED BY <3>2, <3>3, <3>4 DEF Yxrp
  <2>3. (pc = "complete" \/ (pc = "check" /\ step = 5)) => Yxrp(key["mints"])' = ConfigPda
    <3>1. \A k \in Keys : mint[<<"yxrp", k>>] = ConfigPda => mint'[<<"yxrp", k>>] = ConfigPda
      BY <1>3 DEF Yxrp
    <3> QED BY <1>1, <3>1 DEF Bound, RunOK, Yxrp
  <2>4. (pc = "confirm" /\ sent.step = "handOver" /\ result' \in {"ok", "failed"}) =>
          Yxrp(sent.mints)' = ConfigPda
    <3>1. \A k \in Keys : mint[<<"yxrp", k>>] = ConfigPda => mint'[<<"yxrp", k>>] = ConfigPda
      BY <1>3 DEF Yxrp
    <3>2. ASSUME pc = "confirm", sent.step = "handOver" PROVE sent.mints \in Keys
      BY <3>2 DEF RunOK, Transactions
    <3> QED BY <1>1, <1>3, <3>1, <3>2 DEF Bound, Yxrp
  <2>5. pc = "complete" => config' # Absent /\ (net = "mainnet" => config'.authority = Squads)
    BY <1>4 DEF Bound
  <2> QED BY <1>1, <1>3, <2>1, <2>2, <2>3, <2>4, <2>5 DEF Bound, Yxrp
<1> QED BY <1>5, <1>6, <1>7, <1>8

\* What was sent, by this run or an earlier one, expires.
LEMMA ExpireSteps ==
    ASSUME IInv, NEW t \in flying, Expire(t)
    PROVE  IInv'
<1> USE DEF IInv
<1>1. /\ UNCHANGED <<net, file, lost, pc, key, step, sent, mint, config>>
      /\ flying' = flying \ {t} /\ result' \in {result, "expired"}
      /\ faults' \in 0..MaxFaults
  BY FaultsAssumption DEF Expire, Fault, Settles, disk, run, chain, TypeOK
<1>2. TypeOK'
  BY <1>1 DEF TypeOK
<1>3. RunOK'
  <2>1. FileAt' = FileAt /\ Steps' = Steps
    BY <1>1 DEF FileAt, Steps
  <2> QED BY <1>1, <2>1 DEF RunOK
<1>4. Kept'
  BY <1>1 DEF Kept, InUse
<1>5. Bound'
  BY <1>1 DEF Bound, Yxrp
<1> QED BY <1>2, <1>3, <1>4, <1>5

\* Nothing happens.
LEMMA StutterSteps == IInv /\ UNCHANGED vars => IInv'
<1> SUFFICES ASSUME IInv, UNCHANGED vars PROVE IInv'
  OBVIOUS
<1> USE DEF IInv, vars, disk, run, wire, chain
<1>2. TypeOK'
  BY DEF TypeOK
<1>3. RunOK'
  BY DEF RunOK, FileAt, Steps
<1>4. Kept'
  BY DEF Kept, InUse
<1>5. Bound'
  BY DEF Bound, Yxrp
<1> QED BY <1>2, <1>3, <1>4, <1>5

\* So every step keeps the invariant.
LEMMA NextSteps == IInv /\ [Next]_vars => IInv'
BY StartSteps, KeyFileSteps, FileSteps, CheckSteps, VerifySteps, SendSteps, ConfirmSteps,
   ExecuteSteps, ExpireSteps, StutterSteps DEF Next, Script, Chain

\* Every state of the bootstrap, with the runs of its operator and the crashes between
\* two transactions, satisfies the inductive invariant.
THEOREM Invariant == Spec => []IInv
BY InitInvariant, NextSteps, PTL DEF Spec

\* Key files, the run, its transactions and the chain are well formed.
THEOREM BootstrapTypeCorrect == Spec => []TypeOK
BY Invariant, PTL DEF IInv

\* A key whose mint exists, or may come to, is in the file a re-run reads.
THEOREM KeysAreKeptHolds == Spec => []KeysAreKept
<1>1. IInv => KeysAreKept
  BY DEF IInv, Kept, InUse, KeysAreKept
<1> QED BY Invariant, <1>1, PTL

\* Completion means the Config is bound to its mint, and on mainnet rotated.
THEOREM CompleteMeansBoundHolds == Spec => []CompleteMeansBound
<1>1. IInv => CompleteMeansBound
  <2> SUFFICES ASSUME IInv, pc = "complete"
               PROVE  /\ net = "mainnet" => config.authority = Squads
                      /\ lost \/ mint[<<"yxrp", config.yxrp>>] = ConfigPda
    BY DEF CompleteMeansBound
  <2>1. config # Absent /\ config.yxrp \in Keys
    BY DEF IInv, Bound, TypeOK, Configs
  <2>2. InUse(config.yxrp)
    BY <2>1 DEF IInv, Bound, InUse, Yxrp, Mints
  <2>3. ~lost => config.yxrp = key["mints"]
    BY <2>1, <2>2 DEF IInv, Kept
  <2> QED BY <2>3 DEF IInv, Bound, Yxrp, TypeOK
<1> QED BY Invariant, <1>1, PTL

-----------------------------------------------------------------------------
(* Bootstrap: what the steps of a run have done stays done. *)

\* The steps of the two networks.
StepSet == {"wxrp", "yxrp", "initialize", "rotate", "handOver"}

\* The mints of the key file.
OnDisk(m) == mint[<<m, file["mints"]>>]

\* A step that has nothing left to do.
Done(s) ==
    /\ s \in Mints => OnDisk(s) # Absent
    /\ s \in {"initialize", "rotate"} => config # Absent
    /\ s = "rotate" => config.authority = Squads
    /\ s = "handOver" => OnDisk("yxrp") = ConfigPda

\* The first n steps of the run's network are done.
DoneTo(n) == file["mints"] \in Keys /\ \A i \in 1..n : Done(Steps[i])

\* A run goes on from what is done, and what it waits for is under way.
RunDone ==
    /\ net = "mainnet" => file["attestor"] \in Keys
    /\ (pc = "confirm" /\ result = "none") => sent \in flying
    /\ ~lost =>
         /\ pc \in {"check", "send", "confirm"} => DoneTo(step - 1)
         /\ (pc = "confirm" /\ result \in {"ok", "failed"}) => DoneTo(step)

\* The order of the steps: which ones a step relies on.
LEMMA StepOrder ==
    ASSUME net \in {"mainnet", "devnet"}
    PROVE  /\ \A i \in 1..4 : Steps[i] \in StepSet
           /\ \A i \in 1..4 : Steps[i] \in {"initialize", "handOver"} =>
                 \E j \in 1..(i - 1) : Steps[j] = "yxrp"
           /\ \A i \in 1..4 : Steps[i] = "initialize" /\ net = "devnet" =>
                 \E j \in 1..(i - 1) : Steps[j] = "wxrp"
           /\ \A i \in 1..4 : Steps[i] = "rotate" =>
                 \E j \in 1..(i - 1) : Steps[j] = "initialize"
           /\ \E j \in 1..4 : Steps[j] = "initialize"
           /\ net = "mainnet" => \E j \in 1..4 : Steps[j] = "rotate"
<1>1. CASE net = "mainnet"
  BY <1>1 DEF Steps, StepsOf, StepSet
<1>2. CASE net = "devnet"
  BY <1>2 DEF Steps, StepsOf, StepSet
<1> QED BY <1>1, <1>2

\* A key in a file stays there, unless the mints' file is lost.
LEMMA FileStays ==
    ASSUME IInv, [Next]_vars, NEW f \in Files, file[f] \in Keys, ~lost' \/ f = "attestor"
    PROVE  file'[f] = file[f]
<1> USE DEF IInv
<1>1. CASE UNCHANGED file
  BY <1>1
<1>2. CASE Keypairs \/ Fill
  <2>1. \/ UNCHANGED file
        \/ file[FileAt] \in {Absent, Torn} /\ \E x : file' = [file EXCEPT ![FileAt] = x]
    BY <1>2 DEF Keypairs, Fill, Load, LoadFails, Create, RunOK
  <2> QED BY <2>1, SentinelAssumption DEF TypeOK
<1>3. CASE RemoveTorn
  BY <1>3, SentinelAssumption DEF RemoveTorn, TypeOK
<1>4. CASE LoseFile
  BY <1>4 DEF LoseFile, TypeOK
<1>5. [Next]_vars => UNCHANGED file \/ Keypairs \/ Fill \/ RemoveTorn \/ LoseFile
  BY DEF Next, Script, Chain, Start, Check, Verify, Send, Confirm, Execute, Expire, Settles, Stop,
         RunAgain, disk, vars
<1> QED BY <1>1, <1>2, <1>3, <1>4, <1>5

\* A step of the bootstrap leaves the chain, or executes a transaction.
LEMMA ChainStays ==
    ASSUME [Next]_vars
    PROVE  net' = net /\ (UNCHANGED chain \/ \E t \in flying : Execute(t))
BY DEF Next, Script, Chain, Start, Keypairs, Fill, Check, Verify, Send, Confirm, Execute, Expire,
       Settles, Stop, RemoveTorn, RunAgain, LoseFile, vars

\* A step that is done stays done, unless the key file is lost.
LEMMA DoneStays ==
    ASSUME IInv, [Next]_vars, ~lost', file["mints"] \in Keys, NEW s \in StepSet, Done(s)
    PROVE  Done(s)'
<1> USE DEF IInv
<1>1. file'["mints"] = file["mints"]
  BY FileStays DEF Files
<1>2. CASE UNCHANGED chain
  BY <1>1, <1>2 DEF chain, Done, OnDisk
<1>3. ASSUME NEW t \in flying, Execute(t) PROVE Done(s)'
  <2>1. \A m \in Mints, k \in Keys : mint[<<m, k>>] # Absent => mint'[<<m, k>>] # Absent
    BY <1>3, ExecuteEffect
  <2>2. \A k \in Keys : Yxrp(k) = ConfigPda => Yxrp(k)' = ConfigPda
    BY <1>3, ExecuteEffect
  <2>3. config # Absent => config' # Absent /\ (config' = config \/ config'.authority = Squads)
    BY <1>3, ExecuteEffect
  <2>4. CASE s \in Mints
    BY <1>1, <2>1, <2>4 DEF Done, OnDisk, Mints
  <2>5. CASE s \in {"initialize", "rotate"}
    BY <2>3, <2>5 DEF Done, Mints
  <2>6. CASE s = "handOver"
    BY <1>1, <2>2, <2>6 DEF Done, OnDisk, Yxrp, Mints
  <2> QED BY <2>4, <2>5, <2>6 DEF StepSet, Mints
<1> QED BY <1>2, <1>3, ChainStays

\* So do the first n.
LEMMA DoneToStays ==
    ASSUME IInv, [Next]_vars, ~lost', NEW n \in 0..4, DoneTo(n)
    PROVE  DoneTo(n)'
<1>1. file["mints"] \in Keys /\ file'["mints"] = file["mints"]
  BY FileStays DEF DoneTo, Files
<1>2. Steps' = Steps /\ \A i \in 1..4 : Steps[i] \in StepSet
  BY ChainStays, StepOrder DEF Steps, IInv, TypeOK
<1>3. ASSUME NEW i \in 1..n PROVE Done(Steps[i])'
  <2>1. Steps[i] \in StepSet /\ Done(Steps[i])
    BY <1>2 DEF DoneTo
  <2>2. \A s \in StepSet : Done(s) => Done(s)'
    BY <1>1, DoneStays
  <2> DEFINE s == Steps[i]
  <2>3. s \in StepSet /\ Done(s) /\ s' = s
    BY <1>2, <2>1
  <2> HIDE DEF s
  <2>4. Done(s)'
    BY <2>2, <2>3 DEF Done
  <2> QED BY <2>4 DEF s
<1> QED BY <1>1, <1>3 DEF DoneTo
\* A transaction of the run that the chain refuses has nothing left to do.
LEMMA RefusedIsDone ==
    ASSUME IInv, ~lost, pc \in {"send", "confirm"}, DoneTo(step - 1),
           NEW t, t.step = Steps[step], t.mints = key["mints"], ~Valid(t)
    PROVE  DoneTo(step)
<1> USE DEF IInv
<1>1. step \in 1..4 /\ file["mints"] = key["mints"] /\ file["mints"] \in Keys
  BY DEF RunOK, Kept
<1>2. \A j \in 1..(step - 1) : Done(Steps[j])
  BY DEF DoneTo
<1>3. Steps[step] \in StepSet
  BY <1>1, StepOrder DEF TypeOK
<1>4. Done(Steps[step])
  <2>1. CASE Steps[step] \in Mints
    BY <1>1, <2>1 DEF Valid, Done, OnDisk, Mints
  <2>2. CASE Steps[step] = "initialize"
    <3>1. \E j \in 1..(step - 1) : Steps[j] = "yxrp"
      BY <1>1, <2>2, StepOrder DEF TypeOK
    <3>2. net = "devnet" => \E j \in 1..(step - 1) : Steps[j] = "wxrp"
      BY <1>1, <2>2, StepOrder DEF TypeOK
    <3>3. Done("yxrp") /\ (net = "devnet" => Done("wxrp"))
      BY <1>2, <3>1, <3>2
    <3>4. ~(/\ config = Absent /\ mint[<<"yxrp", t.mints>>] # Absent
            /\ net = "devnet" => mint[<<"wxrp", t.mints>>] # Absent)
      BY <2>2 DEF Valid, Mints
    <3> QED BY <1>1, <2>2, <3>3, <3>4 DEF Done, OnDisk, Mints
  <2>3. CASE Steps[step] = "rotate"
    <3>1. \E j \in 1..(step - 1) : Steps[j] = "initialize"
      BY <1>1, <2>3, StepOrder DEF TypeOK
    <3>2. Done("initialize")
      BY <1>2, <3>1
    <3>3. ~(config # Absent /\ config.authority = Deployer)
      BY <2>3 DEF Valid, Mints
    <3>4. config # Absent => config.authority \in {Deployer, Squads}
      BY DEF TypeOK, Configs
    <3> QED BY <2>3, <3>2, <3>3, <3>4 DEF Done, Mints
  <2>4. CASE Steps[step] = "handOver"
    <3>1. \E j \in 1..(step - 1) : Steps[j] = "yxrp"
      BY <1>1, <2>4, StepOrder DEF TypeOK
    <3>2. Done("yxrp")
      BY <1>2, <3>1
    <3>3. mint[<<"yxrp", t.mints>>] # Deployer
      BY <2>4 DEF Valid, Mints
    <3>4. mint[<<"yxrp", file["mints"]>>] \in {Absent, Deployer, ConfigPda}
      BY <1>1 DEF TypeOK, Mints
    <3> QED BY <1>1, <2>4, <3>2, <3>3, <3>4 DEF Done, OnDisk, Mints
  <2> QED BY <1>3, <2>1, <2>2, <2>3, <2>4 DEF StepSet, Mints
<1>5. \A j \in 1..step : j = step \/ j \in 1..(step - 1)
  BY <1>1
<1> QED BY <1>1, <1>2, <1>4, <1>5 DEF DoneTo

\* One that it executes has done its step.
LEMMA ExecutedIsDone ==
    ASSUME IInv, NEW t \in flying, Execute(t), Valid(t), t.mints = file["mints"]
    PROVE  Done(t.step)'
<1> USE DEF IInv
<1>1. t \in Transactions /\ file' = file /\ Effect(t)
  BY DEF Execute, Settles, disk, TypeOK
<1>2. t.step \in StepSet /\ t.mints \in Keys
  BY <1>1 DEF Transactions, StepSet
<1>3. CASE t.step \in Mints
  <2>1. mint' = [mint EXCEPT ![<<t.step, t.mints>>] = Deployer]
    <3>1. Effect(t) /\ t.step \in Mints /\ t.step # "handOver"
      BY <1>1, <1>3 DEF Mints
    <3> QED BY <3>1 DEF Effect
  <2>2. <<t.step, t.mints>> \in Mints \X Keys /\ mint \in [Mints \X Keys -> {Absent, Deployer, ConfigPda}]
    BY <1>2, <1>3 DEF TypeOK
  <2>3. mint'[<<t.step, file'["mints"]>>] # Absent
    BY <1>1, <2>1, <2>2, SentinelAssumption
  <2> QED BY <1>3, <2>3 DEF Done, OnDisk, Mints
<1>4. CASE t.step = "initialize"
  <2>1. config' # Absent
    <3>1. config' = [authority |-> Deployer, yxrp |-> t.mints, attestor |-> t.attestor,
                     wxrp |-> IF net = "devnet" THEN t.mints ELSE Absent]
      BY <1>1, <1>4 DEF Effect
    <3>2. config' \in Configs
      BY <1>1, <3>1 DEF Configs, Transactions
    <3> QED BY <3>2, SentinelAssumption
  <2> QED BY <1>4, <2>1 DEF Done, Mints
<1>5. CASE t.step = "rotate"
  <2>1. config' = [config EXCEPT !.authority = Squads] /\ config \in Configs
    BY <1>1, <1>5 DEF Effect, Valid, Mints, TypeOK
  <2>2. config' \in Configs /\ config'.authority = Squads
    BY <2>1 DEF Configs
  <2> QED BY <1>5, <2>2, SentinelAssumption DEF Done, Mints
<1>6. CASE t.step = "handOver"
  <2>1. mint' = [mint EXCEPT ![<<"yxrp", t.mints>>] = ConfigPda]
    BY <1>1, <1>6 DEF Effect, Mints
  <2> QED BY <1>1, <1>2, <1>6, <2>1 DEF Done, OnDisk, Mints, TypeOK
<1> QED BY <1>2, <1>3, <1>4, <1>5, <1>6 DEF StepSet, Mints

\* What a step does to a run: the script goes on, or what it waits for settles.
LEMMA RunMoves ==
    ASSUME [Next]_vars, ~Script
    PROVE  \/ pc' = "off"
           \/ UNCHANGED run /\ result' = result /\ sent' = sent /\ \A t \in flying : t \in flying' \/ t # sent
           \/ UNCHANGED run /\ \E t \in flying : t = sent /\ (Execute(t) \/ Expire(t))
<1>1. ASSUME NEW t \in flying, Execute(t) \/ Expire(t)
      PROVE  \/ UNCHANGED run /\ result' = result /\ sent' = sent /\ \A u \in flying : u \in flying' \/ u # sent
             \/ UNCHANGED run /\ \E u \in flying : u = sent /\ (Execute(u) \/ Expire(u))
  BY <1>1 DEF Execute, Expire, Settles
<1>2. CASE UNCHANGED vars
  BY <1>2 DEF vars, wire
<1>3. CASE Stop \/ RemoveTorn \/ LoseFile \/ RunAgain
  BY <1>3 DEF Stop, RemoveTorn, LoseFile, RunAgain, Exit, Goto, wire
<1> QED BY <1>1, <1>2, <1>3 DEF Next, Chain

\* Where a step of the script takes the run: to its next step once that has nothing
\* left to do, out of it only if that is so as well, or for what failed before.
Loading(f) == pc = "keys" /\ FileAt = f
Filling(f) == pc = "fill" /\ FileAt = f
TornLeft(f) == file[f] = Torn /\ ~Filling(f)
At(p, i) == pc = p /\ step = i

\* While it loads its keypairs.
LEMMA KeyMoves ==
    ASSUME IInv, RunDone, Script
    PROVE  /\ pc = "off" => Loading("attestor")'
           /\ Loading("attestor") => \/ Filling("attestor")' \/ Loading("mints")'
                                     \/ TornLeft("attestor") /\ pc' = "off"
           /\ Filling("attestor") => Loading("mints")'
           /\ Loading("mints") => \/ Filling("mints")'
                                  \/ At("check", 1)' /\ file'["mints"] \in Keys
                                  \/ TornLeft("mints") /\ pc' = "off"
           /\ Filling("mints") => At("check", 1)' /\ file'["mints"] \in Keys
<1> USE DEF IInv
<1>1. CASE Start
  BY <1>1 DEF Start, Goto, Loading, Filling, FileAt, Files
<1>2. ASSUME NEW k \in Keys, Loaded(k), file'[FileAt] = k, pc \in {"keys", "fill"}
      PROVE  /\ FileAt = "attestor" => Loading("mints")'
             /\ FileAt = "mints" => At("check", 1)' /\ file'["mints"] \in Keys
             /\ FileAt \in Files
  <2>1. k # Absent /\ step' = 1 /\ key' = [key EXCEPT ![FileAt] = k]
    BY <1>2, SentinelAssumption DEF Loaded, RunOK
  <2>2. FileAt = "attestor" => pc' = "keys" /\ FileAt' = "mints"
    BY <1>2, <2>1 DEF Loaded, Goto, FileAt, TypeOK, Files
  <2>3. FileAt = "mints" => pc' = "check"
    BY <1>2 DEF Loaded, Goto
  <2> QED BY <1>2, <2>1, <2>2, <2>3 DEF Loading, At, FileAt, Files
<1>3. CASE Keypairs /\ Load
  <2>1. file[FileAt] \in Keys /\ Loaded(file[FileAt]) /\ file' = file /\ pc = "keys"
    BY <1>3 DEF Keypairs, Load
  <2> QED BY <1>2, <2>1 DEF Loading, Filling
<1>4. CASE Keypairs /\ Create
  BY <1>4 DEF Keypairs, Create, Goto, Loading, Filling, FileAt
<1>5. CASE Keypairs /\ LoadFails
  <2>1. pc = "keys" /\ pc' = "off" /\ FileAt \in Files
    BY <1>5 DEF Keypairs, LoadFails, Exit, Goto, FileAt, Files
  <2>2. file[FileAt] = Torn
    BY <1>5, SentinelAssumption DEF Keypairs, LoadFails, RunDone
  <2> QED BY <2>1, <2>2 DEF Loading, Filling, TornLeft
<1>6. CASE Fill
  <2>1. PICK k \in Keys : file' = [file EXCEPT ![FileAt] = k] /\ Loaded(k)
    BY <1>6 DEF Fill
  <2>2. pc = "fill" /\ file'[FileAt] = k
    BY <1>6, <2>1 DEF Fill, TypeOK, FileAt, Files
  <2> QED BY <1>2, <2>1, <2>2 DEF Loading, Filling
<1>7. pc \in {"check", "send", "confirm"} => ~(pc = "off") /\ \A f \in Files : ~Loading(f) /\ ~Filling(f)
  BY DEF Loading, Filling
<1>8. Check \/ Verify \/ Send \/ Confirm => pc \in {"check", "send", "confirm"}
  BY DEF Check, Verify, Send, Confirm
<1> QED BY <1>1, <1>3, <1>4, <1>5, <1>6, <1>7, <1>8 DEF Script, Keypairs, Files

\* From step to step, when the key file is not lost.
LEMMA StepMoves ==
    ASSUME IInv, RunDone, Script, ~lost'
    PROVE  /\ \A i \in 1..4 : At("check", i) =>
                 \/ At("check", i + 1)' /\ DoneTo(i)'
                 \/ At("send", i)' /\ ~DoneTo(i) /\ DoneTo(i - 1)'
           /\ \A i \in 1..4 : At("send", i) =>
                 \/ At("confirm", i)' /\ result' = "none" /\ sent' \in flying' /\ DoneTo(i - 1)'
                 \/ pc' = "off" /\ DoneTo(i)'
           /\ \A i \in 1..4 : At("confirm", i) =>
                 \/ At("check", i + 1)' /\ DoneTo(i)'
                 \/ pc' = "off" /\ (result = "expired" \/ DoneTo(i)')
           /\ At("check", 5) => pc' = "complete"
<1> USE DEF IInv
<1>1. pc \in {"check", "send", "confirm"} => /\ net' = net /\ file' = file /\ lost' = lost /\ chain' = chain
                                             /\ step \in 1..5
  BY DEF Script, Start, Keypairs, Fill, Check, Verify, Send, Confirm, disk, chain, TypeOK
<1>2. pc \in {"check", "send", "confirm"} => ~lost /\ \A n \in 0..4 : DoneTo(n) => DoneTo(n)'
  BY <1>1 DEF chain, DoneTo, Done, OnDisk, Steps
<1>3. pc \in {"check", "send", "confirm"} => DoneTo(step - 1) /\ file["mints"] = key["mints"]
  BY <1>2 DEF RunDone, Kept
<1>4. ASSUME NEW i \in 1..4, DoneTo(i - 1), Done(Steps[i]) PROVE DoneTo(i)
  <2>1. \A j \in 1..i : j = i \/ j \in 1..(i - 1)
    OBVIOUS
  <2> QED BY <1>4, <2>1 DEF DoneTo
<1>5. ASSUME NEW i \in 1..4, At("check", i)
      PROVE  \/ At("check", i + 1)' /\ DoneTo(i)'
             \/ At("send", i)' /\ ~DoneTo(i) /\ DoneTo(i - 1)'
  <2>1. pc = "check" /\ step = i /\ DoneTo(i - 1) /\ Len(Steps) = 4 /\ Step = Steps[i]
    BY <1>3, <1>5, StepNames DEF At, TypeOK, Step
  <2>2. Check
    BY <2>1 DEF Script, Start, Keypairs, Fill, Verify, Send, Confirm
  <2>3. Step \in StepSet
    BY <2>1, StepOrder DEF TypeOK
  <2>4. Skips(Step) <=> Done(Step)
    <3>1. CASE Step \in Mints
      BY <1>3, <2>1, <3>1 DEF Skips, Done, Account, OnDisk, Mints
    <3>2. CASE Step \in {"initialize", "rotate", "handOver"}
      BY <1>3, <2>1, <3>2 DEF Skips, Done, Account, OnDisk, Mints
    <3> QED BY <2>3, <3>1, <3>2 DEF StepSet, Mints
  <2>5. ~Throws(Step)
    <3>1. CASE Step = "rotate"
      <4>1. \E j \in 1..(i - 1) : Steps[j] = "initialize"
        BY <2>1, <3>1, StepOrder DEF TypeOK
      <4>2. config # Absent
        BY <2>1, <4>1 DEF DoneTo, Done
      <4> QED BY <3>1, <4>2 DEF Throws, TypeOK, Configs
    <3>2. CASE Step = "handOver"
      <4>1. \E j \in 1..(i - 1) : Steps[j] = "yxrp"
        BY <2>1, <3>2, StepOrder DEF TypeOK
      <4>2. Account("yxrp") # Absent
        BY <1>3, <2>1, <4>1 DEF DoneTo, Done, OnDisk, Account, Mints
      <4> QED BY <3>2, <4>2 DEF Throws
    <3> QED BY <3>1, <3>2 DEF Throws
  <2>6. CASE Skips(Step)
    <3>1. pc' = "check" /\ step' = i + 1
      BY <2>1, <2>2, <2>5, <2>6 DEF Check
    <3> QED BY <1>2, <1>4, <2>1, <2>4, <2>6, <3>1 DEF At
  <2>7. CASE ~Skips(Step)
    <3>1. pc' = "send" /\ step' = i
      BY <2>1, <2>2, <2>5, <2>7 DEF Check, Goto
    <3>2. ~DoneTo(i)
      BY <2>1, <2>4, <2>7 DEF DoneTo
    <3> QED BY <1>2, <2>1, <3>1, <3>2 DEF At
  <2> QED BY <2>6, <2>7
<1>6. ASSUME NEW i \in 1..4, At("send", i)
      PROVE  \/ At("confirm", i)' /\ result' = "none" /\ sent' \in flying' /\ DoneTo(i - 1)'
             \/ pc' = "off" /\ DoneTo(i)'
  <2> DEFINE t == [step |-> Step, mints |-> key["mints"], attestor |-> key["attestor"], nonce |-> faults]
  <2>1. pc = "send" /\ step = i /\ DoneTo(i - 1) /\ Step = Steps[i]
    BY <1>3, <1>6 DEF At, Step
  <2>2. Send
    BY <2>1 DEF Script, Start, Keypairs, Fill, Check, Verify, Confirm
  <2>3. t.step = Steps[step] /\ t.mints = key["mints"]
    BY DEF Step
  <2>4. CASE Valid(t)
    <3>1. sent' = t /\ result' = "none" /\ flying' = flying \cup {t} /\ pc' = "confirm" /\ step' = i
      BY <2>1, <2>2, <2>4 DEF Send, Goto
    <3> QED BY <1>2, <2>1, <3>1 DEF At
  <2>5. CASE ~Valid(t)
    <3>1. pc' = "off"
      BY <2>2, <2>5 DEF Send, Exit, Goto
    <3> HIDE DEF t
    <3>2. DoneTo(i)
      BY <1>2, <2>1, <2>3, <2>5, RefusedIsDone
    <3> QED BY <1>2, <2>1, <3>1, <3>2
  <2> QED BY <2>4, <2>5
<1>7. ASSUME NEW i \in 1..4, At("confirm", i)
      PROVE  \/ At("check", i + 1)' /\ DoneTo(i)'
             \/ pc' = "off" /\ (result = "expired" \/ DoneTo(i)')
  <2>1. pc = "confirm" /\ step = i
    BY <1>7 DEF At
  <2>2. Confirm
    BY <2>1 DEF Script, Start, Keypairs, Fill, Check, Verify, Send
  <2>3. result = "expired" \/ DoneTo(i)
    BY <1>2, <2>1, <2>2 DEF Confirm, RunDone, TypeOK
  <2>4. \/ pc' = "check" /\ step' = i + 1 /\ result # "expired"
        \/ pc' = "off"
    BY <2>1, <2>2 DEF Confirm, Exit, Goto
  <2> QED BY <1>2, <2>1, <2>3, <2>4 DEF At
<1>8. ASSUME At("check", 5) PROVE pc' = "complete"
  <2>1. pc = "check" /\ step = 5 /\ DoneTo(4) /\ Len(Steps) = 4
    BY <1>3, <1>8, StepNames DEF At, TypeOK
  <2>2. Verify
    BY <2>1 DEF Script, Start, Keypairs, Fill, Check, Send, Confirm
  <2>3. \A j \in 1..4 : Done(Steps[j])
    BY <2>1 DEF DoneTo
  <2>4. Done("initialize") /\ Done("handOver") /\ (net = "mainnet" => Done("rotate"))
    BY <2>3, StepOrder, StepNames DEF TypeOK
  <2>5. config # Absent /\ Account("yxrp") = ConfigPda /\ (net = "mainnet" => config.authority = Squads)
    BY <1>3, <2>1, <2>4 DEF Done, Account, OnDisk, Mints
  <2>6. Account("yxrp") # Absent /\ Verified
    BY <2>5, SentinelAssumption DEF Verified
  <2> QED BY <2>2, <2>5, <2>6 DEF Verify, Goto
<1> QED BY <1>5, <1>6, <1>7, <1>8

\* So a run goes on from what is done, whoever's transactions land when.
LEMMA RunDoneStep ==
    ASSUME IInv, RunDone, [Next]_vars
    PROVE  RunDone'
<1> USE DEF IInv
<1>1. net' = "mainnet" => file'["attestor"] \in Keys
  BY ChainStays, FileStays DEF RunDone, Files
<1>2. CASE Script
  <2>1. (pc' = "confirm" /\ result' = "none") => sent' \in flying'
    <3>1. pc' = "confirm" => Send
      BY <1>2 DEF Script, Start, Keypairs, Fill, Load, LoadFails, Create, Loaded, Check, Verify,
              Confirm, Exit, Goto
    <3> QED BY <3>1 DEF Send, Exit, Goto
  <2>2. ASSUME ~lost'
        PROVE  /\ pc' \in {"check", "send", "confirm"} => DoneTo(step - 1)'
               /\ (pc' = "confirm" /\ result' \in {"ok", "failed"}) => DoneTo(step)'
    <3>1. CASE pc \in {"off", "keys", "fill"}
      <4>1. FileAt \in Files
        BY DEF FileAt, Files
      <4>2. pc' \in {"off", "keys", "fill"} \/ (At("check", 1)' /\ file'["mints"] \in Keys)
        BY <1>2, <3>1, <4>1, KeyMoves DEF Loading, Filling, Files
      <4> QED BY <4>2 DEF At, DoneTo
    <3>2. CASE pc = "check" /\ step = 5
      BY <1>2, <2>2, <3>2, StepMoves DEF At
    <3>3. CASE pc \in {"check", "send", "confirm"} /\ step \in 1..4
      <4>1. /\ pc' \in {"check", "send", "confirm"} => \E n \in 0..4 : DoneTo(n)' /\ step' = n + 1
            /\ pc' = "confirm" => result' = "none"
        <5>1. PICK i \in 1..4 : step = i
          BY <3>3
        <5>2. At("check", i) \/ At("send", i) \/ At("confirm", i)
          BY <3>3, <5>1 DEF At
        <5>3. \/ At("check", i + 1)' /\ DoneTo(i)'
              \/ (At("send", i)' \/ (At("confirm", i)' /\ result' = "none")) /\ DoneTo(i - 1)'
              \/ pc' = "off"
          <6>1. CASE At("check", i)
            BY <1>2, <2>2, <6>1, StepMoves
          <6>2. CASE At("send", i)
            BY <1>2, <2>2, <6>2, StepMoves
          <6>3. CASE At("confirm", i)
            BY <1>2, <2>2, <6>3, StepMoves
          <6> QED BY <5>2, <6>1, <6>2, <6>3
        <5>4. i \in 0..4 /\ i - 1 \in 0..4 /\ i = (i - 1) + 1
          OBVIOUS
        <5> QED BY <5>3, <5>4 DEF At
      <4>2. ASSUME NEW n \in 0..4, DoneTo(n)', step' = n + 1 PROVE DoneTo(step - 1)'
        BY <4>2 DEF DoneTo
      <4> QED BY <4>1, <4>2
    <3>4. pc = "complete" => FALSE
      BY <1>2 DEF Script, Start, Keypairs, Fill, Check, Verify, Send, Confirm
    <3> QED BY <3>1, <3>2, <3>3, <3>4 DEF TypeOK, RunOK
  <2> QED BY <1>1, <2>1, <2>2 DEF RunDone
<1>3. CASE pc' = "off"
  BY <1>1, <1>3 DEF RunDone
<1>4. CASE UNCHANGED run /\ result' = result /\ sent' = sent /\ \A t \in flying : t \in flying' \/ t # sent
  <2>1. (pc' = "confirm" /\ result' = "none") => sent' \in flying'
    BY <1>4 DEF RunDone, run
  <2>2. ASSUME ~lost'
        PROVE  /\ pc' \in {"check", "send", "confirm"} => DoneTo(step - 1)'
               /\ (pc' = "confirm" /\ result' \in {"ok", "failed"}) => DoneTo(step)'
    <3>1. ~lost /\ pc' = pc /\ step' = step /\ result' = result
      BY <1>4, <2>2 DEF run, Next, vars, disk, Script, Chain, Start, Keypairs, Fill, Check, Verify, Send,
              Confirm, Execute, Expire, Settles, Stop, RemoveTorn, RunAgain, LoseFile
    <3>2. \A n \in 0..4 : DoneTo(n) => DoneTo(n)'
      BY <2>2, DoneToStays
    <3>3. pc = "confirm" => step \in 1..4
      BY DEF RunOK
    <3>4. step \in 1..5 /\ step - 1 \in 0..4
      BY DEF TypeOK
    <3> DEFINE m == step - 1
    <3>5. pc \in {"check", "send", "confirm"} => DoneTo(m) /\ DoneTo(m)'
      BY <3>1, <3>2, <3>4 DEF RunDone
    <3>6. (pc = "confirm" /\ result \in {"ok", "failed"}) => DoneTo(step) /\ DoneTo(step)'
      BY <3>1, <3>2, <3>3 DEF RunDone, DoneTo
    <3> QED BY <3>1, <3>5, <3>6
  <2> QED BY <1>1, <2>1, <2>2 DEF RunDone
<1>5. ASSUME NEW t \in flying, t = sent, Execute(t) \/ Expire(t), UNCHANGED run PROVE RunDone'
  <2>1. pc' = pc /\ step' = step /\ lost' = lost /\ result' # "none" /\ file' = file /\ net' = net
    BY <1>5 DEF Execute, Expire, Settles, run, disk
  <2>2. ASSUME ~lost, pc \in {"check", "send", "confirm"}
        PROVE  DoneTo(step - 1) /\ DoneTo(step - 1)'
    <3>1. step - 1 \in 0..4
      BY DEF TypeOK
    <3> DEFINE m == step - 1
    <3>2. DoneTo(m) /\ m \in 0..4 /\ m' = m
      BY <2>1, <2>2, <3>1 DEF RunDone
    <3> HIDE DEF m
    <3>3. DoneTo(m)'
      <4>1. \A n \in 0..4 : DoneTo(n) => DoneTo(n)'
        BY <2>1, <2>2, DoneToStays
      <4> QED BY <3>2, <4>1 DEF DoneTo
    <3> QED BY <3>2, <3>3 DEF m
  <2>3. ASSUME ~lost, pc = "confirm", result' \in {"ok", "failed"}
        PROVE  DoneTo(step)'
    <3>1. /\ Execute(t) /\ step \in 1..4 /\ sent.step = Steps[step] /\ sent.mints = key["mints"]
          /\ file["mints"] = key["mints"]
      BY <1>5, <2>3 DEF Expire, Settles, RunOK, Kept
    <3>2. CASE Valid(t)
      <4>1. Done(t.step)'
        BY <1>5, <3>1, <3>2, ExecutedIsDone
      <4>2. Steps' = Steps /\ t.step = Steps[step]
        BY <1>5, <2>1, <3>1 DEF Steps
      <4>3. Done(Steps[step])'
        BY <2>1, <4>1, <4>2 DEF Done
      <4>4. \A j \in 1..step : j = step \/ j \in 1..(step - 1)
        BY <3>1
      <4> QED BY <2>1, <2>2, <2>3, <4>3, <4>4 DEF DoneTo
    <3>3. CASE ~Valid(t)
      <4>1. DoneTo(step)
        BY <1>5, <2>2, <2>3, <3>1, <3>3, RefusedIsDone
      <4>2. UNCHANGED chain
        BY <3>1, <3>3 DEF Execute
      <4> QED BY <2>1, <4>1, <4>2 DEF DoneTo, Done, OnDisk, chain, Steps
    <3> QED BY <3>2, <3>3
  <2> QED BY <1>1, <2>1, <2>2, <2>3 DEF RunDone
<1> QED BY <1>2, <1>3, <1>4, <1>5, RunMoves

\* Steps that are not the script's, when nothing more fails.
LEMMA OtherMoves ==
    ASSUME IInv, [Next]_vars, UNCHANGED faults, ~Script, pc # "complete"
    PROVE  UNCHANGED run /\ (result' = result \/ result' \in {"ok", "failed"})
<1> USE DEF IInv
<1>1. faults + 1 # faults
  BY FaultsAssumption DEF TypeOK
<1>2. ASSUME NEW t \in flying, Execute(t) \/ Expire(t) PROVE Execute(t)
  BY <1>1, <1>2 DEF Expire, Fault
<1>3. ASSUME NEW t \in flying, Execute(t)
      PROVE  UNCHANGED run /\ (result' = result \/ result' \in {"ok", "failed"})
  BY <1>3 DEF Execute, Settles
<1>4. CASE UNCHANGED vars \/ RemoveTorn
  BY <1>4 DEF vars, RemoveTorn, wire
<1>5. ~Stop /\ ~LoseFile /\ ~RunAgain
  BY <1>1 DEF Stop, LoseFile, RunAgain, Fault
<1> QED BY <1>2, <1>3, <1>4, <1>5 DEF Next, Chain

\* A torn file is left by a run that was stopped; no other comes to be one, and the
\* operator's deletion takes one away.
LEMMA TornMoves ==
    ASSUME IInv, [Next]_vars, UNCHANGED faults, pc # "complete"
    PROVE  /\ \A f \in Files : ~TornLeft(f) => ~TornLeft(f)'
           /\ RemoveTorn => \E f \in Files : TornLeft(f) /\ ~TornLeft(f)'
<1> DEFINE NoneComes == \A f \in Files : ~TornLeft(f) => ~TornLeft(f)'
<1> USE DEF IInv
<1>1. ASSUME RemoveTorn PROVE NoneComes /\ \E f \in Files : TornLeft(f) /\ ~TornLeft(f)'
  <2>1. PICK f \in Files : file[f] = Torn /\ file' = [file EXCEPT ![f] = Absent]
    BY <1>1 DEF RemoveTorn
  <2>2. file'[f] = Absent /\ \A g \in Files : g # f => file'[g] = file[g]
    BY <2>1 DEF TypeOK
  <2>3. pc = "off" /\ pc' = "off"
    BY <1>1 DEF RemoveTorn, run
  <2> QED BY <2>1, <2>2, <2>3, SentinelAssumption DEF TornLeft, Filling
<1>2. ASSUME Keypairs \/ Fill PROVE NoneComes
  <2>1. CASE Keypairs /\ (Load \/ LoadFails)
    <3>1. pc = "keys" /\ file' = file
      BY <2>1 DEF Keypairs, Load, LoadFails
    <3> QED BY <3>1 DEF TornLeft, Filling
  <2>2. CASE Keypairs /\ Create
    <3>1. pc = "keys" /\ pc' = "fill" /\ FileAt' = FileAt /\ file' = [file EXCEPT ![FileAt] = Torn]
      BY <2>2 DEF Keypairs, Create, Goto, FileAt
    <3>2. \A f \in Files : f # FileAt => file'[f] = file[f]
      BY <3>1 DEF TypeOK
    <3> QED BY <3>1, <3>2 DEF TornLeft, Filling
  <2>3. CASE Fill
    <3>1. PICK k \in Keys : pc = "fill" /\ file' = [file EXCEPT ![FileAt] = k]
      BY <2>3 DEF Fill
    <3>2. \A f \in Files : file'[f] = IF f = FileAt THEN k ELSE file[f]
      BY <3>1 DEF TypeOK
    <3>3. \A f \in Files : f # FileAt => ~Filling(f)
      BY DEF Filling
    <3>4. k # Torn
      BY SentinelAssumption
    <3> QED BY <3>2, <3>3, <3>4 DEF TornLeft
  <2> QED BY <1>2, <2>1, <2>2, <2>3 DEF Keypairs
<1>3. ASSUME Script /\ ~Keypairs /\ ~Fill PROVE NoneComes
  <2>1. pc # "fill" /\ file' = file
    BY <1>3 DEF Script, Start, Check, Verify, Send, Confirm, disk
  <2> QED BY <2>1 DEF TornLeft, Filling
<1>4. ASSUME ~Script, ~RemoveTorn PROVE NoneComes
  <2>1. UNCHANGED run
    BY <1>4, OtherMoves
  <2>2. file' = file
    BY <1>4, <2>1, FaultsAssumption DEF Next, Chain, vars, disk, Execute, Expire, Settles, Stop, LoseFile,
            RunAgain, Fault, TypeOK
  <2> QED BY <1>4, <2>1, <2>2 DEF TornLeft, Filling, FileAt, run
<1> QED BY <1>1, <1>2, <1>3, <1>4

\* When nothing fails any more, no key file is lost and nothing stops the operator, a
\* run or the transaction it waits for, the script completes (init-mainnet.ts,
\* init-devnet.ts): a run that ends early has found a step done that was not, and the
\* next run goes at least one step further.
THEOREM CompletesHolds ==
    Spec /\ []BootstrapGoesOn /\ <>[][UNCHANGED faults]_vars => Completes
<1> DEFINE Inv == IInv /\ RunDone
           Calm == [UNCHANGED faults]_vars /\ ~lost' /\ ~(pc = "complete")
           Quiet == /\ [][Next]_vars /\ [][UNCHANGED faults]_vars /\ []Inv /\ []BootstrapGoesOn
                    /\ []~lost /\ []~(pc = "complete")
           Off == pc = "off"
           KA == Loading("attestor")   FA == Filling("attestor")
           KM == Loading("mints")      FM == Filling("mints")
           TA == TornLeft("attestor")  TM == TornLeft("mints")
           Ck(i) == At("check", i)
           Tx(i) == At("send", i) \/ At("confirm", i)
           Sends == pc = "send"
           Waits == pc = "confirm" /\ result = "none"
           Knows == pc = "confirm" /\ result # "none"
           Expired == pc = "confirm" /\ result = "expired"
           C1 == Ck(1)  C2 == Ck(2)  C3 == Ck(3)  C4 == Ck(4)  C5 == Ck(5)
           T1 == Tx(1)  T2 == Tx(2)  T3 == Tx(3)  T4 == Tx(4)
           D1 == DoneTo(1)  D2 == DoneTo(2)  D3 == DoneTo(3)  D4 == DoneTo(4)
<1>1. Inv /\ [Next]_vars => Inv'
  BY NextSteps, RunDoneStep
<1>2. Spec => []Inv
  <2>1. Init => RunDone
    BY DEF Init, RunDone, Files
  <2> QED BY <1>1, <2>1, InitInvariant, PTL DEF Spec
<1>3. Inv /\ [Next]_vars /\ Calm =>
        Script \/ (UNCHANGED run /\ (result' = result \/ result' \in {"ok", "failed"}))
  BY OtherMoves DEF vars
\* Where the run is, and where it goes.
<1>4. Inv /\ ~(pc = "complete") =>
        Off \/ KA \/ FA \/ KM \/ FM \/ C1 \/ C2 \/ C3 \/ C4 \/ C5 \/ T1 \/ T2 \/ T3 \/ T4
  BY DEF IInv, TypeOK, RunOK, Loading, Filling, FileAt, At
<1>5. Inv /\ [Next]_vars /\ Calm =>
        /\ Off => Off' \/ KA'
        /\ KA => KA' \/ FA' \/ KM' \/ (TA /\ Off')
        /\ FA => FA' \/ KM'
        /\ KM => KM' \/ FM' \/ C1' \/ (TM /\ Off')
        /\ FM => FM' \/ C1'
  <2>1. UNCHANGED run => /\ Off => Off'
                         /\ KA => KA'
                         /\ FA => FA'
                         /\ KM => KM'
                         /\ FM => FM'
    BY DEF run, Loading, Filling, FileAt
  <2> QED BY <1>3, <2>1, KeyMoves
<1>6. Inv /\ <<Script>>_vars =>
        /\ Off => KA'
        /\ KA => FA' \/ KM' \/ (TA /\ Off')
        /\ FA => KM'
        /\ KM => FM' \/ C1' \/ (TM /\ Off')
        /\ FM => C1'
  BY KeyMoves
<1>7. \A i \in 1..4 : Inv /\ [Next]_vars /\ Calm =>
        /\ Ck(i) => Ck(i)' \/ At("check", i + 1)' \/ Tx(i)'
        /\ Ck(i) /\ DoneTo(i) => Ck(i)' \/ At("check", i + 1)'
        /\ Tx(i) => Tx(i)' \/ At("check", i + 1)' \/ (Off' /\ (Expired \/ DoneTo(i)'))
        /\ DoneTo(i) => DoneTo(i)'
  <2> SUFFICES ASSUME NEW i \in 1..4, Inv, [Next]_vars, Calm
               PROVE  /\ Ck(i) => Ck(i)' \/ At("check", i + 1)' \/ Tx(i)'
                      /\ Ck(i) /\ DoneTo(i) => Ck(i)' \/ At("check", i + 1)'
                      /\ Tx(i) => Tx(i)' \/ At("check", i + 1)' \/ (Off' /\ (Expired \/ DoneTo(i)'))
                      /\ DoneTo(i) => DoneTo(i)'
    OBVIOUS
  <2>1. DoneTo(i) => DoneTo(i)'
    BY DoneToStays
  <2>2. CASE UNCHANGED run
    BY <2>1, <2>2 DEF run, At
  <2>3. CASE Script
    <3>1. Ck(i) => At("check", i + 1)' \/ (At("send", i)' /\ ~DoneTo(i))
      BY <2>3, StepMoves
    <3>2. At("send", i) => At("confirm", i)' \/ (Off' /\ DoneTo(i)')
      BY <2>3, StepMoves
    <3>3. At("confirm", i) => At("check", i + 1)' \/ (Off' /\ (result = "expired" \/ DoneTo(i)'))
      BY <2>3, StepMoves
    <3>4. At("confirm", i) /\ result = "expired" => Expired
      BY DEF At
    <3> QED BY <2>1, <3>1, <3>2, <3>3, <3>4
  <2> QED BY <1>3, <2>2, <2>3
<1>8. \A i \in 1..4 : Inv /\ Calm /\ <<Script>>_vars =>
        /\ Ck(i) => At("check", i + 1)' \/ Tx(i)'
        /\ Ck(i) /\ DoneTo(i) => At("check", i + 1)'
  <2> SUFFICES ASSUME NEW i \in 1..4, Inv, Calm, Script
               PROVE  /\ Ck(i) => At("check", i + 1)' \/ Tx(i)'
                      /\ Ck(i) /\ DoneTo(i) => At("check", i + 1)'
    OBVIOUS
  <2>1. Ck(i) => At("check", i + 1)' \/ (At("send", i)' /\ ~DoneTo(i))
    BY StepMoves
  <2> QED BY <2>1
<1>9. Inv /\ Calm =>
        /\ [Next]_vars /\ C5 => C5' \/ (pc = "complete")'
        /\ <<Script>>_vars /\ C5 => (pc = "complete")'
  <2>1. Inv /\ Calm /\ Script /\ C5 => (pc = "complete")'
    BY StepMoves
  <2>2. UNCHANGED run /\ C5 => C5'
    BY DEF run, At
  <2> QED BY <1>3, <2>1, <2>2
<1>10. Inv /\ ~lost => /\ C2 => D1
                       /\ C3 => D2
                       /\ C4 => D3
                       /\ C5 => D4
  BY DEF RunDone, At
<1>11. Inv /\ [Next]_vars /\ Calm =>
        /\ Sends => Sends' \/ Waits' \/ Off'
        /\ Waits => Waits' \/ Knows'
        /\ Knows => Knows' \/ ~(pc \in {"send", "confirm"})'
        /\ ~Expired => ~Expired'
  <2> SUFFICES ASSUME Inv, [Next]_vars, Calm
               PROVE  /\ Sends => Sends' \/ Waits' \/ Off'
                      /\ Waits => Waits' \/ Knows'
                      /\ Knows => Knows' \/ ~(pc \in {"send", "confirm"})'
                      /\ ~Expired => ~Expired'
    OBVIOUS
  <2>1. CASE UNCHANGED run /\ (result' = result \/ result' \in {"ok", "failed"})
    BY <2>1 DEF run
  <2>2. CASE Script
    <3>1. /\ Sends => Waits' \/ Off'
          /\ ~Waits
          /\ Knows => pc' \in {"check", "off"}
          /\ pc' = "confirm" => result' = "none"
      BY <2>2 DEF Script, Start, Keypairs, Load, LoadFails, Create, Fill, Loaded, Check, Verify, Send,
              Confirm, Exit, Goto
    <3> QED BY <3>1
  <2> QED BY <1>3, <2>1, <2>2
<1>12. Inv /\ <<Script>>_vars => /\ Sends => Waits' \/ Off'
                                 /\ Knows => ~(pc \in {"send", "confirm"})'
  BY DEF Script, Start, Keypairs, Load, LoadFails, Create, Fill, Loaded, Check, Verify, Send,
         Confirm, Exit, Goto
<1>13. Inv /\ Waits /\ <<Landing>>_vars => Knows'
  BY DEF Landing, Execute, Expire, Settles, run
<1>14. BootstrapGoesOn =>
        /\ ~(pc = "complete") /\ ~Waits => ENABLED <<Script>>_vars
        /\ Waits => ENABLED <<Landing>>_vars
        /\ Off /\ (TA \/ TM) => ENABLED <<RemoveTorn>>_vars
  BY DEF BootstrapGoesOn, TornLeft, Files
<1>15. Inv /\ [Next]_vars /\ Calm => /\ ~TA => ~TA'
                                     /\ ~TM => ~TM'
  BY TornMoves DEF vars, Files
<1>16. Inv /\ Calm /\ [Next]_vars /\ <<RemoveTorn>>_vars => (TA /\ ~TA') \/ (TM /\ ~TM')
  BY TornMoves DEF vars, Files
<1>17. (T1 \/ T2 \/ T3 \/ T4) => Sends \/ Waits \/ Knows
  BY DEF At
<1>18. /\ Off \/ KA \/ FA \/ KM \/ FM \/ C1 \/ C2 \/ C3 \/ C4 \/ C5 => ~Waits
       /\ Off \/ KA \/ FA \/ KM \/ FM \/ C1 \/ C2 \/ C3 \/ C4 \/ C5 => ~(pc \in {"send", "confirm"})
       /\ Sends \/ Waits \/ Knows <=> pc \in {"send", "confirm"}
       /\ ~(Sends /\ Waits) /\ ~(Waits /\ Knows)
       /\ Expired => Knows
  BY DEF Loading, Filling, At
\* Transactions are sent and settled, key files loaded, steps checked.
<1>19. Quiet /\ Fairness => [](Sends \/ Waits \/ Knows => <>~(Sends \/ Waits \/ Knows))
  BY <1>11, <1>12, <1>13, <1>14, <1>18, PTL DEF Fairness
<1>20. Quiet /\ Fairness => [](KA \/ FA \/ KM \/ FM => <>(C1 \/ Off))
  BY <1>5, <1>6, <1>14, <1>18, PTL DEF Fairness
<1>21. Inv /\ [Next]_vars /\ Calm =>
        /\ C1 => C1' \/ C2' \/ T1'
        /\ C2 => C2' \/ C3' \/ T2'
        /\ C3 => C3' \/ C4' \/ T3'
        /\ C4 => C4' \/ C5' \/ T4'
        /\ C1 /\ D1 => C1' \/ C2'
        /\ C2 /\ D2 => C2' \/ C3'
        /\ C3 /\ D3 => C3' \/ C4'
        /\ C4 /\ D4 => C4' \/ C5'
        /\ D1 => D1'
        /\ D2 => D2'
        /\ D3 => D3'
        /\ D4 => D4'
  BY <1>7
<1>22. Inv /\ [Next]_vars /\ Calm =>
        /\ T1 => T1' \/ C2' \/ (Off' /\ (Expired \/ D1'))
        /\ T2 => T2' \/ C3' \/ (Off' /\ (Expired \/ D2'))
        /\ T3 => T3' \/ C4' \/ (Off' /\ (Expired \/ D3'))
        /\ T4 => T4' \/ C5' \/ (Off' /\ (Expired \/ D4'))
  BY <1>7
<1>23. Inv /\ Calm /\ <<Script>>_vars =>
        /\ C1 => C2' \/ T1'
        /\ C2 => C3' \/ T2'
        /\ C3 => C4' \/ T3'
        /\ C4 => C5' \/ T4'
        /\ C1 /\ D1 => C2'
        /\ C2 /\ D2 => C3'
        /\ C3 /\ D3 => C4'
        /\ C4 /\ D4 => C5'
  BY <1>8
\* A run always ends.
<1>24. Quiet /\ Fairness => []~C5
  BY <1>9, <1>14, <1>18, PTL DEF Fairness
<1>25. Quiet /\ Fairness => []<>Off
  BY <1>4, <1>17, <1>18, <1>19, <1>20, <1>21, <1>22, <1>23, <1>24, <1>14, PTL DEF Fairness
\* Torn files are deleted, and what had expired is over.
<1>26. Quiet /\ Fairness => <>[](~TA /\ ~TM)
  BY <1>14, <1>15, <1>16, <1>25, PTL DEF Fairness
<1>27. Quiet /\ Fairness => <>[]~Expired
  BY <1>11, <1>18, <1>19, PTL
\* After that each run goes a step further than what is done.
<1>28. Quiet /\ Fairness /\ [](~TA /\ ~TM) => []<>C1
  BY <1>5, <1>6, <1>14, <1>18, <1>25, PTL DEF Fairness
<1>29. Quiet /\ Fairness /\ [](~TA /\ ~TM) /\ []~Expired => <>[]D1
  BY <1>10, <1>14, <1>17, <1>18, <1>19, <1>21, <1>22, <1>23, <1>28, PTL DEF Fairness
<1>30. Quiet /\ Fairness /\ [](~TA /\ ~TM) /\ []~Expired => <>[]D2
  BY <1>10, <1>14, <1>17, <1>18, <1>19, <1>21, <1>22, <1>23, <1>28, <1>29, PTL DEF Fairness
<1>31. Quiet /\ Fairness /\ [](~TA /\ ~TM) /\ []~Expired => <>[]D3
  BY <1>10, <1>14, <1>17, <1>18, <1>19, <1>21, <1>22, <1>23, <1>28, <1>29, <1>30, PTL DEF Fairness
<1>32. Quiet /\ Fairness /\ [](~TA /\ ~TM) /\ []~Expired => <>[]D4
  BY <1>10, <1>14, <1>17, <1>18, <1>19, <1>21, <1>22, <1>23, <1>28, <1>29, <1>30, <1>31, PTL
     DEF Fairness
<1>33. Quiet /\ Fairness /\ [](~TA /\ ~TM) /\ []~Expired => FALSE
  BY <1>14, <1>18, <1>21, <1>23, <1>24, <1>28, <1>29, <1>30, <1>31, <1>32, PTL DEF Fairness
<1> QED BY <1>2, <1>26, <1>27, <1>33, PTL DEF Spec, Fairness, Completes

-----------------------------------------------------------------------------
(* OpsScripts: what the watcher and the smoke test have read so far. *)


FundsOK ==
    /\ opened \subseteq Users /\ vault \in 0..MaxVault
    /\ principal \in [Users -> 0..MaxVault] /\ yxrp \in [Users -> 0..MaxVault]

\* The vault holds what the positions say and what the receipts are worth, or more;
\* only an account that is there holds anything.
Funded ==
    /\ SumFunctionOnSet(principal, Users) <= vault
    /\ SumFunctionOnSet(yxrp, Users) <= vault
    /\ \A u \in Users \ opened : principal[u] = 0

\* What the watcher has added up is bounded by the positions it has read, and if
\* nothing moved it is what is on chain.
Reading ==
    /\ watch.sum + MaxVault * Cardinality(watch.left) <= Most
    /\ watch.at = "list" => watch.sum = 0
    /\ watch.at \notin {"off", "alert"} /\ quiet => watch.bad = Suspect
    /\ watch.at = "position" /\ quiet =>
          watch.sum + SumFunctionOnSet(principal, watch.left) = SumFunctionOnSet(principal, Users)
    /\ watch.at \in {"vault", "supply"} /\ quiet =>
          watch.sum = SumFunctionOnSet(principal, Users)
    /\ watch.at = "supply" /\ quiet => watch.vault = vault
    /\ watch.at = "alert" /\ quiet => ~Healthy
    /\ QuietVerdict

\* What the smoke test compares at its end is what it will find.
Comparing ==
    /\ smoke.at # "off" => smoke.verdict = "none"
    /\ smoke.at = "after" => smoke.landed
    /\ cluster = "mainnet" /\ smoke.calm =>
          /\ smoke.at = "send" => yxrp[Signer] = smoke.before
          /\ smoke.at = "after" => yxrp[Signer] = smoke.before + 1
    /\ SmokeVerdict

\* The switch is where the drill has put it.
Switched ==
    ~meddled => (paused <=> drill \in {"deposit", "unpause"})

OpsInv == OpsTypeOK /\ FundsOK /\ Funded /\ Reading /\ Comparing /\ Switched

\* What users, and the scripts that deposit, do to the accounts.
Moves ==
    \/ \E u \in Users : Deposit(u) \/ Withdraw(u) \/ BurnReceipt(u)
    \/ \E u, v \in Users : SendReceipt(u, v)
    \/ Donate

\* What the watcher can add up is a number.
LEMMA MostFacts ==
    /\ MaxVault \in Nat /\ Cardinality(Users) \in Nat \ {0} /\ Most \in Nat
    /\ MaxVault <= Most
<1>1. MaxVault \in Nat /\ Cardinality(Users) \in Nat /\ Cardinality(Users) # 0
  BY OpsAssumption, FS_CardinalityType, FS_EmptySet
<1>2. \A m \in Nat, c \in Nat \ {0} : m * c \in Nat /\ m <= m * c
  <2>1. ASSUME NEW m \in Nat, NEW c \in Nat \ {0} PROVE m * c \in Nat /\ m <= m * c
    <3>1. c - 1 \in Nat /\ m * c = m * (c - 1) + m
      OBVIOUS
    <3>2. m * (c - 1) \in Nat
      BY <3>1
    <3> QED BY <3>1, <3>2
  <2> QED BY <2>1
<1> QED BY <1>1, <1>2 DEF Most

\* Every number of the accounts adds up.
LEMMA FundsSums ==
    ASSUME FundsOK, NEW S \in SUBSET Users
    PROVE  /\ IsFiniteSet(S)
           /\ SumFunctionOnSet(principal, S) \in Nat
           /\ SumFunctionOnSet(yxrp, S) \in Nat
<1>1. IsFiniteSet(S)
  BY OpsAssumption, FS_Subset
<1>2. \A u \in S : principal[u] \in Nat /\ yxrp[u] \in Nat
  BY MostFacts DEF FundsOK
<1> QED BY <1>1, <1>2, SumType

\* A number of an account is at most the sum.
LEMMA AtMostSum ==
    ASSUME NEW f, NEW u \in Users, \A v \in Users : f[v] \in Nat
    PROVE  f[u] <= SumFunctionOnSet(f, Users)
<1>1. IsFiniteSet(Users) /\ IsFiniteSet(Users \ {u})
  BY OpsAssumption, FS_Subset
<1>2. SumFunctionOnSet(f, Users) = f[u] + SumFunctionOnSet(f, Users \ {u})
  BY <1>1, SumWithout
<1>3. SumFunctionOnSet(f, Users \ {u}) \in Nat
  BY <1>1, SumType
<1> QED BY <1>2, <1>3

\* A number that one user has more or less changes the sum by as much.
LEMMA OneMore ==
    ASSUME NEW f, NEW g, NEW u \in Users,
           \A x \in Users : f[x] \in Nat /\ g[x] \in Nat, \A x \in Users \ {u} : f[x] = g[x]
    PROVE  /\ SumFunctionOnSet(g, Users) + f[u] = SumFunctionOnSet(f, Users) + g[u]
           /\ SumFunctionOnSet(f, Users) \in Nat /\ SumFunctionOnSet(g, Users) \in Nat
<1>1. IsFiniteSet(Users)
  BY OpsAssumption
<1>2. (\A x \in Users : f[x] \in Nat) /\ (\A x \in Users : g[x] \in Nat)
  OBVIOUS
<1>3. SumFunctionOnSet(g, Users) + f[u] = SumFunctionOnSet(f, Users) + g[u]
  BY <1>1, SumChanged
<1>4. SumFunctionOnSet(f, Users) \in Nat /\ SumFunctionOnSet(g, Users) \in Nat
  BY <1>1, <1>2, SumType
<1> QED BY <1>3, <1>4

\* Whoever moves something, the accounts stay in order.
LEMMA MovesFunds ==
    ASSUME FundsOK, Funded, Moves
    PROVE  FundsOK' /\ Funded'
<1>0. /\ principal \in [Users -> Nat] /\ yxrp \in [Users -> Nat] /\ MaxVault \in Nat
      /\ vault \in Nat
  BY MostFacts DEF FundsOK
<1>1. ASSUME NEW u \in Users, Deposit(u) PROVE FundsOK' /\ Funded'
  <2>1. /\ vault' = vault + 1 /\ vault + 1 <= MaxVault /\ opened' = opened \cup {u}
        /\ principal' = [principal EXCEPT ![u] = principal[u] + 1]
        /\ yxrp' = [yxrp EXCEPT ![u] = yxrp[u] + 1]
    BY <1>0, <1>1 DEF Deposit, FundsOK
  <2>2. /\ SumFunctionOnSet(principal', Users) = SumFunctionOnSet(principal, Users) + 1
        /\ principal' \in [Users -> Nat]
    <3>1. /\ principal' \in [Users -> Nat] /\ principal'[u] = principal[u] + 1
          /\ \A x \in Users \ {u} : principal[x] = principal'[x]
      BY <1>0, <2>1
    <3>2. /\ SumFunctionOnSet(principal', Users) + principal[u]
             = SumFunctionOnSet(principal, Users) + principal'[u]
          /\ SumFunctionOnSet(principal, Users) \in Nat /\ SumFunctionOnSet(principal', Users) \in Nat
      BY <1>0, <3>1, OneMore
    <3> QED BY <1>0, <3>1, <3>2
  <2>3. /\ SumFunctionOnSet(yxrp', Users) = SumFunctionOnSet(yxrp, Users) + 1
        /\ yxrp' \in [Users -> Nat]
    <3>1. /\ yxrp' \in [Users -> Nat] /\ yxrp'[u] = yxrp[u] + 1
          /\ \A x \in Users \ {u} : yxrp[x] = yxrp'[x]
      BY <1>0, <2>1
    <3>2. /\ SumFunctionOnSet(yxrp', Users) + yxrp[u] = SumFunctionOnSet(yxrp, Users) + yxrp'[u]
          /\ SumFunctionOnSet(yxrp, Users) \in Nat /\ SumFunctionOnSet(yxrp', Users) \in Nat
      BY <1>0, <3>1, OneMore
    <3> QED BY <1>0, <3>1, <3>2
  <2>4. /\ SumFunctionOnSet(principal, Users) \in Nat /\ SumFunctionOnSet(yxrp, Users) \in Nat
    BY FundsSums
  <2>5. SumFunctionOnSet(principal', Users) <= vault' /\ SumFunctionOnSet(yxrp', Users) <= vault'
    BY <1>0, <2>1, <2>2, <2>3, <2>4 DEF Funded
  <2>6. \A v \in Users : principal'[v] <= vault' /\ yxrp'[v] <= vault'
    <3>1. ASSUME NEW v \in Users PROVE principal'[v] <= vault' /\ yxrp'[v] <= vault'
      <4>1. principal'[v] <= SumFunctionOnSet(principal', Users) /\ yxrp'[v] <= SumFunctionOnSet(yxrp', Users)
        BY <2>2, <2>3, AtMostSum
      <4>2. /\ principal'[v] \in Nat /\ yxrp'[v] \in Nat /\ vault' \in Nat
            /\ SumFunctionOnSet(principal', Users) \in Nat /\ SumFunctionOnSet(yxrp', Users) \in Nat
        BY <1>0, <2>1, <2>2, <2>3, <2>4
      <4> QED BY <2>5, <4>1, <4>2
    <3> QED BY <3>1
  <2>7. FundsOK'
    BY <1>0, <2>1, <2>2, <2>3, <2>6 DEF FundsOK
  <2>8. \A v \in Users \ opened' : principal'[v] = 0
    BY <1>0, <2>1 DEF Funded
  <2> QED BY <2>5, <2>7, <2>8 DEF Funded
<1>2. ASSUME NEW u \in Users, Withdraw(u) PROVE FundsOK' /\ Funded'
  <2>1. /\ vault' = vault - 1 /\ opened' = opened /\ principal[u] > 0 /\ yxrp[u] > 0
        /\ principal' = [principal EXCEPT ![u] = principal[u] - 1]
        /\ yxrp' = [yxrp EXCEPT ![u] = yxrp[u] - 1]
    BY <1>2 DEF Withdraw
  <2>2. principal[u] \in Nat /\ yxrp[u] \in Nat /\ principal[u] - 1 \in Nat /\ yxrp[u] - 1 \in Nat
    BY <1>0, <2>1
  <2>3. /\ SumFunctionOnSet(principal', Users) = SumFunctionOnSet(principal, Users) - 1
        /\ SumFunctionOnSet(principal', Users) \in Nat
    <3>1. /\ principal' \in [Users -> Nat] /\ principal'[u] = principal[u] - 1
          /\ \A x \in Users \ {u} : principal[x] = principal'[x]
      BY <1>0, <2>1, <2>2
    <3>2. /\ SumFunctionOnSet(principal', Users) + principal[u]
             = SumFunctionOnSet(principal, Users) + principal'[u]
          /\ SumFunctionOnSet(principal, Users) \in Nat /\ SumFunctionOnSet(principal', Users) \in Nat
      BY <1>0, <3>1, OneMore
    <3> QED BY <2>2, <3>1, <3>2
  <2>4. /\ SumFunctionOnSet(yxrp', Users) = SumFunctionOnSet(yxrp, Users) - 1
        /\ SumFunctionOnSet(yxrp', Users) \in Nat
    <3>1. /\ yxrp' \in [Users -> Nat] /\ yxrp'[u] = yxrp[u] - 1
          /\ \A x \in Users \ {u} : yxrp[x] = yxrp'[x]
      BY <1>0, <2>1, <2>2
    <3>2. /\ SumFunctionOnSet(yxrp', Users) + yxrp[u] = SumFunctionOnSet(yxrp, Users) + yxrp'[u]
          /\ SumFunctionOnSet(yxrp, Users) \in Nat /\ SumFunctionOnSet(yxrp', Users) \in Nat
      BY <1>0, <3>1, OneMore
    <3> QED BY <2>2, <3>1, <3>2
  <2>5. SumFunctionOnSet(principal, Users) \in Nat /\ SumFunctionOnSet(yxrp, Users) \in Nat
    BY FundsSums
  <2>6. vault' \in 0..MaxVault /\ SumFunctionOnSet(principal', Users) <= vault' /\ SumFunctionOnSet(yxrp', Users) <= vault'
    BY <1>0, <2>1, <2>3, <2>4, <2>5 DEF Funded, FundsOK
  <2>7. \A v \in Users : principal'[v] \in 0..MaxVault /\ yxrp'[v] \in 0..MaxVault
    BY <1>0, <2>1, <2>2 DEF FundsOK
  <2>8. FundsOK'
    BY <1>0, <2>1, <2>6, <2>7 DEF FundsOK
  <2>9. \A v \in Users \ opened' : principal'[v] = 0
    BY <1>0, <2>1 DEF Funded
  <2> QED BY <2>6, <2>8, <2>9 DEF Funded
<1>3. ASSUME NEW u \in Users, BurnReceipt(u) PROVE FundsOK' /\ Funded'
  <2>1. /\ UNCHANGED <<vault, opened, principal>> /\ yxrp[u] > 0
        /\ yxrp' = [yxrp EXCEPT ![u] = yxrp[u] - 1]
    BY <1>3 DEF BurnReceipt
  <2>2. yxrp[u] \in Nat /\ yxrp[u] - 1 \in Nat
    BY <1>0, <2>1
  <2>3. SumFunctionOnSet(yxrp', Users) <= vault'
    <3>1. /\ yxrp' \in [Users -> Nat] /\ yxrp'[u] = yxrp[u] - 1
          /\ \A x \in Users \ {u} : yxrp[x] = yxrp'[x]
      BY <1>0, <2>1, <2>2
    <3>2. /\ SumFunctionOnSet(yxrp', Users) + yxrp[u] = SumFunctionOnSet(yxrp, Users) + yxrp'[u]
          /\ SumFunctionOnSet(yxrp, Users) \in Nat /\ SumFunctionOnSet(yxrp', Users) \in Nat
      BY <1>0, <3>1, OneMore
    <3> QED BY <1>0, <2>1, <2>2, <3>1, <3>2 DEF Funded
  <2>4. FundsOK'
    BY <1>0, <2>1, <2>2 DEF FundsOK
  <2> QED BY <2>1, <2>3, <2>4 DEF Funded
<1>4. ASSUME NEW u \in Users, NEW v \in Users, SendReceipt(u, v) PROVE FundsOK' /\ Funded'
  <2> DEFINE less == [yxrp EXCEPT ![u] = yxrp[u] - 1]
  <2>1. /\ UNCHANGED <<vault, opened, principal>> /\ yxrp[u] > 0 /\ u # v
        /\ yxrp' = [less EXCEPT ![v] = yxrp[v] + 1]
    BY <1>0, <1>4 DEF SendReceipt
  <2>2. yxrp[u] \in Nat /\ yxrp[u] - 1 \in Nat /\ yxrp[v] \in Nat /\ yxrp[v] + 1 \in Nat
    BY <1>0, <2>1
  <2>3. /\ less \in [Users -> Nat] /\ less[u] = yxrp[u] - 1 /\ less[v] = yxrp[v]
        /\ \A x \in Users \ {u} : yxrp[x] = less[x]
    BY <1>0, <2>1, <2>2
  <2> HIDE DEF less
  <2>4. /\ yxrp' \in [Users -> Nat] /\ yxrp'[v] = yxrp[v] + 1
        /\ \A x \in Users \ {v} : less[x] = yxrp'[x]
    BY <2>1, <2>2, <2>3
  <2>8. /\ SumFunctionOnSet(less, Users) + yxrp[u] = SumFunctionOnSet(yxrp, Users) + less[u]
        /\ SumFunctionOnSet(less, Users) \in Nat /\ SumFunctionOnSet(yxrp, Users) \in Nat
    BY <1>0, <2>3, OneMore
  <2>9. /\ SumFunctionOnSet(yxrp', Users) + less[v] = SumFunctionOnSet(less, Users) + yxrp'[v]
        /\ SumFunctionOnSet(yxrp', Users) \in Nat
    BY <2>3, <2>4, OneMore
  <2>5. SumFunctionOnSet(yxrp', Users) <= vault' /\ SumFunctionOnSet(yxrp', Users) \in Nat
    BY <1>0, <2>1, <2>2, <2>3, <2>4, <2>8, <2>9 DEF Funded
  <2>6. \A w \in Users : yxrp'[w] <= vault'
    <3>1. ASSUME NEW w \in Users PROVE yxrp'[w] <= vault'
      <4>1. yxrp'[w] <= SumFunctionOnSet(yxrp', Users)
        BY <2>4, AtMostSum
      <4> QED BY <1>0, <2>1, <2>4, <2>5, <4>1
    <3> QED BY <3>1
  <2>7. FundsOK'
    BY <1>0, <2>1, <2>4, <2>6 DEF FundsOK
  <2> QED BY <2>1, <2>5, <2>7 DEF Funded
<1>5. ASSUME Donate PROVE FundsOK' /\ Funded'
  <2>1. /\ vault' = vault + 1 /\ vault < MaxVault /\ UNCHANGED <<opened, principal, yxrp>>
    BY <1>5 DEF Donate
  <2>2. SumFunctionOnSet(principal, Users) \in Nat /\ SumFunctionOnSet(yxrp, Users) \in Nat
    BY FundsSums
  <2>3. FundsOK'
    BY <1>0, <2>1 DEF FundsOK
  <2> QED BY <1>0, <2>1, <2>2, <2>3 DEF Funded
<1> QED BY <1>1, <1>2, <1>3, <1>4, <1>5 DEF Moves

\* What else a step does: the accounts move and quiet falls, or they stay.
LEMMA AccountsStep ==
    ASSUME [OpsNext]_opsVars
    PROVE  /\ cluster' = cluster
           /\ UNCHANGED funds \/ (Moves /\ quiet' = FALSE)
<1> USE DEF funds, accounts, settings
<1>1. CASE UserMove
  BY <1>1 DEF UserMove, Move, Disturb, Moves
<1>2. CASE AdminMove
  BY <1>2 DEF AdminMove, Move
<1>3. CASE Watch \/ WatchFails
  BY <1>3 DEF Watch, WatchFails, WatchConfig, WatchList, WatchPosition, WatchVault, WatchSupply,
              WatchAlert, WatchEnds, WatchTo, Failure, NoFailure
<1>4. CASE Smoke
  <2>1. CASE SmokeStart \/ SmokeSign \/ SmokeBefore \/ SmokeAfter \/ DevnetPrepare \/ DevnetReport
    BY <2>1 DEF SmokeStart, SmokeSign, SmokeBefore, SmokeAfter, DevnetPrepare, DevnetReport,
                Failure, NoFailure
  <2>2. CASE RpcDeposit \/ SmokeFails
    BY <2>2, OpsAssumption DEF RpcDeposit, SmokeFails, Moves, Failure, NoFailure
  <2> QED BY <1>4, <2>1, <2>2 DEF Smoke, SmokeSend, DevnetSend
<1>5. CASE Drill
  BY <1>5 DEF Drill, DrillStart, DrillSwitch, DrillDeposit, DrillUnattested, DrillVerify, DrillFails,
              DrillTo, Failure, NoFailure
<1>6. CASE UNCHANGED opsVars
  BY <1>6 DEF opsVars
<1> QED BY <1>1, <1>2, <1>3, <1>4, <1>5, <1>6 DEF OpsNext

\* A sum that is kept in a record is a sum of accounts at most.
LEMMA SumsOfAccounts ==
    ASSUME FundsOK
    PROVE  /\ SumFunction(principal) = SumFunctionOnSet(principal, Users)
           /\ SumFunction(yxrp) = SumFunctionOnSet(yxrp, Users)
BY DEF FundsOK, SumFunction

\* What a step other than the watcher's leaves of the watcher.
LEMMA WatcherAside ==
    ASSUME [OpsNext]_opsVars
    PROVE  \/ Watch \/ WatchFails
           \/ watch' = watch /\ (quiet' = FALSE \/ (quiet' = quiet /\ UNCHANGED accounts))
<1> USE DEF funds, accounts, settings
<1>1. CASE UserMove \/ AdminMove
  BY <1>1 DEF UserMove, AdminMove, Move, Disturb
<1>2. CASE Smoke
  <2>1. CASE SmokeStart \/ SmokeSign \/ SmokeBefore \/ SmokeAfter \/ DevnetPrepare \/ DevnetReport
    BY <2>1 DEF SmokeStart, SmokeSign, SmokeBefore, SmokeAfter, DevnetPrepare, DevnetReport
  <2>2. CASE RpcDeposit \/ SmokeFails
    BY <2>2 DEF RpcDeposit, SmokeFails
  <2> QED BY <1>2, <2>1, <2>2 DEF Smoke, SmokeSend, DevnetSend
<1>3. CASE Drill
  BY <1>3 DEF Drill, DrillStart, DrillSwitch, DrillDeposit, DrillUnattested, DrillVerify, DrillFails,
              DrillTo
<1>4. CASE UNCHANGED opsVars
  BY <1>4 DEF opsVars
<1> QED BY <1>1, <1>2, <1>3, <1>4 DEF OpsNext

\* The watcher's own steps.
LEMMA WatcherReads ==
    ASSUME FundsOK, Funded, watch \in Watches, Reading, quiet \in BOOLEAN, Watch \/ WatchFails
    PROVE  Reading' /\ watch' \in Watches /\ quiet' \in BOOLEAN
<1> USE DEF funds, accounts, settings
<1>0. /\ MaxVault \in Nat /\ Cardinality(Users) \in Nat /\ Most \in Nat /\ MaxVault <= Most
      /\ Most = MaxVault * Cardinality(Users)
      /\ SumFunction(principal) = SumFunctionOnSet(principal, Users)
      /\ SumFunction(yxrp) = SumFunctionOnSet(yxrp, Users)
      /\ SumFunctionOnSet(principal, Users) \in Nat
      /\ watch.left \in SUBSET Users /\ watch.sum \in 0..Most /\ watch.vault \in 0..Most
      /\ vault \in 0..Most /\ Cardinality({}) = 0
  BY MostFacts, SumsOfAccounts, FundsSums, FS_EmptySet DEF Most, Watches, FundsOK
<1>1. CASE WatchConfig
  <2>1. /\ watch' = [at |-> "list", left |-> {}, bad |-> Suspect, sum |-> 0, vault |-> 0,
                     told |-> FALSE, verdict |-> "none"]
        /\ quiet' = TRUE /\ UNCHANGED accounts
    BY <1>1 DEF WatchConfig, WatchTo
  <2>2. Suspect' = Suspect /\ Suspect \in BOOLEAN
    BY <2>1 DEF Suspect
  <2>3. watch' \in Watches
    BY <1>0, <2>1, <2>2 DEF Watches
  <2>4. 0 + MaxVault * 0 <= Most
    BY <1>0
  <2> QED BY <1>0, <2>1, <2>2, <2>3, <2>4 DEF Reading, QuietVerdict
<1>2. CASE WatchList
  <2>1. /\ watch' = [watch EXCEPT !.at = "position", !.left = opened]
        /\ watch.at = "list" /\ quiet' = quiet /\ UNCHANGED accounts
    BY <1>2 DEF WatchList, WatchTo
  <2>2. watch' \in Watches
    BY <2>1 DEF Watches, FundsOK
  <2>3. watch'.sum = 0 /\ watch'.left = opened /\ watch'.at = "position" /\ watch'.bad = watch.bad
    BY <2>1 DEF Reading, Watches
  <2>4. 0 + MaxVault * Cardinality(opened) <= Most
    <3>1. Cardinality(opened) \in Nat /\ Cardinality(opened) <= Cardinality(Users)
      BY OpsAssumption, FS_Subset, FS_CardinalityType DEF FundsOK
    <3>2. \A m, c, d \in Nat : c <= d => 0 + m * c <= m * d
      OBVIOUS
    <3> QED BY <1>0, <3>1, <3>2
  <2>5. 0 + SumFunctionOnSet(principal, opened) = SumFunctionOnSet(principal, Users)
    <3>1. /\ IsFiniteSet(Users) /\ opened \in SUBSET Users
          /\ \A u \in Users : principal[u] \in Nat
          /\ \A u \in Users \ opened : principal[u] = 0
      BY OpsAssumption, <1>0 DEF FundsOK, Funded
    <3>2. SumFunctionOnSet(principal, Users) = SumFunctionOnSet(principal, opened)
      BY <3>1, SumOfNonzero
    <3> QED BY <1>0, <3>2
  <2>6. quiet => watch.bad = Suspect
    BY <2>1 DEF Reading
  <2> QED BY <2>1, <2>2, <2>3, <2>4, <2>5, <2>6 DEF Reading, QuietVerdict, Suspect
<1>3. CASE WatchPosition
  <2>1. CASE watch.left = {} /\ WatchTo([watch EXCEPT !.at = "vault"])
    <3>1. /\ watch' = [watch EXCEPT !.at = "vault"] /\ watch.at = "position"
          /\ quiet' = quiet /\ UNCHANGED accounts /\ watch.left = {}
      BY <1>3, <2>1 DEF WatchPosition, WatchTo
    <3>2. watch' \in Watches
      BY <3>1 DEF Watches
    <3>3. quiet => watch.sum = SumFunctionOnSet(principal, Users)
      BY <1>0, <3>1, SumOfNone DEF Reading
    <3> QED BY <3>1, <3>2, <3>3 DEF Reading, QuietVerdict, Suspect, Watches
  <2>2. ASSUME NEW u \in watch.left,
               WatchTo([watch EXCEPT !.left = @ \ {u}, !.sum = @ + principal[u]])
        PROVE  Reading' /\ watch' \in Watches /\ quiet' \in BOOLEAN
    <3> DEFINE rest == watch.left \ {u}
    <3>1. /\ watch' = [watch EXCEPT !.left = rest, !.sum = watch.sum + principal[u]]
          /\ watch.at = "position" /\ quiet' = quiet /\ UNCHANGED accounts
      BY <1>3, <2>2 DEF WatchPosition, WatchTo, Watches
    <3>2. /\ principal[u] \in Nat /\ principal[u] <= MaxVault /\ IsFiniteSet(watch.left)
          /\ \A v \in watch.left : principal[v] \in Nat
      BY <1>0, OpsAssumption, FS_Subset DEF FundsOK
    <3>3. /\ Cardinality(rest) = Cardinality(watch.left) - 1 /\ Cardinality(rest) \in Nat
          /\ Cardinality(watch.left) \in Nat
      BY <3>2, FS_RemoveElement, FS_CardinalityType
    <3>4. watch.sum + principal[u] + MaxVault * Cardinality(rest) <= Most
      <4>1. \A m, c, d, s, p \in Nat : c = d - 1 /\ p <= m => s + p + m * c <= s + m * d
        <5>1. ASSUME NEW m \in Nat, NEW c \in Nat, NEW d \in Nat, NEW s \in Nat, NEW p \in Nat,
                     c = d - 1, p <= m
              PROVE  s + p + m * c <= s + m * d
          <6>1. d = c + 1 /\ m * (c + 1) = m * c + m
            BY <5>1
          <6>2. m * c \in Nat
            OBVIOUS
          <6> QED BY <5>1, <6>1, <6>2
        <5> QED BY <5>1
      <4>2. watch.sum + principal[u] + MaxVault * Cardinality(rest)
            <= watch.sum + MaxVault * Cardinality(watch.left)
        BY <1>0, <3>2, <3>3, <4>1
      <4>3. watch.sum + MaxVault * Cardinality(watch.left) <= Most
        BY DEF Reading
      <4>4. \A m, c \in Nat : m * c \in Nat
        OBVIOUS
      <4>5. MaxVault * Cardinality(rest) \in Nat /\ MaxVault * Cardinality(watch.left) \in Nat
        BY <1>0, <3>3, <4>4
      <4> QED BY <1>0, <3>2, <4>2, <4>3, <4>5
    <3>5. watch.sum + principal[u] \in 0..Most
      <4>1. \A m, c \in Nat : m * c \in Nat
        OBVIOUS
      <4>2. MaxVault * Cardinality(rest) \in Nat
        BY <1>0, <3>3, <4>1
      <4> QED BY <1>0, <3>2, <3>4, <4>2
    <3>6. watch' \in Watches
      BY <1>0, <3>1, <3>5 DEF Watches
    <3>7. quiet => watch.sum + principal[u] + SumFunctionOnSet(principal, rest)
                   = SumFunctionOnSet(principal, Users)
      <4>1. SumFunctionOnSet(principal, watch.left) = principal[u] + SumFunctionOnSet(principal, rest)
        BY <3>2, SumWithout
      <4>2. SumFunctionOnSet(principal, rest) \in Nat
        BY <1>0, FundsSums
      <4>3. quiet => watch.sum + SumFunctionOnSet(principal, watch.left) = SumFunctionOnSet(principal, Users)
        BY <3>1 DEF Reading
      <4> QED BY <1>0, <3>2, <4>1, <4>2, <4>3
    <3>8. /\ watch'.at = "position" /\ watch'.left = rest /\ watch'.sum = watch.sum + principal[u]
          /\ watch'.bad = watch.bad
      BY <3>1 DEF Watches
    <3> HIDE DEF rest
    <3> QED BY <3>1, <3>4, <3>6, <3>7, <3>8 DEF Reading, QuietVerdict, Suspect
  <2> QED BY <1>3, <2>1, <2>2 DEF WatchPosition
<1>4. CASE WatchVault
  <2>1. PICK v \in {vault, 0} : /\ watch' = [watch EXCEPT !.at = "supply", !.vault = v]
                                /\ (v = vault /\ quiet' = quiet) \/ quiet' = FALSE
    BY <1>4 DEF WatchVault, WatchTo
  <2>2. watch.at = "vault" /\ UNCHANGED accounts
    BY <1>4 DEF WatchVault, WatchTo
  <2>3. v \in 0..Most
    BY <1>0
  <2>4. watch' \in Watches
    BY <2>1, <2>3 DEF Watches
  <2>5. /\ watch'.at = "supply" /\ watch'.vault = v /\ watch'.sum = watch.sum
        /\ watch'.left = watch.left /\ watch'.bad = watch.bad
    BY <2>1 DEF Watches
  <2>6. quiet' => quiet /\ v = vault
    BY <2>1
  <2>7. Suspect' = Suspect
    BY <2>2 DEF Suspect
  <2>8. /\ watch.sum + MaxVault * Cardinality(watch.left) <= Most
        /\ quiet => watch.bad = Suspect /\ watch.sum = SumFunctionOnSet(principal, Users)
    BY <2>2 DEF Reading
  <2>9. quiet' \in BOOLEAN
    BY <2>1
  <2> QED BY <2>2, <2>4, <2>5, <2>6, <2>7, <2>8, <2>9 DEF Reading, QuietVerdict
<1>5. CASE WatchSupply
  <2> DEFINE good == ~watch.bad /\ Matches(watch.sum, watch.vault, SumFunction(yxrp))
  <2>1. /\ watch.at = "supply" /\ UNCHANGED accounts /\ quiet' = quiet
        /\ watch' = IF good THEN [watch EXCEPT !.at = "off", !.verdict = "healthy"]
                    ELSE [watch EXCEPT !.at = "alert"]
    BY <1>5 DEF WatchSupply, WatchEnds, WatchTo
  <2>2. quiet => good = Healthy
    <3>1. quiet => /\ watch.bad = Suspect /\ watch.sum = SumFunction(principal)
                   /\ watch.vault = vault
      BY <1>0, <2>1 DEF Reading
    <3> QED BY <3>1 DEF Healthy, Suspect
  <2>3. Healthy' = Healthy
    BY <2>1 DEF Healthy, SumFunction
  <2>4. watch' \in Watches
    BY <2>1 DEF Watches
  <2> HIDE DEF good
  <2>5. CASE good
    <3>1. /\ watch'.at = "off" /\ watch'.verdict = "healthy" /\ watch'.sum = watch.sum
          /\ watch'.left = watch.left
      BY <2>1, <2>5 DEF Watches
    <3> QED BY <2>1, <2>2, <2>3, <2>4, <2>5, <3>1 DEF Reading, QuietVerdict
  <2>6. CASE ~good
    <3>1. /\ watch'.at = "alert" /\ watch'.sum = watch.sum /\ watch'.left = watch.left
      BY <2>1, <2>6 DEF Watches
    <3> QED BY <2>1, <2>2, <2>3, <2>4, <2>6, <3>1 DEF Reading, QuietVerdict
  <2> QED BY <2>5, <2>6
<1>6. CASE WatchAlert
  <2>1. /\ watch.at = "alert" /\ UNCHANGED accounts /\ quiet' = quiet
        /\ \E b \in BOOLEAN :
              watch' = [watch EXCEPT !.at = "off", !.verdict = "failing", !.told = b]
    <3>1. watch = [watch EXCEPT !.told = watch.told] /\ watch.told \in BOOLEAN
      BY DEF Watches
    <3>2. [watch EXCEPT !.at = "off", !.verdict = "failing"]
          = [watch EXCEPT !.at = "off", !.verdict = "failing", !.told = watch.told]
      BY DEF Watches
    <3> QED BY <1>6, <3>1, <3>2 DEF WatchAlert, WatchTo
  <2>2. watch' \in Watches
    BY <2>1 DEF Watches
  <2>3. /\ watch'.at = "off" /\ watch'.verdict = "failing" /\ watch'.sum = watch.sum
        /\ watch'.left = watch.left
    BY <2>1 DEF Watches
  <2>4. Healthy' = Healthy
    BY <2>1 DEF Healthy, SumFunction
  <2>5. quiet => ~Healthy
    BY <2>1 DEF Reading
  <2> QED BY <2>1, <2>2, <2>3, <2>4, <2>5 DEF Reading, QuietVerdict
<1>7. CASE WatchFails
  <2>1. watch' = [watch EXCEPT !.at = "off", !.verdict = "error"] /\ quiet' = quiet
    BY <1>7 DEF WatchFails, WatchTo
  <2>2. watch' \in Watches
    BY <2>1 DEF Watches
  <2> QED BY <2>1, <2>2 DEF Reading, QuietVerdict, Watches
<1> QED BY <1>1, <1>2, <1>3, <1>4, <1>5, <1>6, <1>7 DEF Watch

\* The watcher's step or somebody else's.
LEMMA ReadingStep ==
    ASSUME OpsTypeOK, FundsOK, Funded, Reading, [OpsNext]_opsVars
    PROVE  Reading' /\ watch' \in Watches /\ quiet' \in BOOLEAN
<1> USE DEF OpsTypeOK
<1>1. CASE Watch \/ WatchFails
  BY <1>1, WatcherReads
<1>2. CASE watch' = watch /\ quiet' = FALSE
  BY <1>2 DEF Reading, QuietVerdict
<1>3. CASE watch' = watch /\ quiet' = quiet /\ UNCHANGED accounts
  <2>1. Healthy' = Healthy /\ Suspect' = Suspect
    BY <1>3 DEF accounts, settings, funds, Healthy, Suspect, SumFunction
  <2> QED BY <1>3, <2>1 DEF Reading, QuietVerdict, accounts, settings, funds
<1> QED BY <1>1, <1>2, <1>3, WatcherAside

\* The smoke test's own steps.
LEMMA SmokeSteps ==
    ASSUME OpsTypeOK, FundsOK, Funded, Comparing, Smoke
    PROVE  Comparing' /\ smoke' \in Smokes
<1> USE DEF funds, accounts, settings, Comparing, SmokeVerdict, SmokeTo, SmokeEnds, SmokeBegins,
            NoFailure, Failure, OpsTypeOK
<1>0. /\ 0 \in 0..Most /\ yxrp[Signer] \in 0..Most
      /\ smoke \in Smokes /\ yxrp \in [Users -> 0..Most] /\ Signer \in Users
      /\ cluster \in {"mainnet", "devnet"} /\ Most \in Nat
  BY MostFacts, OpsAssumption DEF FundsOK
<1>1. CASE SmokeStart
  <2>1. CASE smoke' = [smoke EXCEPT !.at = "off", !.verdict = "error"]
    BY <1>0, <2>1 DEF Smokes
  <2>2. CASE smoke' = SmokeBegins
    BY <1>0, <2>2 DEF Smokes
  <2> QED BY <1>1, <2>1, <2>2 DEF SmokeStart
<1>2. CASE SmokeSign
  BY <1>0, <1>2 DEF SmokeSign, Smokes
<1>3. CASE SmokeBefore
  BY <1>0, <1>3 DEF SmokeBefore, Smokes
<1>4. CASE RpcDeposit
  <2>1. CASE Accepted
    <3>1. /\ smoke.at = "send" /\ yxrp' = [yxrp EXCEPT ![Signer] = yxrp[Signer] + 1]
          /\ cluster' = cluster /\ smoke' = [smoke EXCEPT !.at = "after", !.landed = TRUE]
      BY <1>4, <2>1 DEF RpcDeposit, Deposit
    <3>2. yxrp'[Signer] = yxrp[Signer] + 1
      BY <1>0, <3>1
    <3>3. /\ smoke' \in Smokes /\ smoke'.at = "after" /\ smoke'.landed
          /\ smoke'.calm = smoke.calm /\ smoke'.before = smoke.before
          /\ smoke'.verdict = smoke.verdict
      BY <1>0, <3>1 DEF Smokes
    <3> QED BY <3>1, <3>2, <3>3
  <2>2. CASE ~Accepted
    BY <1>0, <1>4, <2>2 DEF RpcDeposit, Smokes
  <2> QED BY <2>1, <2>2
<1>5. CASE SmokeAfter
  <2>1. /\ cluster = "mainnet" /\ smoke.at = "after" /\ UNCHANGED <<accounts, cluster>>
        /\ smoke' = [smoke EXCEPT !.at = "off",
              !.verdict = IF yxrp[Signer] = smoke.before + 1 THEN "passed" ELSE "broken"]
    BY <1>5 DEF SmokeAfter
  <2> QED BY <1>0, <2>1 DEF Smokes
<1>6. CASE DevnetPrepare
  <2>1. CASE smoke' = SmokeBegins
    BY <1>0, <2>1 DEF Smokes
  <2>2. CASE smoke' = [smoke EXCEPT !.at = "send"] /\ smoke.at = "sign"
    BY <1>0, <1>6, <2>2 DEF DevnetPrepare, Smokes
  <2> QED BY <1>6, <2>1, <2>2 DEF DevnetPrepare
<1>7. CASE DevnetReport
  BY <1>0, <1>7 DEF DevnetReport, Smokes
<1>8. CASE SmokeFails
  <2>1. /\ smoke' = [smoke EXCEPT !.at = "off", !.verdict = "error"]
    BY <1>8 DEF SmokeFails
  <2> QED BY <1>0, <2>1 DEF Smokes
<1> QED BY <1>1, <1>2, <1>3, <1>4, <1>5, <1>6, <1>7, <1>8 DEF Smoke, SmokeSend, DevnetSend

\* What a step other than the smoke test's leaves of it.
LEMMA SmokeAside ==
    ASSUME [OpsNext]_opsVars
    PROVE  \/ Smoke
           \/ Disturb /\ cluster' = cluster
           \/ UNCHANGED <<smoke, yxrp, cluster>>
<1> USE DEF funds, accounts, settings, NoFailure, Failure
<1>1. CASE UserMove \/ AdminMove
  BY <1>1 DEF UserMove, AdminMove, Move
<1>2. CASE Watch \/ WatchFails
  BY <1>2 DEF Watch, WatchFails, WatchConfig, WatchList, WatchPosition, WatchVault, WatchSupply,
              WatchAlert, WatchEnds, WatchTo
<1>3. CASE Drill
  BY <1>3 DEF Drill, DrillStart, DrillSwitch, DrillDeposit, DrillUnattested, DrillVerify, DrillFails,
              DrillTo
<1>4. CASE UNCHANGED opsVars
  BY <1>4 DEF opsVars
<1> QED BY <1>1, <1>2, <1>3, <1>4 DEF OpsNext

\* No step of anybody makes a comparison of the smoke test wrong.
LEMMA ComparingStep ==
    ASSUME OpsTypeOK, FundsOK, Funded, Comparing, [OpsNext]_opsVars
    PROVE  Comparing' /\ smoke' \in Smokes
<1>1. CASE Smoke
  BY <1>1, SmokeSteps
<1>2. CASE Disturb /\ cluster' = cluster
  <2>1. /\ smoke' = [smoke EXCEPT !.calm = smoke.calm /\ yxrp'[Signer] = yxrp[Signer]]
        /\ cluster' = cluster /\ smoke \in Smokes
    BY <1>2 DEF Disturb, OpsTypeOK, Smokes
  <2>2. CASE yxrp'[Signer] = yxrp[Signer]
    BY <2>1, <2>2 DEF Comparing, SmokeVerdict, Smokes
  <2>3. CASE yxrp'[Signer] # yxrp[Signer]
    BY <2>1, <2>3 DEF Comparing, SmokeVerdict, Smokes
  <2> QED BY <2>2, <2>3
<1>3. CASE UNCHANGED <<smoke, yxrp, cluster>>
  BY <1>3 DEF Comparing, SmokeVerdict, OpsTypeOK
<1> QED BY <1>1, <1>2, <1>3, SmokeAside

\* The switch and the drill.
LEMMA SwitchedStep ==
    ASSUME OpsTypeOK, Switched, [OpsNext]_opsVars
    PROVE  Switched' /\ paused' \in BOOLEAN /\ drift' \subseteq Pinned /\ drill' \in Drills
           /\ meddled' \in BOOLEAN
<1> USE DEF Switched, OpsTypeOK, funds, accounts, settings, Drills
<1>1. CASE UserMove
  BY <1>1 DEF UserMove, Move
<1>2. CASE AdminMove
  <2>1. CASE paused' = ~paused /\ meddled' = TRUE /\ UNCHANGED drift
    BY <1>2, <2>1 DEF AdminMove, Move
  <2>2. CASE /\ \E f \in Pinned : drift' = (drift \cup {f}) \ (drift \cap {f})
             /\ UNCHANGED <<paused, meddled>>
    <3>1. drift' \subseteq Pinned
      BY <2>2
    <3> QED BY <1>2, <2>2, <3>1 DEF AdminMove, Move
  <2> QED BY <1>2, <2>1, <2>2 DEF AdminMove
<1>3. CASE Watch \/ WatchFails
  <2>1. UNCHANGED <<paused, drift, drill, meddled>>
    BY <1>3 DEF Watch, WatchFails, WatchConfig, WatchList, WatchPosition, WatchVault, WatchSupply,
                WatchAlert, WatchEnds, WatchTo
  <2> QED BY <2>1
<1>4. CASE Smoke
  <2>1. CASE SmokeStart \/ SmokeSign \/ SmokeBefore \/ SmokeAfter \/ DevnetPrepare \/ DevnetReport
    BY <2>1 DEF SmokeStart, SmokeSign, SmokeBefore, SmokeAfter, DevnetPrepare, DevnetReport
  <2>2. CASE RpcDeposit \/ SmokeFails
    BY <2>2 DEF RpcDeposit, SmokeFails
  <2> QED BY <1>4, <2>1, <2>2 DEF Smoke, SmokeSend, DevnetSend
<1>5. CASE Drill
  <2>1. CASE DrillStart
    <3>1. /\ drill' = "pause" /\ ~paused /\ paused' = paused /\ meddled' = FALSE
          /\ drift' = drift
      BY <2>1 DEF DrillStart, DrillTo
    <3>2. ~paused' /\ drill' \notin {"deposit", "unpause"}
      BY <3>1
    <3> QED BY <3>1, <3>2
  <2>2. CASE DrillSwitch("pause", TRUE, "deposit")
    BY <2>2 DEF DrillSwitch, DrillTo
  <2>3. CASE DrillDeposit
    BY <2>3 DEF DrillDeposit, DrillTo
  <2>4. CASE DrillUnattested
    BY <2>4 DEF DrillUnattested, DrillTo
  <2>5. CASE DrillSwitch("unpause", FALSE, "verify")
    <3>1. CASE "authority" \in drift
      BY <2>5, <3>1 DEF DrillSwitch, DrillTo
    <3>2. CASE "authority" \notin drift
      <4>1. /\ drill' = "verify" /\ paused' = FALSE /\ meddled' = meddled /\ drift' = drift
        BY <2>5, <3>2 DEF DrillSwitch, DrillTo
      <4>2. ~paused' /\ drill' \notin {"deposit", "unpause"}
        BY <4>1
      <4> QED BY <4>1, <4>2
    <3> QED BY <3>1, <3>2
  <2>6. CASE DrillVerify
    BY <2>6 DEF DrillVerify, DrillTo
  <2>7. CASE DrillFails
    BY <2>7 DEF DrillFails, DrillTo
  <2> QED BY <1>5, <2>1, <2>2, <2>3, <2>4, <2>5, <2>6, <2>7 DEF Drill
<1>6. CASE UNCHANGED opsVars
  BY <1>6 DEF opsVars
<1> QED BY <1>1, <1>2, <1>3, <1>4, <1>5, <1>6 DEF OpsNext

\* The bounds hold what they bound.
LEMMA CountsStep ==
    ASSUME OpsTypeOK, [OpsNext]_opsVars
    PROVE  moves' \in 0..MaxMoves /\ failures' \in 0..MaxFailures
<1> USE DEF OpsTypeOK, NoFailure, Failure
<1>0. {MaxMoves, MaxFailures} \subseteq Nat
  BY OpsAssumption
<1>1. CASE UserMove \/ AdminMove
  BY <1>0, <1>1 DEF UserMove, AdminMove, Move
<1>2. CASE Watch \/ WatchFails
  <2>1. CASE WatchConfig \/ WatchList \/ WatchPosition \/ WatchSupply
    BY <1>0, <2>1 DEF WatchConfig, WatchList, WatchPosition, WatchSupply
  <2>2. CASE WatchVault \/ WatchAlert \/ WatchFails
    <3>1. /\ moves' = moves
          /\ failures' = failures \/ (failures < MaxFailures /\ failures' = failures + 1)
      BY <2>2 DEF WatchVault, WatchAlert, WatchFails
    <3> QED BY <1>0, <3>1
  <2> QED BY <1>2, <2>1, <2>2 DEF Watch
<1>3. CASE Smoke
  <2>1. CASE SmokeStart \/ SmokeSign \/ SmokeBefore \/ SmokeAfter \/ DevnetPrepare \/ DevnetReport
    BY <1>0, <2>1 DEF SmokeStart, SmokeSign, SmokeBefore, SmokeAfter, DevnetPrepare, DevnetReport
  <2>2. CASE RpcDeposit \/ SmokeFails
    BY <1>0, <2>2 DEF RpcDeposit, SmokeFails
  <2> QED BY <1>3, <2>1, <2>2 DEF Smoke, SmokeSend, DevnetSend
<1>4. CASE Drill
  BY <1>0, <1>4 DEF Drill, DrillStart, DrillSwitch, DrillDeposit, DrillUnattested, DrillVerify,
                    DrillFails, DrillTo
<1>5. CASE UNCHANGED opsVars
  BY <1>5 DEF opsVars
<1> QED BY <1>1, <1>2, <1>3, <1>4, <1>5 DEF OpsNext

\* Nothing has been deposited, and no script runs.
LEMMA OpsInitInv == OpsInit => OpsInv
<1> SUFFICES ASSUME OpsInit PROVE OpsInv
  OBVIOUS
<1>0. /\ MaxVault \in Nat /\ Most \in Nat /\ {MaxMoves, MaxFailures} \subseteq Nat
      /\ Cardinality({}) = 0 /\ IsFiniteSet(Users)
      /\ 0 + MaxVault * 0 <= Most
  BY MostFacts, OpsAssumption, FS_EmptySet
<1>1. OpsTypeOK
  <2>1. 0 \in 0..Most /\ 0 \in 0..MaxMoves /\ 0 \in 0..MaxFailures
    BY <1>0
  <2>2. watch \in Watches /\ smoke \in Smokes
    BY <2>1 DEF OpsInit, Watches, Smokes
  <2> QED BY <2>1, <2>2 DEF OpsInit, OpsTypeOK, Drills
<1>2. FundsOK
  BY <1>0 DEF OpsInit, FundsOK
<1>3. Funded
  <2>1. /\ \A u \in Users : principal[u] = 0 /\ yxrp[u] = 0
        /\ {} \in SUBSET Users /\ vault = 0
    BY DEF OpsInit
  <2>2. SumFunctionOnSet(principal, Users) = 0 /\ SumFunctionOnSet(yxrp, Users) = 0
    <3>1. /\ \A u \in Users : principal[u] \in Nat /\ yxrp[u] \in Nat
          /\ \A u \in Users \ {} : principal[u] = 0 /\ yxrp[u] = 0
      BY <2>1
    <3>2. /\ SumFunctionOnSet(principal, Users) = SumFunctionOnSet(principal, {})
          /\ SumFunctionOnSet(yxrp, Users) = SumFunctionOnSet(yxrp, {})
      BY <1>0, <2>1, <3>1, SumOfNonzero
    <3> QED BY <3>2, SumOfNone
  <2> QED BY <2>1, <2>2 DEF Funded
<1>4. Reading /\ Comparing /\ Switched
  <2>1. Reading
    BY <1>0 DEF OpsInit, Reading, QuietVerdict
  <2>2. Comparing
    BY <1>0 DEF OpsInit, Comparing, SmokeVerdict
  <2>3. ~paused /\ drill = "off"
    BY DEF OpsInit
  <2>4. drill \notin {"deposit", "unpause"}
    BY <2>3
  <2> QED BY <2>1, <2>2, <2>3, <2>4 DEF Switched, OpsInit
<1> QED BY <1>1, <1>2, <1>3, <1>4 DEF OpsInv

\* Every step keeps positions and receipts within the vault.
LEMMA FundsStep ==
    ASSUME FundsOK, Funded, [OpsNext]_opsVars
    PROVE  FundsOK' /\ Funded' /\ cluster' = cluster
<1>1. CASE UNCHANGED funds
  BY <1>1, AccountsStep DEF FundsOK, Funded, funds
<1>2. CASE Moves
  BY <1>2, MovesFunds, AccountsStep
<1> QED BY <1>1, <1>2, AccountsStep

\* Every step of scripts, users and admins keeps the invariant.
LEMMA OpsStepInv == OpsInv /\ [OpsNext]_opsVars => OpsInv'
<1> SUFFICES ASSUME OpsInv, [OpsNext]_opsVars PROVE OpsInv'
  OBVIOUS
<1>0. OpsTypeOK /\ FundsOK /\ Funded /\ Reading /\ Comparing /\ Switched
  BY DEF OpsInv
<1>1. FundsOK' /\ Funded' /\ cluster' = cluster
  BY <1>0, FundsStep
<1>2. Reading' /\ watch' \in Watches /\ quiet' \in BOOLEAN
  BY <1>0, ReadingStep
<1>3. Comparing' /\ smoke' \in Smokes
  BY <1>0, ComparingStep
<1>4. Switched' /\ paused' \in BOOLEAN /\ drift' \subseteq Pinned /\ drill' \in Drills
      /\ meddled' \in BOOLEAN
  BY <1>0, SwitchedStep
<1>5. moves' \in 0..MaxMoves /\ failures' \in 0..MaxFailures
  BY <1>0, CountsStep
<1>6. OpsTypeOK'
  <2>1. /\ opened' \subseteq Users /\ vault' \in 0..Most
        /\ principal' \in [Users -> 0..Most] /\ yxrp' \in [Users -> 0..Most]
    BY <1>1, MostFacts DEF FundsOK
  <2> QED BY <1>0, <1>1, <1>2, <1>3, <1>4, <1>5, <2>1 DEF OpsTypeOK
<1> QED BY <1>1, <1>2, <1>3, <1>4, <1>6 DEF OpsInv

\* So it always holds.
LEMMA OpsInvariance == OpsSpec => []OpsInv
BY OpsInitInv, OpsStepInv, PTL DEF OpsSpec

\* What the scripts report is right about the chain they read account by account:
\* the watcher's healthy and failing (watch-mainnet.ts) if nothing moved and no read
\* failed meanwhile, the smoke test's broken only after a disturbance and its passed
\* only for a deposit that landed (smoke-test-mainnet.ts); and the accounts have
\* their types.  For any number of users, of moves and of failures.
THEOREM ScriptsVerdicts == OpsSpec => []Verdicts
<1>1. OpsInv => Verdicts
  BY DEF OpsInv, Verdicts, Reading, Comparing
<1> QED BY <1>1, OpsInvariance, PTL

\* A drill (circuit-breaker-dryrun.ts) that nothing and nobody disturbed leaves the
\* program unpaused.
THEOREM DrillsRestore == OpsSpec => []DrillRestores
<1>1. OpsInv => DrillRestores
  BY DEF OpsInv, Switched, DrillRestores
<1> QED BY <1>1, OpsInvariance, PTL

-----------------------------------------------------------------------------
(* OpsScripts: the alarm rings. *)

\* A step in which no call fails, nor is anything moved under a run of the watcher.
\* Moves and failures are bounded, so in the end every step is one.
Peaceful == (quiet => quiet') /\ failures' = failures

\* Where a step takes the watcher when no call fails.
Onward ==
    \/ watch.at = "off" /\ watch'.at = "list" /\ quiet'
    \/ watch.at = "list" /\ watch'.at = "position"
    \/ watch.at = "position" /\ watch'.at \in {"position", "vault"}
    \/ watch.at = "vault" /\ watch'.at = "supply"
    \/ watch.at = "supply" /\ watch'.at = "alert"
    \/ watch.at = "supply" /\ watch'.at = "off" /\ watch'.verdict = "healthy"
    \/ watch.at = "alert" /\ watch'.at = "off" /\ watch'.verdict = "failing" /\ watch'.told

\* The watcher's steps take it onward, and nothing else touches it.
LEMMA WatchMoves ==
    ASSUME OpsInv, [OpsNext]_opsVars, failures' = failures
    PROVE  (watch' = watch \/ Watch) /\ (Watch => Onward)
<1>1. watch \in Watches /\ failures + 1 # failures
  BY OpsAssumption DEF OpsInv, OpsTypeOK
<1>2. watch' = watch \/ Watch
  BY <1>1 DEF OpsNext, opsVars, UserMove, AdminMove, Move, WatchFails, Failure, Smoke, SmokeStart,
          SmokeSign, DevnetPrepare, SmokeBefore, SmokeSend, DevnetSend, RpcDeposit, SmokeAfter,
          DevnetReport, SmokeFails, Drill, DrillStart, DrillSwitch, DrillTo, DrillDeposit, DrillUnattested,
          DrillVerify, DrillFails
<1>3. ASSUME WatchConfig PROVE Onward
  BY <1>3 DEF WatchConfig, WatchTo, Onward
<1>4. ASSUME WatchList PROVE Onward
  <2>1. watch.at = "list" /\ watch' = [watch EXCEPT !.at = "position", !.left = opened]
    BY <1>4 DEF WatchList, WatchTo
  <2> QED BY <1>1, <2>1 DEF Watches, Onward
<1>5. ASSUME WatchPosition PROVE Onward
  <2>1. ASSUME NEW u \in watch.left,
               watch' = [watch EXCEPT !.left = @ \ {u}, !.sum = @ + principal[u]]
        PROVE  watch'.at = watch.at
    BY <1>1, <2>1 DEF Watches
  <2>2. ASSUME watch' = [watch EXCEPT !.at = "vault"] PROVE watch'.at = "vault"
    BY <1>1, <2>2 DEF Watches
  <2>3. watch'.at \in {"position", "vault"} /\ watch.at = "position"
    BY <1>5, <2>1, <2>2 DEF WatchPosition, WatchTo
  <2> QED BY <2>3 DEF Onward
<1>6. ASSUME WatchVault PROVE Onward
  <2>1. watch.at = "vault" /\ \E n : watch' = [watch EXCEPT !.at = "supply", !.vault = n]
    BY <1>6 DEF WatchVault, WatchTo
  <2> QED BY <1>1, <2>1 DEF Watches, Onward
<1>7. ASSUME WatchSupply PROVE Onward
  <2>1. /\ watch.at = "supply"
        /\ \/ watch' = [watch EXCEPT !.at = "off", !.verdict = "healthy"]
           \/ watch' = [watch EXCEPT !.at = "alert"]
    BY <1>7 DEF WatchSupply, WatchEnds, WatchTo
  <2> QED BY <1>1, <2>1 DEF Watches, Onward
<1>8. ASSUME WatchAlert PROVE Onward
  <2>1. /\ watch.at = "alert"
        /\ watch' = [watch EXCEPT !.at = "off", !.verdict = "failing", !.told = TRUE]
    BY <1>1, <1>8 DEF WatchAlert, WatchTo, Failure
  <2> QED BY <1>1, <2>1 DEF Watches, Onward
<1> QED BY <1>2, <1>3, <1>4, <1>5, <1>6, <1>7, <1>8 DEF Watch

\* When the accounts settle and calls succeed, a program out of order is reported again
\* and again (watch-mainnet.ts, run by cron): a run that nothing disturbs does not take
\* it for healthy.
THEOREM AlarmRingsHolds ==
    OpsSpec /\ []WatcherGoesOn /\ PositionsEnd /\ <>[][Peaceful]_opsVars => AlarmRings
<1> DEFINE Wrong == cluster = "mainnet" /\ ~Healthy
           Rung == watch.verdict = "failing" /\ watch.told
           Is(p) == watch.at = p
           Calmly == [OpsNext]_opsVars /\ [Peaceful]_opsVars
           Moved == <<Watch>>_opsVars
<1>1. OpsInv /\ OpsInv' /\ Calmly /\ Wrong' =>
        /\ watch' = watch \/ Onward
        /\ Moved => Onward
        /\ quiet => quiet'
        /\ quiet' => ~(watch'.at = "off" /\ watch'.verdict = "healthy")
  <2> SUFFICES ASSUME OpsInv, OpsInv', Calmly, Wrong'
               PROVE  /\ watch' = watch \/ Onward
                      /\ Moved => Onward
                      /\ quiet => quiet'
                      /\ quiet' => ~(watch'.at = "off" /\ watch'.verdict = "healthy")
    OBVIOUS
  <2>1. failures' = failures /\ (quiet => quiet')
    BY DEF Peaceful, opsVars
  <2>2. (watch' = watch \/ Watch) /\ (Watch => Onward)
    BY <2>1, WatchMoves
  <2>3. QuietVerdict'
    BY DEF OpsInv, Reading
  <2>4. quiet' => ~(watch'.at = "off" /\ watch'.verdict = "healthy")
    BY <2>3 DEF QuietVerdict
  <2> HIDE DEF Calmly, Wrong
  <2> QED BY <2>1, <2>2, <2>4
<1>2. OpsInv /\ OpsInv' /\ Calmly /\ Wrong' =>
        /\ quiet => quiet'
        /\ Is("off") => Is("off")' \/ (Is("list")' /\ quiet')
        /\ Is("list") => Is("list")' \/ Is("position")'
        /\ Is("position") => Is("position")' \/ Is("vault")'
        /\ Is("vault") => Is("vault")' \/ Is("supply")'
        /\ Is("supply") => Is("supply")' \/ Is("alert")' \/ Is("off")'
        /\ Is("supply") /\ quiet => Is("supply")' \/ Is("alert")'
        /\ Is("alert") => Is("alert")' \/ (Is("off")' /\ Rung')
  <2> SUFFICES ASSUME watch' = watch \/ Onward, quiet => quiet',
                      quiet' => ~(watch'.at = "off" /\ watch'.verdict = "healthy")
               PROVE  /\ quiet => quiet'
                      /\ Is("off") => Is("off")' \/ (Is("list")' /\ quiet')
                      /\ Is("list") => Is("list")' \/ Is("position")'
                      /\ Is("position") => Is("position")' \/ Is("vault")'
                      /\ Is("vault") => Is("vault")' \/ Is("supply")'
                      /\ Is("supply") => Is("supply")' \/ Is("alert")' \/ Is("off")'
                      /\ Is("supply") /\ quiet => Is("supply")' \/ Is("alert")'
                      /\ Is("alert") => Is("alert")' \/ (Is("off")' /\ Rung')
    <3> HIDE DEF Calmly, Moved, Wrong, Is, Rung
    <3> QED BY <1>1
  <2> QED BY DEF Onward
<1>3. OpsInv /\ OpsInv' /\ Calmly /\ Wrong' /\ Moved =>
        /\ Is("off") => ~Is("off")'
        /\ Is("list") => ~Is("list")'
        /\ Is("vault") => ~Is("vault")'
        /\ Is("supply") => ~Is("supply")'
        /\ Is("alert") => ~Is("alert")'
  <2> SUFFICES ASSUME Onward
               PROVE  /\ Is("off") => ~Is("off")'
                      /\ Is("list") => ~Is("list")'
                      /\ Is("vault") => ~Is("vault")'
                      /\ Is("supply") => ~Is("supply")'
                      /\ Is("alert") => ~Is("alert")'
    <3> HIDE DEF Calmly, Moved, Wrong, Is
    <3> QED BY <1>1
  <2> QED BY DEF Onward
<1>4. OpsInv => /\ Is("off") \/ Is("list") \/ Is("position") \/ Is("vault") \/ Is("supply")
                   \/ Is("alert")
                /\ Is("position") <=> ~(watch.at # "position")
  <2>1. OpsInv => watch.at \in {"off", "list", "position", "vault", "supply", "alert"}
    BY DEF OpsInv, OpsTypeOK, Watches
  <2> QED BY <2>1
<1>5. Wrong /\ WatcherGoesOn => ENABLED <<Watch>>_opsVars
  BY DEF WatcherGoesOn
<1>6. OpsSpec => []OpsInv /\ [][OpsNext]_opsVars /\ WF_opsVars(Watch)
  BY OpsInvariance, PTL DEF OpsSpec
<1> DEFINE Settled == []Wrong /\ []OpsInv /\ [][OpsNext]_opsVars /\ [][Peaceful]_opsVars
                      /\ []WatcherGoesOn /\ WF_opsVars(Watch) /\ PositionsEnd
<1> HIDE DEF Wrong, Rung, Is
<1>7. Settled => []<><<Watch>>_opsVars
  BY <1>5, PTL
<1>8. Settled => []<>Is("off")
  BY <1>2, <1>3, <1>4, <1>7, PTL DEF PositionsEnd
<1>9. Settled => <>[]quiet
  BY <1>2, <1>3, <1>7, <1>8, PTL
<1>10. Settled => []<>Rung
  BY <1>2, <1>3, <1>4, <1>7, <1>8, <1>9, PTL DEF PositionsEnd
<1>11. []OpsInv /\ [][OpsNext]_opsVars /\ [][Peaceful]_opsVars
         /\ []WatcherGoesOn /\ WF_opsVars(Watch) /\ PositionsEnd /\ []Wrong => Settled
  BY PTL
<1>12. <>[][Peaceful]_opsVars /\ []OpsInv /\ [][OpsNext]_opsVars
         /\ []WatcherGoesOn /\ WF_opsVars(Watch) /\ PositionsEnd
         /\ <>[](cluster = "mainnet" /\ ~Healthy) => []<>Rung
  BY <1>10, <1>11, PTL DEF PositionsEnd, Wrong
<1> QED BY <1>6, <1>12, PTL DEF AlarmRings, Rung
=============================================================================
