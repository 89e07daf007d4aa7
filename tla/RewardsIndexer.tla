--------------------------- MODULE RewardsIndexer ---------------------------
(***************************************************************************)
(* The rewards indexer (services/rewards-indexer/src): the epoch store on  *)
(* disk, the admin requests that run an epoch and propose its distribution *)
(* to the Squads multisig, the CLI that runs an epoch from cron, and the   *)
(* multisig the proposals land on.                                         *)
(*                                                                         *)
(* A request is a process; each of its `await`s is a place where other     *)
(* requests, the chain and the clock get in.  writeFile empties the file   *)
(* and then fills it, so a reader or a crash in between finds it torn,     *)
(* which the store's readers take for a missing file.                      *)
(***************************************************************************)
EXTENDS Naturals, FiniteSets

CONSTANTS
    Runners,      \* slots for concurrent POST /admin/run-epoch requests
    CronRunners,  \* slots for concurrent `cli.ts run`
    Publishers,   \* slots for concurrent POST /admin/publish-epoch requests
    Latest,       \* the file latest.json
    Absent, Torn, \* a file not there; a file being (or left) half-written
    Interval,     \* EPOCH_HOURS
    MaxEpoch,     \* bound: epoch ids 0..MaxEpoch
    MaxIndex,     \* bound: multisig transaction indices 1..MaxIndex
    MaxTime,      \* bound on the clock
    Settings      \* the environments to check, see SituationNames

SituationNames ==
    {"overlap",         \* requests are served concurrently
     "crash",           \* processes die
     "otherProposals",  \* other members create multisig transactions
     "lostConfirm",     \* sendTransaction or confirmTransaction fails on a
                        \* transaction that landed or may still land
     "publishById"}     \* publish-epoch/:id for other epochs than the latest

ASSUME BoundsAssumption ==
    Interval \in Nat /\ MaxEpoch \in Nat /\ MaxIndex \in Nat /\ MaxTime \in Nat

Ids == 0..MaxEpoch
Files == Ids \cup {Latest}
Snapshots == 1..(MaxEpoch + 1)
Handlers == Runners \cup CronRunners \cup Publishers

\* An environment: what may happen, the requests that are made, and the bounds on
\* epochs, multisig transactions and time that fit it.
ASSUME SettingsAssumption ==
    Settings \subseteq [may : SUBSET SituationNames, handlers : SUBSET Handlers,
                        epochs : Ids, indices : 1..MaxIndex, time : 0..MaxTime]

\* An EpochResult: which snapshot its scores, claims and root come from, whether
\* anything is claimable, and the multisig index behind saberDistributor (0: null).
Epochs ==
    [id : Ids, snapshot : Snapshots, endedAt : 0..MaxTime, empty : BOOLEAN,
     distributor : 0..MaxIndex]

ASSUME SentinelAssumption ==
    /\ Latest \notin Ids /\ Absent # Torn
    /\ Absent \notin Epochs /\ Torn \notin Epochs
    /\ (Runners \cup CronRunners) \cap Publishers = {}

\* A proposal transaction as sent: creates multisig transaction `index` with the
\* distributor of epoch `id`, computed from `snapshot`.
Proposals == [index : 1..MaxIndex, id : Ids, snapshot : Snapshots]

VARIABLES
    setting,    \* the environment of this behaviour; never changes
    disk,       \* contents of the epoch files and of latest.json
    pc,         \* where each request is
    epoch,      \* the EpochResult a request holds in memory
    index,      \* the transactionIndex a publish request computed
    clash,      \* requests whose open file another request has opened too
    flying,     \* proposal transactions sent and not yet settled, by sender
    settled,    \* proposal transactions executed, successfully or not
    squads,     \* transactions of the multisig, in order: index -> content
    snapshots,  \* snapshots taken so far
    now

store == <<disk, clash>>
chain == <<flying, settled, squads>>
vars == <<setting, disk, pc, epoch, index, clash, flying, settled, squads, snapshots, now>>

\* What a multisig transaction contains when it is not an epoch's distributor.
Foreign == [id |-> MaxEpoch + 1, snapshot |-> 0]
Contents == [id : Ids, snapshot : Snapshots] \cup {Foreign}

Steps == {"idle", "check", "sample", "read", "fetchIndex", "send", "confirm",
          "openFile", "fillFile", "openLatest", "fillLatest"}

TypeOK ==
    /\ setting \in Settings
    /\ disk \in [Files -> Epochs \cup {Absent, Torn}]
    /\ pc \in [Handlers -> Steps]
    /\ epoch \in [Handlers -> Epochs \cup {Absent}]
    /\ index \in [Publishers -> 0..MaxIndex]
    /\ clash \subseteq Handlers
    /\ flying \subseteq Publishers \X Proposals
    /\ settled \subseteq Publishers \X Proposals
    /\ DOMAIN squads \subseteq 1..MaxIndex
    /\ \A i \in DOMAIN squads : squads[i] \in Contents
    /\ snapshots \in 0..(MaxEpoch + 1)
    /\ now \in 0..MaxTime

Init ==
    /\ setting \in Settings
    /\ disk = [f \in Files |-> Absent]
    /\ pc = [p \in Handlers |-> "idle"]
    /\ epoch = [p \in Handlers |-> Absent]
    /\ index = [p \in Publishers |-> 0]
    /\ clash = {}
    /\ flying = {} /\ settled = {}
    /\ squads = [i \in {} |-> Foreign]
    /\ snapshots = 0
    /\ now = 0

-----------------------------------------------------------------------------
(* Helpers. *)

May(what) == what \in setting.may
Goto(p, step) == pc' = [pc EXCEPT ![p] = step]
MayStart(p) ==
    /\ pc[p] = "idle" /\ p \in setting.handlers
    /\ May("overlap") \/ \A q \in Handlers : pc[q] = "idle"

\* JSON.parse of a file that is missing or torn throws; read returns null.
Read(f) == IF disk[f] \in {Absent, Torn} THEN Absent ELSE disk[f]

\* The ids listEpochIds finds: it goes by file names, whatever the files hold.
\* Mutant: torn files are not counted.
ReadableIds == {i \in Ids : disk[i] \notin {Absent, Torn}}

ListedIds == {i \in Ids : disk[i] # Absent}

NextEpochId == IF ListedIds = {} THEN 0
               ELSE 1 + CHOOSE i \in ListedIds : \A j \in ListedIds : j <= i

TransactionIndex == Cardinality(DOMAIN squads)

-----------------------------------------------------------------------------
(* storage.write: the epoch file, then latest.json, each emptied and then   *)
(* filled.  When two requests have the same file open, what is left of it   *)
(* may be neither one's text.                                               *)

Filling(q, f) ==
    \/ pc[q] = "fillFile" /\ epoch[q].id = f
    \/ pc[q] = "fillLatest" /\ f = Latest

Open(p, f, next) ==
    /\ disk' = [disk EXCEPT ![f] = Torn]
    /\ LET others == {q \in Handlers \ {p} : Filling(q, f)}
       IN  clash' = IF others = {} THEN clash ELSE clash \cup others \cup {p}
    /\ Goto(p, next)
    /\ UNCHANGED <<setting, epoch, index, chain, snapshots, now>>

Fill(p, f, next) ==
    /\ \E text \in {epoch[p]} \cup (IF p \in clash THEN {Torn} ELSE {}) :
         disk' = [disk EXCEPT ![f] = text]
    /\ clash' = clash \ {p}
    /\ Goto(p, next)

OpenFile(p) == pc[p] = "openFile" /\ Open(p, epoch[p].id, "fillFile")

\* Mutant: latest.json is not rewritten.
FillFileOnly(p) ==
    /\ pc[p] = "fillFile"
    /\ Fill(p, epoch[p].id, "idle")
    /\ UNCHANGED <<setting, epoch, index, chain, snapshots, now>>

FillFile(p) ==
    /\ pc[p] = "fillFile"
    /\ Fill(p, epoch[p].id, "openLatest")
    /\ UNCHANGED <<setting, epoch, index, chain, snapshots, now>>

OpenLatest(p) == pc[p] = "openLatest" /\ Open(p, Latest, "fillLatest")

\* The request answers.
Answer(p) ==
    /\ Goto(p, "idle")
    /\ epoch' = [epoch EXCEPT ![p] = Absent]
    /\ index' = [q \in Publishers |-> IF q = p THEN 0 ELSE index[q]]

FillLatest(p) ==
    /\ pc[p] = "fillLatest"
    /\ Fill(p, Latest, "idle")
    /\ epoch' = [epoch EXCEPT ![p] = Absent]
    /\ index' = [q \in Publishers |-> IF q = p THEN 0 ELSE index[q]]
    /\ UNCHANGED <<setting, chain, snapshots, now>>

Write(p) == OpenFile(p) \/ FillFile(p) \/ OpenLatest(p) \/ FillLatest(p)

-----------------------------------------------------------------------------
(* POST /admin/run-epoch and `cli.ts run`. *)

\* A request arrives.  The CLI skips the check of the interval.
StartRun(p) ==
    /\ MayStart(p)
    /\ Goto(p, IF p \in CronRunners THEN "sample" ELSE "check")
    /\ UNCHANGED <<setting, store, epoch, index, chain, snapshots, now>>

\* 409 if the latest epoch ended less than EPOCH_HOURS ago.
TooRecent == Read(Latest) # Absent /\ now - Read(Latest).endedAt < Interval

RunCheck(p) ==
    /\ pc[p] = "check"
    /\ Goto(p, IF TooRecent THEN "idle" ELSE "sample")
    /\ UNCHANGED <<setting, store, epoch, index, chain, snapshots, now>>

\* sampleMarket returned nothing or an RPC read failed: runEpoch throws.
RunFails(p) ==
    /\ pc[p] = "sample"
    /\ Goto(p, "idle")
    /\ UNCHANGED <<setting, store, epoch, index, chain, snapshots, now>>

\* The snapshot is scored, and only then the epoch is numbered.
RunNumber(p) ==
    /\ pc[p] = "sample"
    /\ NextEpochId <= setting.epochs /\ snapshots <= setting.epochs   \* bounds
    /\ snapshots' = snapshots + 1
    /\ \E empty \in BOOLEAN :
         epoch' = [epoch EXCEPT ![p] =
             [id |-> NextEpochId, snapshot |-> snapshots', endedAt |-> now,
              empty |-> empty, distributor |-> 0]]
    /\ Goto(p, "openFile")
    /\ UNCHANGED <<setting, store, index, chain, now>>

RunGoesOn(p) == RunCheck(p) \/ RunFails(p) \/ RunNumber(p)

RunStep(p) == StartRun(p) \/ RunGoesOn(p)

-----------------------------------------------------------------------------
(* POST /admin/publish-epoch/:id? *)

StartPublish(p) ==
    /\ MayStart(p)
    /\ Goto(p, "read")
    /\ UNCHANGED <<setting, store, epoch, index, chain, snapshots, now>>

\* Reads the epoch asked for (the latest by default) and decides on what it
\* read: 404, "already published", "empty pool", or go on.
\* Mutant: an epoch that has a distributor already is proposed again.
PublishReadAgain(p) ==
    /\ pc[p] = "read"
    /\ \E f \in IF May("publishById") THEN Files ELSE {Latest} :
         LET found == Read(f)
         IN  IF found = Absent \/ found.empty
             THEN Goto(p, "idle") /\ UNCHANGED epoch
             ELSE Goto(p, "fetchIndex") /\ epoch' = [epoch EXCEPT ![p] = found]
    /\ UNCHANGED <<setting, store, index, chain, snapshots, now>>

PublishRead(p) ==
    /\ pc[p] = "read"
    /\ \E f \in IF May("publishById") THEN Files ELSE {Latest} :
         LET found == Read(f)
         IN  IF found = Absent \/ found.distributor # 0 \/ found.empty
             THEN Goto(p, "idle") /\ UNCHANGED epoch
             ELSE Goto(p, "fetchIndex") /\ epoch' = [epoch EXCEPT ![p] = found]
    /\ UNCHANGED <<setting, store, index, chain, snapshots, now>>

PublishFetchIndex(p) ==
    /\ pc[p] = "fetchIndex"
    /\ TransactionIndex < setting.indices   \* bound
    /\ index' = [index EXCEPT ![p] = TransactionIndex + 1]
    /\ Goto(p, "send")
    /\ UNCHANGED <<setting, store, epoch, chain, snapshots, now>>

\* The proposal transaction of a request: what it sends, and then awaits.
OwnTx(p) == <<p, [index |-> index[p], id |-> epoch[p].id, snapshot |-> epoch[p].snapshot]>>

\* sendTransaction simulates first: it throws when the index is taken already.
PublishSend(p) ==
    /\ pc[p] = "send"
    /\ index[p] = TransactionIndex + 1
    /\ flying' = flying \cup {OwnTx(p)} /\ settled' = settled \ {OwnTx(p)}
    /\ Goto(p, "confirm")
    /\ UNCHANGED <<setting, store, epoch, index, squads, snapshots, now>>

\* The proposal is sent, but the answer of the RPC node is lost: the request ends
\* with a 500, and the proposal may still land.
PublishSendLost(p) ==
    /\ pc[p] = "send" /\ May("lostConfirm")
    /\ index[p] = TransactionIndex + 1
    /\ flying' = flying \cup {OwnTx(p)} /\ settled' = settled \ {OwnTx(p)}
    /\ Answer(p)
    /\ UNCHANGED <<setting, store, squads, snapshots, now>>

\* An RPC call throws before anything was sent: the request ends with a 500.
PublishFails(p) ==
    /\ pc[p] \in {"fetchIndex", "send"}
    /\ Answer(p)
    /\ UNCHANGED <<setting, store, chain, snapshots, now>>

\* Mutants: the distributor is recorded without waiting for the transaction;
\* under the index after the one proposed; expiry is not noticed.
PublishConfirmAtOnce(p) ==
    /\ pc[p] = "confirm"
    /\ epoch' = [epoch EXCEPT ![p].distributor = index[p]]
    /\ Goto(p, "openFile")
    /\ UNCHANGED <<setting, store, index, chain, snapshots, now>>

\* Mutant: a proposal that expired is made again, until one is executed.
PublishConfirmRetries(p) ==
    /\ pc[p] = "confirm"
    /\ OwnTx(p) \notin settled /\ OwnTx(p) \notin flying
    /\ Goto(p, "fetchIndex")
    /\ UNCHANGED <<setting, store, epoch, index, chain, snapshots, now>>

\* confirmTransaction returns once the transaction has executed.  Its result
\* says whether it failed; the code does not look.
PublishConfirm(p) ==
    /\ pc[p] = "confirm"
    /\ OwnTx(p) \in settled
    /\ epoch' = [epoch EXCEPT ![p].distributor = index[p]]
    /\ Goto(p, "openFile")
    /\ UNCHANGED <<setting, store, index, chain, snapshots, now>>

\* confirmTransaction throws: the blockhash expired, or the connection broke.
PublishConfirmFails(p) ==
    /\ pc[p] = "confirm"
    /\ OwnTx(p) \in flying \cup settled => May("lostConfirm")
    /\ Answer(p)
    /\ UNCHANGED <<setting, store, chain, snapshots, now>>

PublishGoesOn(p) ==
    \/ PublishRead(p) \/ PublishFetchIndex(p) \/ PublishSend(p)
    \/ PublishSendLost(p) \/ PublishFails(p) \/ PublishConfirm(p) \/ PublishConfirmFails(p)

PublishStep(p) == StartPublish(p) \/ PublishGoesOn(p)

-----------------------------------------------------------------------------
(* The chain, the other members of the multisig, the clock, and crashes. *)

AddToSquads(i, content) ==
    squads' = [j \in DOMAIN squads \cup {i} |-> IF j = i THEN content ELSE squads[j]]

\* The multisig accepts a new transaction only under the next index.
Execute(tx) ==
    /\ tx \in flying
    /\ flying' = flying \ {tx}
    /\ settled' = settled \cup {tx}
    /\ IF tx[2].index = TransactionIndex + 1
       THEN AddToSquads(tx[2].index, [id |-> tx[2].id, snapshot |-> tx[2].snapshot])
       ELSE UNCHANGED squads
    /\ UNCHANGED <<setting, store, pc, epoch, index, snapshots, now>>

Expire(tx) ==
    /\ tx \in flying
    /\ flying' = flying \ {tx}
    /\ UNCHANGED <<setting, store, pc, epoch, index, settled, squads, snapshots, now>>

OtherProposal ==
    /\ May("otherProposals")
    /\ TransactionIndex < setting.indices
    /\ AddToSquads(TransactionIndex + 1, Foreign)
    /\ UNCHANGED <<setting, store, pc, epoch, index, flying, settled, snapshots, now>>

Tick ==
    /\ now < setting.time
    /\ now' = now + 1
    /\ UNCHANGED <<setting, store, pc, epoch, index, chain, snapshots>>

\* A process dies: the server with all its requests, or one cron run.  Files it
\* had open stay torn; transactions it sent may still land.
Crash(procs) ==
    /\ May("crash")
    /\ \E p \in procs : pc[p] # "idle"
    /\ pc' = [p \in Handlers |-> IF p \in procs THEN "idle" ELSE pc[p]]
    /\ epoch' = [p \in Handlers |-> IF p \in procs THEN Absent ELSE epoch[p]]
    /\ index' = [p \in Publishers |-> IF p \in procs THEN 0 ELSE index[p]]
    /\ clash' = clash \ procs
    /\ UNCHANGED <<setting, disk, chain, snapshots, now>>

Next ==
    \/ \E p \in Runners \cup CronRunners : RunStep(p)
    \/ \E p \in Publishers : PublishStep(p)
    \/ \E p \in Handlers : Write(p)
    \/ \E tx \in flying : Execute(tx) \/ Expire(tx)
    \/ OtherProposal
    \/ Tick
    \/ Crash(Runners \cup Publishers)
    \/ \E p \in CronRunners : Crash({p})

\* Awaited work goes on: the event loop runs every ready continuation, the
\* network answers or fails, and the chain executes a transaction that is awaited
\* or drops it when its blockhash expires.
OwnTxSettles(p) ==
    pc[p] = "confirm" /\ (Execute(OwnTx(p)) \/ Expire(OwnTx(p)))

RunFair(p) == WF_vars(RunGoesOn(p))
PublishFair(p) == WF_vars(PublishGoesOn(p)) /\ WF_vars(OwnTxSettles(p))
WriteFair(p) == WF_vars(Write(p))

Fairness ==
    /\ \A p \in Runners \cup CronRunners : RunFair(p)
    /\ \A p \in Publishers : PublishFair(p)
    /\ \A p \in Handlers : WriteFair(p)

Spec == Init /\ [][Next]_vars /\ Fairness

-----------------------------------------------------------------------------
(* Properties.  Which of them hold depends on the environment: each names   *)
(* what it cannot stand, and README.md tells what happens then.            *)

Quiet == \A p \in Handlers : pc[p] = "idle"

\* What the service's readers get; Absent is a 404.
EpochLatest == Read(Latest)
EpochById(id) == Read(id)

OnDisk == ({EpochById(id) : id \in Ids} \cup {EpochLatest}) \ {Absent}
Held == {epoch[p] : p \in Handlers} \ {Absent}
Proposed == {squads[i] : i \in DOMAIN squads} \ {Foreign}

\* Only one request at a time runs an epoch.
OneRun ==
    \/ ~May("overlap")
    \/ \A p, q \in setting.handlers \cap (Runners \cup CronRunners) : p = q

\* Requests are served one at a time, the latest epoch is the one published, and
\* nothing dies in between.
InOrder == setting.may \cap {"overlap", "crash", "publishById"} = {}

\* Whoever proposes lives to see what became of it, before anyone else proposes.
Accounted ==
    /\ setting.may \cap {"lostConfirm", "crash"} = {}
    /\ \A p, q \in setting.handlers \cap Publishers : p = q

\* An epoch id stands for one snapshot: what is on disk, held by a request and
\* proposed to the multisig under one id has the same scores, claims and root,
\* whatever crashes and overlaps, as long as one run-epoch is served at a time.
OneSnapshotPerEpoch ==
    OneRun => \A a, b \in OnDisk \cup Held \cup Proposed : a.id = b.id => a.snapshot = b.snapshot

\* Between requests made in that way, /epoch/latest is the newest epoch on disk
\* (server.ts: "most recent published epoch").
LatestIsNewest ==
    InOrder /\ Quiet /\ ListedIds # {} =>
        EpochLatest # Absent /\ \A i \in ListedIds : i <= EpochLatest.id

\* And when cron is not used either, epochs are at least EPOCH_HOURS apart
\* (README: run-epoch "rejects if last < EPOCH_HOURS old").
EpochsSpaced ==
    InOrder /\ setting.handlers \cap CronRunners = {} =>
    \A a, b \in OnDisk : a.id < b.id => b.endedAt - a.endedAt >= Interval

\* What holds of the store: its types, one snapshot per epoch, and the distance
\* between epochs.
StoreInvariant == TypeOK /\ OneSnapshotPerEpoch /\ EpochsSpaced

\* A recorded saberDistributor is the one the multisig has a transaction for,
\* and that transaction distributes this very epoch (storage.ts: "populated by
\* the publisher after the Squads tx confirms"), as long as every proposal is
\* accounted for and no other member uses the multisig meanwhile.
RecordedIsProposed ==
    Accounted /\ ~May("otherProposals") =>
    \A e \in OnDisk : e.distributor # 0 =>
        /\ e.distributor \in DOMAIN squads
        /\ squads[e.distributor] = [id |-> e.id, snapshot |-> e.snapshot]

\* No epoch is proposed, and so funded, twice (saber-publisher.ts: "turns one
\* EpochResult into an on-chain Saber merkle distributor"), as long as every
\* proposal is accounted for, and what overlaps is one run and one publication of
\* the latest epoch.
ProposedOnce ==
    Accounted /\ OneRun /\ ~(May("overlap") /\ May("publishById")) =>
    \A i, j \in DOMAIN squads :
        i # j /\ squads[i] # Foreign => squads[i].id # squads[j].id

\* No request is ever stuck: whatever others have done to the files, the multisig
\* and the index in the meantime, the step it is at can be taken, and what it awaits
\* of the chain can come.
NeverStuck ==
    /\ \A p \in Runners \cup CronRunners :
         pc[p] \in {"check", "sample"} => ENABLED <<RunGoesOn(p)>>_vars
    /\ \A p \in Publishers :
         /\ pc[p] \in {"read", "fetchIndex", "send"} => ENABLED <<PublishGoesOn(p)>>_vars
         /\ pc[p] = "confirm" => IF OwnTx(p) \in flying
                                THEN ENABLED <<OwnTxSettles(p)>>_vars
                                ELSE ENABLED <<PublishGoesOn(p)>>_vars
    /\ \A p \in Handlers :
         pc[p] \in {"openFile", "fillFile", "openLatest", "fillLatest"} =>
             ENABLED <<Write(p)>>_vars

\* And every request is answered, under that fairness.
Answered ==
    /\ []NeverStuck
    /\ \A p \in Handlers : pc[p] # "idle" ~> pc[p] = "idle"
=============================================================================
