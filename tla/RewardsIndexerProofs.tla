------------------------ MODULE RewardsIndexerProofs ------------------------
(***************************************************************************)
(* Proofs about RewardsIndexer, for any number of requests and members, in *)
(* any environment: an epoch id stands for one snapshot, the latest file   *)
(* is the newest of the epochs, what an epoch records is what the multisig *)
(* holds, an epoch is proposed once, and every request is answered.        *)
(***************************************************************************)
EXTENDS RewardsIndexer, WellFoundedInduction, FiniteSetTheorems, TLAPS

Runs == Runners \cup CronRunners
Working == {"fetchIndex", "send", "confirm", "openFile", "fillFile", "openLatest", "fillLatest"}

-----------------------------------------------------------------------------
(* Numbers. *)

\* A set of numbers up to n has a largest one.
LEMMA Largest ==
    ASSUME NEW n \in Nat, NEW S, S \subseteq 0..n, S # {}
    PROVE  \E i \in S : \A j \in S : j <= i
<1> DEFINE T == {n - i : i \in S}
<1>1. T \subseteq Nat
  BY DEF T
<1>2. T # {}
  BY DEF T
<1>3. PICK x \in T : \A y \in T : ~(<<y, x>> \in OpToRel(<, Nat))
  <2> HIDE DEF T
  <2> QED BY <1>1, <1>2, NatLessThanWellFounded, WFMin
<1>4. \A y \in T : ~(y < x)
  <2> HIDE DEF T
  <2> QED BY <1>1, <1>3 DEF OpToRel
<1>5. PICK i \in S : x = n - i
  BY <1>3 DEF T
<1>6. ASSUME NEW j \in S
      PROVE  j <= i
  <2>1. n - j \in T
    BY DEF T
  <2>2. ~(n - j < n - i)
    BY <2>1, <1>4, <1>5
  <2> QED BY <2>2
<1> QED BY <1>6

\* The next epoch's number is larger than that of every epoch file.
LEMMA NextIsLargest ==
    ASSUME TypeOK
    PROVE  NextEpochId \in Nat /\ \A i \in ListedIds : i < NextEpochId
<1>1. CASE ListedIds = {}
  BY <1>1 DEF NextEpochId
<1>2. CASE ListedIds # {}
  <2>1. ListedIds \subseteq 0..MaxEpoch
    BY DEF ListedIds, Ids
  <2>2. \E i \in ListedIds : \A j \in ListedIds : j <= i
    BY <1>2, <2>1, Largest, BoundsAssumption
  <2> DEFINE last == CHOOSE i \in ListedIds : \A j \in ListedIds : j <= i
  <2>3. last \in ListedIds /\ \A j \in ListedIds : j <= last
    BY <2>2
  <2>4. NextEpochId = 1 + last
    BY <1>2 DEF NextEpochId
  <2> HIDE DEF last
  <2> QED BY <2>1, <2>3, <2>4
<1> QED BY <1>1, <1>2

\* The next epoch id is listed nowhere yet.
LEMMA NextIsNew ==
    ASSUME TypeOK
    PROVE  NextEpochId \in Nat /\ NextEpochId \notin ListedIds
  BY NextIsLargest DEF ListedIds, Ids

\* The multisig's transaction index is a number.
LEMMA IndexType ==
    ASSUME TypeOK
    PROVE  TransactionIndex \in Nat
<1>1. IsFiniteSet(1..MaxIndex)
  BY FS_Interval, BoundsAssumption
<1> QED BY <1>1, FS_Subset, FS_CardinalityType DEF TypeOK, TransactionIndex

-----------------------------------------------------------------------------
(* Where requests are. *)

\* A request holds an epoch exactly while it works on one; only those that run an
\* epoch are at the steps of a run, and only publications at those of one.
StepsOK ==
    \A p \in Handlers :
        /\ pc[p] \in Working <=> epoch[p] # Absent
        /\ pc[p] \in {"check", "sample"} => p \in Runs
        /\ pc[p] \in {"read", "fetchIndex", "send", "confirm"} => p \in Publishers
        /\ pc[p] # "idle" => p \in setting.handlers

\* What the environment of a behaviour may be.
LEMMA SettingType ==
    ASSUME TypeOK
    PROVE  /\ setting.may \subseteq SituationNames /\ setting.handlers \subseteq Handlers
           /\ setting.epochs \in 0..MaxEpoch /\ setting.indices \in 1..MaxIndex
           /\ setting.time \in 0..MaxTime
  BY SettingsAssumption DEF TypeOK, Ids

\* A run that numbers its epoch holds an epoch of that number.
LEMMA NumberEffect ==
    ASSUME TypeOK, NEW p \in Runs, RunNumber(p)
    PROVE  /\ snapshots' \in 0..(MaxEpoch + 1)
           /\ \E e \in Epochs : /\ epoch' = [epoch EXCEPT ![p] = e]
                               /\ e.id = NextEpochId /\ e.snapshot = snapshots'
                               /\ e.endedAt = now /\ e.distributor = 0
<1> DEFINE numbered(empty) == [id |-> NextEpochId, snapshot |-> snapshots', endedAt |-> now,
                               empty |-> empty, distributor |-> 0]
<1>1. PICK empty \in BOOLEAN : epoch' = [epoch EXCEPT ![p] = numbered(empty)]
  BY DEF RunNumber
<1>2. NextEpochId \in Ids
  BY NextIsNew, SettingType, BoundsAssumption DEF RunNumber, Ids
<1>3. snapshots' \in Snapshots /\ snapshots' \in 0..(MaxEpoch + 1)
  BY SettingType, BoundsAssumption DEF RunNumber, Snapshots, TypeOK
<1>4. numbered(empty) \in Epochs
  BY <1>2, <1>3, BoundsAssumption DEF Epochs, TypeOK
<1>5. /\ numbered(empty).id = NextEpochId /\ numbered(empty).snapshot = snapshots'
      /\ numbered(empty).endedAt = now /\ numbered(empty).distributor = 0
  OBVIOUS
<1> QED BY <1>1, <1>3, <1>4, <1>5

\* A step of a run keeps the types.
LEMMA RunTypes ==
    ASSUME TypeOK, NEW p \in Runs, RunStep(p)
    PROVE  TypeOK'
<1>1. p \in Handlers
  BY DEF Runs, Handlers
<1>2. CASE StartRun(p) \/ RunCheck(p) \/ RunFails(p)
  BY <1>1, <1>2 DEF TypeOK, StartRun, RunCheck, RunFails, Goto, Steps, store, chain
<1>3. CASE RunNumber(p)
  <2>1. snapshots' \in 0..(MaxEpoch + 1) /\ epoch' \in [Handlers -> Epochs \cup {Absent}]
    BY <1>1, <1>3, NumberEffect DEF TypeOK
  <2> QED BY <1>1, <1>3, <2>1 DEF TypeOK, RunNumber, Goto, Steps, store, chain
<1> QED BY <1>2, <1>3 DEF RunStep, RunGoesOn

\* So does a step of a publication,
LEMMA PublishTypes ==
    ASSUME TypeOK, StepsOK, NEW p \in Publishers, PublishStep(p)
    PROVE  TypeOK'
<1>1. p \in Handlers
  BY DEF Handlers
<1>2. CASE StartPublish(p)
  BY <1>1, <1>2 DEF TypeOK, StartPublish, Goto, Steps, store, chain
<1>3. CASE PublishRead(p)
  <2>1. \A f \in Files : Read(f) \in Epochs \cup {Absent}
    BY DEF Read, TypeOK
  <2>2. epoch' \in [Handlers -> Epochs \cup {Absent}] /\ pc' \in [Handlers -> Steps]
    BY <1>1, <1>3, <2>1 DEF TypeOK, PublishRead, Goto, Steps, Files
  <2> QED BY <1>3, <2>2 DEF TypeOK, PublishRead, store, chain
<1>4. CASE PublishFetchIndex(p)
  BY <1>1, <1>4, SettingType, IndexType, BoundsAssumption
     DEF TypeOK, PublishFetchIndex, Goto, Steps, store, chain
<1>5. CASE PublishSend(p)
  <2> DEFINE sent == [index |-> index[p], id |-> epoch[p].id, snapshot |-> epoch[p].snapshot]
  <2>1. index[p] \in 1..MaxIndex
    BY <1>5, IndexType, BoundsAssumption DEF PublishSend, TypeOK
  <2>2. epoch[p] \in Epochs
    BY <1>1, <1>5 DEF PublishSend, TypeOK, StepsOK, Working
  <2>3. sent \in Proposals
    BY <2>1, <2>2 DEF Proposals, Epochs
  <2>4. flying' = flying \cup {<<p, sent>>} /\ settled' = settled \ {<<p, sent>>}
    BY <1>5 DEF PublishSend, OwnTx
  <2> HIDE DEF sent
  <2>5. flying' \subseteq Publishers \X Proposals /\ settled' \subseteq Publishers \X Proposals
    BY <2>3, <2>4 DEF TypeOK
  <2> QED BY <1>1, <1>5, <2>5 DEF TypeOK, PublishSend, Goto, Steps, store
<1>6. CASE PublishFails(p) \/ PublishConfirmFails(p)
  BY <1>1, <1>6, BoundsAssumption
     DEF TypeOK, PublishFails, PublishConfirmFails, Answer, Goto, Steps, store, chain
<1>8. CASE PublishSendLost(p)
  <2> DEFINE sent == [index |-> index[p], id |-> epoch[p].id, snapshot |-> epoch[p].snapshot]
  <2>1. index[p] \in 1..MaxIndex
    BY <1>8, IndexType, BoundsAssumption DEF PublishSendLost, TypeOK
  <2>2. epoch[p] \in Epochs
    BY <1>1, <1>8 DEF PublishSendLost, TypeOK, StepsOK, Working
  <2>3. sent \in Proposals
    BY <2>1, <2>2 DEF Proposals, Epochs
  <2>4. flying' = flying \cup {<<p, sent>>} /\ settled' = settled \ {<<p, sent>>}
    BY <1>8 DEF PublishSendLost, OwnTx
  <2> HIDE DEF sent
  <2>5. flying' \subseteq Publishers \X Proposals /\ settled' \subseteq Publishers \X Proposals
    BY <2>3, <2>4 DEF TypeOK
  <2> QED BY <1>1, <1>8, <2>5, BoundsAssumption DEF TypeOK, PublishSendLost, Answer,
      Goto, Steps, store
<1>7. CASE PublishConfirm(p)
  <2>1. epoch[p] \in Epochs /\ index[p] \in 0..MaxIndex
    BY <1>1, <1>7 DEF PublishConfirm, TypeOK, StepsOK, Working
  <2>2. [epoch[p] EXCEPT !.distributor = index[p]] \in Epochs
    BY <2>1 DEF Epochs
  <2>3. epoch' \in [Handlers -> Epochs \cup {Absent}]
    BY <1>1, <1>7, <2>2 DEF PublishConfirm, TypeOK
  <2> QED BY <1>1, <1>7, <2>3 DEF TypeOK, PublishConfirm, Goto, Steps, store, chain
<1> QED BY <1>2, <1>3, <1>4, <1>5, <1>6, <1>7, <1>8 DEF PublishStep, PublishGoesOn

\* A file is opened or filled: the epoch file, then latest.json.
LEMMA WriteEffect ==
    ASSUME TypeOK, StepsOK, NEW p \in Handlers, Write(p)
    PROVE  /\ epoch[p] \in Epochs
           /\ \E f \in {epoch[p].id, Latest}, text \in {epoch[p], Torn} :
                disk' = [disk EXCEPT ![f] = text]
           /\ pc[p] = "openFile" => disk' = [disk EXCEPT ![epoch[p].id] = Torn]
           /\ {epoch[p].id, Latest} \subseteq Files
           /\ \/ epoch' = epoch /\ pc' \in {[pc EXCEPT ![p] = s] :
                      s \in {"fillFile", "openLatest", "fillLatest"}}
              \/ epoch' = [epoch EXCEPT ![p] = Absent] /\ pc' = [pc EXCEPT ![p] = "idle"]
           /\ clash' \subseteq Handlers
           /\ index' \in [Publishers -> 0..MaxIndex]
           /\ UNCHANGED <<setting, chain, snapshots, now>>
<1>1. epoch[p] \in Epochs
  BY DEF StepsOK, TypeOK, Write, OpenFile, FillFile, OpenLatest, FillLatest, Working
<1>2. {epoch[p].id, Latest} \subseteq Files
  BY <1>1 DEF Epochs, Files
<1>3. CASE OpenFile(p)
  BY <1>1, <1>2, <1>3 DEF OpenFile, Open, Goto, TypeOK
<1>4. CASE OpenLatest(p)
  BY <1>1, <1>2, <1>4 DEF OpenLatest, Open, Goto, TypeOK
<1>5. CASE FillFile(p)
  BY <1>1, <1>2, <1>5 DEF FillFile, Fill, Goto, TypeOK
<1>6. CASE FillLatest(p)
  <2>1. index' \in [Publishers -> 0..MaxIndex]
    BY <1>6, BoundsAssumption DEF FillLatest, TypeOK
  <2>2. \E text \in {epoch[p], Torn} : disk' = [disk EXCEPT ![Latest] = text]
    BY <1>6 DEF FillLatest, Fill
  <2>3. /\ epoch' = [epoch EXCEPT ![p] = Absent] /\ pc' = [pc EXCEPT ![p] = "idle"]
        /\ clash' \subseteq Handlers /\ pc[p] # "openFile"
        /\ UNCHANGED <<setting, chain, snapshots, now>>
    BY <1>6 DEF FillLatest, Fill, Goto, TypeOK
  <2> QED BY <1>1, <1>2, <2>1, <2>2, <2>3
<1> QED BY <1>3, <1>4, <1>5, <1>6 DEF Write

\* one of a file being written,
LEMMA WriteTypes ==
    ASSUME TypeOK, StepsOK, NEW p \in Handlers, Write(p)
    PROVE  TypeOK'
<1>1. PICK f \in {epoch[p].id, Latest}, text \in {epoch[p], Torn} :
        disk' = [disk EXCEPT ![f] = text]
  BY WriteEffect
<1>2. disk' \in [Files -> Epochs \cup {Absent, Torn}]
  BY <1>1, WriteEffect DEF TypeOK
<1>3. epoch' \in [Handlers -> Epochs \cup {Absent}] /\ pc' \in [Handlers -> Steps]
  BY WriteEffect DEF TypeOK, Steps
<1>4. clash' \subseteq Handlers /\ index' \in [Publishers -> 0..MaxIndex]
      /\ UNCHANGED <<setting, chain, snapshots, now>>
  BY WriteEffect
<1> QED BY <1>2, <1>3, <1>4 DEF TypeOK, chain

\* A transaction added to the multisig.
LEMMA SquadsTypes ==
    ASSUME TypeOK, NEW i \in 1..MaxIndex, NEW content \in Contents, AddToSquads(i, content)
    PROVE  DOMAIN squads' \subseteq 1..MaxIndex /\ \A j \in DOMAIN squads' : squads'[j] \in Contents
  BY DEF TypeOK, AddToSquads

\* one of the chain, of another member or of the clock,
LEMMA ChainTypes ==
    ASSUME TypeOK,
           (\E tx \in flying : Execute(tx) \/ Expire(tx)) \/ OtherProposal \/ Tick
    PROVE  TypeOK'
<1>1. ASSUME NEW tx \in flying, Execute(tx)
      PROVE  TypeOK'
  <2>1. tx \in Publishers \X Proposals
    BY DEF TypeOK
  <2>2. tx[2] \in Proposals
    BY <2>1
  <2>3. /\ tx[2].index \in 1..MaxIndex
        /\ [id |-> tx[2].id, snapshot |-> tx[2].snapshot] \in Contents
    BY <2>2 DEF Proposals, Contents
  <2>4. DOMAIN squads' \subseteq 1..MaxIndex /\ \A j \in DOMAIN squads' : squads'[j] \in Contents
    BY <1>1, <2>3, SquadsTypes DEF Execute, TypeOK
  <2>5. flying' \subseteq Publishers \X Proposals /\ settled' \subseteq Publishers \X Proposals
    BY <1>1, <2>1 DEF Execute, TypeOK
  <2> QED BY <1>1, <2>4, <2>5 DEF Execute, TypeOK, store
<1>2. ASSUME NEW tx \in flying, Expire(tx)
      PROVE  TypeOK'
  BY <1>2 DEF Expire, TypeOK, store
<1>3. CASE OtherProposal
  <2>1. TransactionIndex + 1 \in 1..MaxIndex
    BY <1>3, SettingType, IndexType, BoundsAssumption DEF OtherProposal
  <2>2. DOMAIN squads' \subseteq 1..MaxIndex /\ \A j \in DOMAIN squads' : squads'[j] \in Contents
    BY <1>3, <2>1, SquadsTypes DEF OtherProposal, Contents
  <2> QED BY <1>3, <2>2 DEF OtherProposal, TypeOK, store
<1>4. CASE Tick
  BY <1>4, SettingType, BoundsAssumption DEF Tick, TypeOK, store, chain
<1> QED BY <1>1, <1>2, <1>3, <1>4

\* and a crash.
LEMMA CrashTypes ==
    ASSUME TypeOK, NEW procs, Crash(procs)
    PROVE  TypeOK'
<1>1. epoch' \in [Handlers -> Epochs \cup {Absent}] /\ pc' \in [Handlers -> Steps]
  BY DEF Crash, TypeOK, Steps
<1>2. index' \in [Publishers -> 0..MaxIndex]
  BY BoundsAssumption DEF Crash, TypeOK
<1> QED BY <1>1, <1>2 DEF Crash, TypeOK, chain

\* Every step keeps the types,
LEMMA TypesStep ==
    ASSUME TypeOK, StepsOK, [Next]_vars
    PROVE  TypeOK'
<1>1. CASE UNCHANGED vars
  BY <1>1 DEF vars, store, chain, TypeOK
<1> QED BY <1>1, RunTypes, PublishTypes, WriteTypes, ChainTypes, CrashTypes DEF Next, Runs

\* and what each program counter implies.
LEMMA StepsStep ==
    ASSUME TypeOK, StepsOK, [Next]_vars
    PROVE  StepsOK'
<1> USE SentinelAssumption
<1>1. ASSUME NEW p \in Runs, RunStep(p)
      PROVE  StepsOK'
  <2>1. p \in Handlers
    BY DEF Runs, Handlers
  <2>2. CASE StartRun(p) \/ RunCheck(p) \/ RunFails(p)
    BY <2>1, <2>2 DEF StepsOK, TypeOK, StartRun, RunCheck, RunFails, MayStart, Goto, Working
  <2>3. CASE RunNumber(p)
    <3>1. epoch'[p] # Absent /\ \A q \in Handlers \ {p} : epoch'[q] = epoch[q]
      BY <2>1, <2>3, NumberEffect DEF TypeOK
    <3>2. pc[p] = "sample" /\ pc' = [pc EXCEPT ![p] = "openFile"] /\ UNCHANGED setting
      BY <2>3 DEF RunNumber, Goto
    <3> QED BY <2>1, <3>1, <3>2 DEF StepsOK, TypeOK, Working
  <2> QED BY <1>1, <2>2, <2>3 DEF RunStep, RunGoesOn
<1>2. ASSUME NEW p \in Publishers, PublishStep(p)
      PROVE  StepsOK'
  <2>1. p \in Handlers
    BY DEF Handlers
  <2>2. CASE StartPublish(p) \/ PublishFetchIndex(p) \/ PublishSend(p)
    BY <2>1, <2>2 DEF StepsOK, TypeOK, StartPublish, PublishFetchIndex, PublishSend,
                      MayStart, Goto, Working
  <2>3. CASE PublishRead(p)
    <3>1. \/ pc' = [pc EXCEPT ![p] = "idle"] /\ epoch' = epoch
          \/ /\ pc' = [pc EXCEPT ![p] = "fetchIndex"]
             /\ \E e : e # Absent /\ epoch' = [epoch EXCEPT ![p] = e]
      BY <2>3 DEF PublishRead, Goto
    <3>2. pc[p] = "read" /\ UNCHANGED setting
      BY <2>3 DEF PublishRead
    <3> QED BY <2>1, <3>1, <3>2 DEF StepsOK, TypeOK, Working
  <2>4. CASE PublishFails(p) \/ PublishSendLost(p) \/ PublishConfirmFails(p)
    BY <2>1, <2>4 DEF StepsOK, TypeOK, PublishFails, PublishSendLost,
        PublishConfirmFails, Answer, Goto,
       Working
  <2>5. CASE PublishConfirm(p)
    <3>1. epoch[p] \in Epochs
      BY <2>1, <2>5 DEF StepsOK, TypeOK, PublishConfirm, Working
    <3>2. [epoch[p] EXCEPT !.distributor = index[p]] # Absent
      <4>1. index[p] \in 0..MaxIndex
        BY DEF TypeOK
      <4>2. [epoch[p] EXCEPT !.distributor = index[p]] \in Epochs
        BY <3>1, <4>1 DEF Epochs
      <4> QED BY <4>2
    <3>3. /\ epoch' = [epoch EXCEPT ![p] = [epoch[p] EXCEPT !.distributor = index[p]]]
          /\ pc[p] = "confirm" /\ pc' = [pc EXCEPT ![p] = "openFile"] /\ UNCHANGED setting
      BY <2>1, <2>5 DEF PublishConfirm, Goto, TypeOK
    <3> QED BY <2>1, <3>2, <3>3 DEF StepsOK, TypeOK, Working
  <2> QED BY <1>2, <2>2, <2>3, <2>4, <2>5 DEF PublishStep, PublishGoesOn
<1>3. ASSUME NEW p \in Handlers, Write(p)
      PROVE  StepsOK'
  <2>1. pc[p] # "idle" /\ epoch[p] # Absent
    BY <1>3, WriteEffect DEF StepsOK, Working
  <2>2. \/ epoch' = epoch /\ pc' \in {[pc EXCEPT ![p] = s] :
                      s \in {"fillFile", "openLatest", "fillLatest"}}
        \/ epoch' = [epoch EXCEPT ![p] = Absent] /\ pc' = [pc EXCEPT ![p] = "idle"]
    BY <1>3, WriteEffect
  <2>3. UNCHANGED setting
    BY <1>3, WriteEffect
  <2> QED BY <2>1, <2>2, <2>3 DEF StepsOK, TypeOK, Working
<1>4. CASE \/ \E tx \in flying : Execute(tx) \/ Expire(tx)
           \/ OtherProposal \/ Tick \/ UNCHANGED vars
  <2>1. UNCHANGED <<setting, pc, epoch>>
    BY <1>4 DEF Execute, Expire, OtherProposal, Tick, vars
  <2> QED BY <2>1 DEF StepsOK
<1>5. ASSUME NEW procs, Crash(procs)
      PROVE  StepsOK'
  BY <1>5 DEF Crash, StepsOK, TypeOK, Working
<1> QED BY <1>1, <1>2, <1>3, <1>4, <1>5 DEF Next, Runs

\* The setting is chosen once.
LEMMA SettingStays ==
    ASSUME TypeOK, StepsOK, [Next]_vars
    PROVE  UNCHANGED setting
  BY WriteEffect DEF Next, RunStep, RunGoesOn, StartRun, RunCheck, RunFails, RunNumber,
     PublishStep, PublishGoesOn,
     StartPublish, PublishRead, PublishFetchIndex, PublishSend, PublishFails,
         PublishSendLost, PublishConfirm,
     PublishConfirmFails, Execute, Expire, OtherProposal, Tick, Crash, vars

\* Unless requests overlap, one at most is under way.
InTurn ==
    ~May("overlap") => \A p, q \in Handlers : pc[p] # "idle" /\ pc[q] # "idle" => p = q

\* Runs that do not overlap stay so.
LEMMA InTurnStep ==
    ASSUME TypeOK, StepsOK, InTurn, [Next]_vars
    PROVE  InTurn'
<1> SUFFICES ASSUME ~May("overlap")
             PROVE  \A p, q \in Handlers : pc'[p] # "idle" /\ pc'[q] # "idle" => p = q
  BY SettingStays DEF InTurn, May
<1>1. ASSUME NEW p \in Handlers, \A q \in Handlers \ {p} : pc'[q] = pc[q],
             pc[p] # "idle" \/ MayStart(p)
      PROVE  \A q, r \in Handlers : pc'[q] # "idle" /\ pc'[r] # "idle" => q = r
  BY <1>1 DEF InTurn, MayStart
<1>2. ASSUME NEW p \in Runs, RunStep(p)
      PROVE  \A q, r \in Handlers : pc'[q] # "idle" /\ pc'[r] # "idle" => q = r
  <2>1. p \in Handlers /\ (pc[p] # "idle" \/ MayStart(p))
    BY <1>2 DEF Runs, Handlers, RunStep, RunGoesOn, StartRun, RunCheck, RunFails, RunNumber
  <2>2. \A q \in Handlers \ {p} : pc'[q] = pc[q]
    BY <1>2, <2>1 DEF RunStep, RunGoesOn, StartRun, RunCheck, RunFails, RunNumber, Goto,
       TypeOK
  <2> QED BY <1>1, <2>1, <2>2
<1>3. ASSUME NEW p \in Publishers, PublishStep(p)
      PROVE  \A q, r \in Handlers : pc'[q] # "idle" /\ pc'[r] # "idle" => q = r
  <2>1. p \in Handlers /\ (pc[p] # "idle" \/ MayStart(p))
    BY <1>3 DEF Handlers, PublishStep, PublishGoesOn, StartPublish, PublishRead,
       PublishFetchIndex, PublishSend,
       PublishFails, PublishSendLost, PublishConfirm, PublishConfirmFails
  <2>2. \A q \in Handlers \ {p} : pc'[q] = pc[q]
    BY <1>3, <2>1 DEF PublishStep, PublishGoesOn, StartPublish, PublishRead,
       PublishFetchIndex, PublishSend,
       PublishFails, PublishSendLost, PublishConfirm, PublishConfirmFails, Answer, Goto, TypeOK
  <2> QED BY <1>1, <2>1, <2>2
<1>4. ASSUME NEW p \in Handlers, Write(p)
      PROVE  \A q, r \in Handlers : pc'[q] # "idle" /\ pc'[r] # "idle" => q = r
  <2>1. pc[p] # "idle" /\ \A q \in Handlers \ {p} : pc'[q] = pc[q]
    BY <1>4, WriteEffect DEF Write, OpenFile, FillFile, OpenLatest, FillLatest, TypeOK
  <2> QED BY <1>1, <2>1
<1>5. ASSUME NEW procs, Crash(procs)
      PROVE  \A q, r \in Handlers : pc'[q] # "idle" /\ pc'[r] # "idle" => q = r
  BY <1>5 DEF Crash, InTurn
<1>6. CASE \/ \E tx \in flying : Execute(tx) \/ Expire(tx)
           \/ OtherProposal \/ Tick \/ UNCHANGED vars
  <2>1. UNCHANGED pc
    BY <1>6 DEF Execute, Expire, OtherProposal, Tick, vars
  <2> QED BY <2>1 DEF InTurn
<1> QED BY <1>2, <1>3, <1>4, <1>5, <1>6 DEF Next, Runs

\* Then, or with one handler of runs, one run at most is under way.
LEMMA OneRunning ==
    ASSUME StepsOK, InTurn, OneRun, NEW p \in Runs, NEW q \in Runs,
           pc[p] # "idle", pc[q] # "idle"
    PROVE  p = q
<1>1. {p, q} \subseteq Handlers
  BY DEF Runs, Handlers
<1>2. {p, q} \subseteq setting.handlers \cap Runs
  BY <1>1 DEF StepsOK
<1> QED BY <1>1, <1>2 DEF OneRun, InTurn, Runs

-----------------------------------------------------------------------------
(* What is known of an epoch id, and where. *)

Says(e, id, snapshot) == e \in Epochs /\ e.id = id /\ e.snapshot = snapshot
OnFile(id, snapshot) == \E f \in Files : Says(disk[f], id, snapshot)
Sent(id, snapshot) == \E tx \in flying : tx[2].id = id /\ tx[2].snapshot = snapshot
InSquads(id, snapshot) ==
    \E i \in DOMAIN squads : squads[i] = [id |-> id, snapshot |-> snapshot]

\* A run that has numbered its epoch but has not opened the file of that number.
Unlisted(p) == p \in Runs /\ pc[p] = "openFile"

Known(id, snapshot) ==
    \/ OnFile(id, snapshot) \/ Sent(id, snapshot) \/ InSquads(id, snapshot)
    \/ \E p \in Handlers : Says(epoch[p], id, snapshot)

Kept(id, snapshot) ==
    \/ OnFile(id, snapshot) \/ Sent(id, snapshot) \/ InSquads(id, snapshot)
    \/ \E p \in Handlers : ~Unlisted(p) /\ Says(epoch[p], id, snapshot)

\* An id that is known beyond such a run has a file, so it is not given again.
Listed ==
    \A id \in Ids, snapshot \in Snapshots : Kept(id, snapshot) => disk[id] # Absent

Agree ==
    \A id \in Ids, s1, s2 \in Snapshots : Known(id, s1) /\ Known(id, s2) => s1 = s2

\* A step that numbers no epoch makes nothing known, and no file disappears.
Persists(id, snapshot) ==
    /\ Known(id, snapshot)' => Known(id, snapshot)
    /\ Kept(id, snapshot)' => Kept(id, snapshot) \/ disk'[id] # Absent
    /\ disk[id] # Absent => disk'[id] # Absent

\* The early steps of a run forget no epoch's snapshot.
LEMMA RunPersists ==
    ASSUME TypeOK, StepsOK, NEW p \in Runs, StartRun(p) \/ RunCheck(p) \/ RunFails(p),
           NEW id \in Ids, NEW snapshot \in Snapshots
    PROVE  Persists(id, snapshot)
<1>1. /\ UNCHANGED <<disk, epoch, flying, squads>> /\ pc[p] # "openFile"
      /\ \A q \in Handlers \ {p} : pc'[q] = pc[q]
  BY DEF StartRun, RunCheck, RunFails, MayStart, Goto, store, chain, TypeOK
<1> QED BY <1>1 DEF Persists, Known, Kept, OnFile, Sent, InSquads, Unlisted

\* Nor does a publication,
LEMMA PublishPersists ==
    ASSUME TypeOK, StepsOK, NEW p \in Publishers, PublishStep(p),
           NEW id \in Ids, NEW snapshot \in Snapshots
    PROVE  Persists(id, snapshot)
<1> USE SentinelAssumption DEF Runs
<1>1. p \in Handlers /\ ~Unlisted(p)
  BY DEF Handlers, Unlisted
<1>2. UNCHANGED <<disk, squads>> /\ \A q \in Handlers \ {p} : pc'[q] = pc[q]
  BY DEF PublishStep, PublishGoesOn, StartPublish, PublishRead, PublishFetchIndex,
     PublishSend, PublishFails, PublishSendLost,
         PublishConfirm, PublishConfirmFails, Answer, Goto, store, chain, TypeOK
<1>3. ~Unlisted(p)' /\ \A q \in Handlers \ {p} : Unlisted(q)' <=> Unlisted(q)
  BY <1>1, <1>2 DEF Unlisted
<1>4. CASE StartPublish(p) \/ PublishFetchIndex(p)
  <2>1. UNCHANGED <<epoch, flying>>
    BY <1>4 DEF StartPublish, PublishFetchIndex, chain
  <2> QED BY <1>1, <1>2, <1>3, <2>1 DEF Persists, Known, Kept, OnFile, Sent, InSquads
<1>5. CASE PublishRead(p)
  <2>1. UNCHANGED flying /\ \A q \in Handlers \ {p} : epoch'[q] = epoch[q]
    BY <1>5 DEF PublishRead, chain, TypeOK
  <2>2. epoch'[p] = epoch[p] \/ \E f \in Files : epoch'[p] = Read(f) /\ Read(f) # Absent
    BY <1>1, <1>5 DEF PublishRead, TypeOK, Files
  <2>3. Says(epoch'[p], id, snapshot) => Says(epoch[p], id, snapshot) \/ OnFile(id, snapshot)
    BY <2>2 DEF Says, OnFile, Read
  <2> QED BY <1>1, <1>2, <1>3, <2>1, <2>3 DEF Persists, Known, Kept, OnFile, Sent, InSquads
<1>6. CASE PublishSend(p)
  <2>1. /\ UNCHANGED epoch
        /\ flying' = flying \cup {<<p, [index |-> index[p], id |-> epoch[p].id,
                                       snapshot |-> epoch[p].snapshot]>>}
        /\ epoch[p] \in Epochs
    BY <1>1, <1>6 DEF PublishSend, OwnTx, StepsOK, TypeOK, Working
  <2>2. Sent(id, snapshot)' => Sent(id, snapshot) \/ Says(epoch[p], id, snapshot)
    BY <2>1 DEF Sent, Says
  <2> QED BY <1>1, <1>2, <1>3, <2>1, <2>2 DEF Persists, Known, Kept, OnFile, InSquads
<1>9. CASE PublishSendLost(p)
  <2>1. /\ epoch'[p] = Absent /\ \A q \in Handlers \ {p} : epoch'[q] = epoch[q]
        /\ flying' = flying \cup {<<p, [index |-> index[p], id |-> epoch[p].id,
                                       snapshot |-> epoch[p].snapshot]>>}
        /\ epoch[p] \in Epochs
    BY <1>1, <1>9 DEF PublishSendLost, Answer, OwnTx, StepsOK, TypeOK, Working
  <2>2. Sent(id, snapshot)' => Sent(id, snapshot) \/ Says(epoch[p], id, snapshot)
    BY <2>1 DEF Sent, Says
  <2> QED BY <1>1, <1>2, <1>3, <2>1, <2>2 DEF Persists, Known, Kept, OnFile, InSquads, Says
<1>7. CASE PublishFails(p) \/ PublishConfirmFails(p)
  <2>1. UNCHANGED flying /\ epoch'[p] = Absent /\ \A q \in Handlers \ {p} : epoch'[q] = epoch[q]
    BY <1>1, <1>7 DEF PublishFails, PublishConfirmFails, Answer, chain, TypeOK
  <2> QED BY <1>1, <1>2, <1>3, <2>1 DEF Persists, Known, Kept, OnFile, Sent, InSquads, Says
<1>8. CASE PublishConfirm(p)
  <2>1. /\ UNCHANGED flying /\ epoch[p] \in Epochs
        /\ epoch'[p] = [epoch[p] EXCEPT !.distributor = index[p]]
        /\ \A q \in Handlers \ {p} : epoch'[q] = epoch[q]
    BY <1>1, <1>8 DEF PublishConfirm, StepsOK, TypeOK, Working, chain
  <2>2. Says(epoch'[p], id, snapshot) => Says(epoch[p], id, snapshot)
    BY <2>1 DEF Says, Epochs
  <2> QED BY <1>1, <1>2, <1>3, <2>1, <2>2 DEF Persists, Known, Kept, OnFile, Sent, InSquads
<1> QED BY <1>4, <1>5, <1>6, <1>7, <1>8, <1>9 DEF PublishStep, PublishGoesOn

\* nor a write: the file it truncates is still the request's to fill,
LEMMA WritePersists ==
    ASSUME TypeOK, StepsOK, NEW p \in Handlers, Write(p),
           NEW id \in Ids, NEW snapshot \in Snapshots
    PROVE  Persists(id, snapshot)
<1> USE SentinelAssumption
<1>1. PICK f \in {epoch[p].id, Latest}, text \in {epoch[p], Torn} :
        disk' = [disk EXCEPT ![f] = text]
  BY WriteEffect
<1>2. /\ epoch[p] \in Epochs /\ f \in Files /\ text # Absent
      /\ UNCHANGED <<flying, squads>>
  <2>1. epoch[p] \in Epochs /\ {epoch[p].id, Latest} \subseteq Files /\ UNCHANGED chain
    BY WriteEffect
  <2> QED BY <1>1, <2>1 DEF chain
<1>3. /\ \A q \in Handlers \ {p} : pc'[q] = pc[q] /\ epoch'[q] = epoch[q]
      /\ epoch'[p] \in {epoch[p], Absent}
  BY WriteEffect DEF TypeOK
<1>4. OnFile(id, snapshot)' => OnFile(id, snapshot) \/ (text = epoch[p] /\ Says(text, id, snapshot))
  BY <1>1, <1>2 DEF OnFile, Says, TypeOK
<1>5. disk[id] # Absent => disk'[id] # Absent
  BY <1>1, <1>2 DEF TypeOK, Files
<1>6. CASE Unlisted(p)
  <2>1. disk' = [disk EXCEPT ![epoch[p].id] = Torn]
    BY <1>6, WriteEffect DEF Unlisted
  <2>2. disk'[epoch[p].id] # Absent
    BY <2>1, <1>2 DEF TypeOK, Files, Epochs
  <2>3. OnFile(id, snapshot)' => OnFile(id, snapshot)
    BY <2>1, <1>2 DEF OnFile, Says, TypeOK, Files, Epochs
  <2>4. Says(epoch'[p], id, snapshot) => disk'[id] # Absent /\ Says(epoch[p], id, snapshot)
    BY <1>3, <2>2 DEF Says
  <2> QED BY <1>2, <1>3, <1>5, <2>3, <2>4 DEF Persists, Known, Kept, Sent, InSquads,
     Unlisted
<1>7. CASE ~Unlisted(p)
  <2>1. Says(epoch'[p], id, snapshot) => Says(epoch[p], id, snapshot)
    BY <1>3 DEF Says
  <2> QED BY <1>2, <1>3, <1>4, <1>5, <1>7, <2>1 DEF Persists, Known, Kept, Sent,
     InSquads, Unlisted
<1> QED BY <1>6, <1>7

\* nor the chain,
LEMMA ChainPersists ==
    ASSUME TypeOK,
           (\E tx \in flying : Execute(tx) \/ Expire(tx)) \/ OtherProposal \/ Tick,
           NEW id \in Ids, NEW snapshot \in Snapshots
    PROVE  Persists(id, snapshot)
<1>1. UNCHANGED <<disk, epoch, pc>>
  BY DEF Execute, Expire, OtherProposal, Tick, store
<1>2. Sent(id, snapshot)' => Sent(id, snapshot)
  BY DEF Sent, Execute, Expire, OtherProposal, Tick, chain
<1>3. InSquads(id, snapshot)' => InSquads(id, snapshot) \/ Sent(id, snapshot)
  <2>1. ASSUME NEW tx \in flying, Execute(tx)
        PROVE  InSquads(id, snapshot)' => InSquads(id, snapshot) \/ Sent(id, snapshot)
    BY <2>1 DEF Execute, AddToSquads, InSquads, Sent
  <2>2. CASE OtherProposal
    <3>1. Foreign # [id |-> id, snapshot |-> snapshot]
      BY BoundsAssumption DEF Foreign, Ids
    <3> QED BY <2>2, <3>1 DEF OtherProposal, AddToSquads, InSquads
  <2>3. CASE Tick \/ \E tx \in flying : Expire(tx)
    BY <2>3 DEF Tick, Expire, InSquads, chain
  <2> QED BY <2>1, <2>2, <2>3
<1> QED BY <1>1, <1>2, <1>3 DEF Persists, Known, Kept, OnFile, Unlisted

\* nor a crash, which leaves files and the multisig.
LEMMA CrashPersists ==
    ASSUME TypeOK, NEW procs, Crash(procs), NEW id \in Ids, NEW snapshot \in Snapshots
    PROVE  Persists(id, snapshot)
<1> USE SentinelAssumption
<1>1. UNCHANGED <<disk, flying, squads>>
  BY DEF Crash, chain
<1>2. \A q \in Handlers : \/ epoch'[q] = Absent
                          \/ epoch'[q] = epoch[q] /\ pc'[q] = pc[q]
  BY DEF Crash
<1> QED BY <1>1, <1>2 DEF Persists, Known, Kept, OnFile, Sent, InSquads, Unlisted, Says

\* The number given to an epoch is new, and what else is known stays.
LEMMA NumberNew ==
    ASSUME TypeOK, StepsOK, InTurn, OneRun, Listed, NEW p \in Runs, RunNumber(p),
           NEW id \in Ids, NEW snapshot \in Snapshots
    PROVE  /\ Known(id, snapshot) => id # NextEpochId
           /\ Known(id, snapshot)' =>
                Known(id, snapshot) \/ (id = NextEpochId /\ snapshot = snapshots')
           /\ Kept(id, snapshot)' => Kept(id, snapshot)
           /\ UNCHANGED disk
<1>1. p \in Handlers
  BY DEF Runs, Handlers
<1>2. /\ UNCHANGED <<disk, flying, squads>>
      /\ pc[p] = "sample" /\ pc' = [pc EXCEPT ![p] = "openFile"]
  BY DEF RunNumber, Goto, store, chain
<1>3. PICK e \in Epochs : /\ epoch' = [epoch EXCEPT ![p] = e]
                         /\ e.id = NextEpochId /\ e.snapshot = snapshots'
  BY NumberEffect
<1>4. \A q \in Handlers : ~Unlisted(q)
  <2> SUFFICES ASSUME NEW q \in Handlers, Unlisted(q) PROVE FALSE
    OBVIOUS
  <2>1. p = q
    BY <1>2, OneRunning DEF Unlisted
  <2> QED BY <1>2, <2>1 DEF Unlisted
<1>5. Known(id, snapshot) => disk[id] # Absent
  BY <1>4 DEF Known, Kept, Listed
<1>6. disk[id] # Absent => id # NextEpochId
  BY NextIsNew DEF ListedIds
<1>7. \A q \in Handlers \ {p} : epoch'[q] = epoch[q] /\ pc'[q] = pc[q]
  BY <1>1, <1>2, <1>3 DEF TypeOK
<1>8. Unlisted(p)' /\ epoch'[p] = e
  BY <1>1, <1>2, <1>3 DEF Unlisted, TypeOK
<1>9. /\ OnFile(id, snapshot)' <=> OnFile(id, snapshot)
      /\ Sent(id, snapshot)' <=> Sent(id, snapshot)
      /\ InSquads(id, snapshot)' <=> InSquads(id, snapshot)
  BY <1>2 DEF OnFile, Sent, InSquads
<1>10. \A q \in Handlers \ {p} : Unlisted(q)' <=> Unlisted(q)
  BY <1>7 DEF Unlisted
<1>11. Known(id, snapshot)' => Known(id, snapshot) \/ (id = NextEpochId /\ snapshot = snapshots')
  BY <1>3, <1>7, <1>8, <1>9 DEF Known, Says
<1>12. Kept(id, snapshot)' => Kept(id, snapshot)
  <2>1. Kept(id, snapshot)' <=> \/ OnFile(id, snapshot)' \/ Sent(id, snapshot)'
                                \/ InSquads(id, snapshot)'
                                \/ \E q \in Handlers : ~Unlisted(q)' /\ Says(epoch'[q], id, snapshot)
    BY DEF Kept, Says
  <2>2. ASSUME NEW q \in Handlers, ~Unlisted(q)', Says(epoch'[q], id, snapshot)
        PROVE  ~Unlisted(q) /\ Says(epoch[q], id, snapshot)
    <3>1. q # p
      BY <1>8, <2>2
    <3> QED BY <1>7, <1>10, <2>2, <3>1
  <2> QED BY <1>9, <2>1, <2>2 DEF Kept
<1> QED BY <1>2, <1>5, <1>6, <1>11, <1>12

-----------------------------------------------------------------------------
(* The invariant. *)

IInv == TypeOK /\ StepsOK /\ InTurn /\ (OneRun => Listed /\ Agree)

\* Nothing is stored and nobody runs.
LEMMA InitInv == Init => IInv
<1> USE SentinelAssumption, BoundsAssumption
<1> SUFFICES ASSUME Init PROVE IInv
  OBVIOUS
<1>1. TypeOK
  BY DEF Init, TypeOK, Steps
<1>2. StepsOK
  BY DEF Init, StepsOK, Working
<1>3. \A id, snapshot : ~Known(id, snapshot) /\ ~Kept(id, snapshot)
  BY DEF Init, Known, Kept, OnFile, Sent, InSquads, Says
<1>4. InTurn
  BY DEF Init, InTurn
<1> QED BY <1>1, <1>2, <1>3, <1>4 DEF IInv, Listed, Agree

\* Every step keeps that an epoch id means one snapshot.
LEMMA Step == IInv /\ [Next]_vars => IInv'
<1> SUFFICES ASSUME IInv, [Next]_vars PROVE IInv'
  OBVIOUS
<1>1. TypeOK' /\ StepsOK' /\ InTurn'
  BY TypesStep, StepsStep, InTurnStep DEF IInv
<1>2. UNCHANGED setting
  BY SettingStays DEF IInv
<1>3. ASSUME OneRun PROVE Listed' /\ Agree'
  <2> USE <1>3 DEF IInv
  <2>1. CASE \E p \in Runs : RunNumber(p)
    <3> PICK p \in Runs : RunNumber(p)
      BY <2>1
    <3>1. Listed'
      BY NumberNew DEF Listed
    <3>2. Agree'
      BY NumberNew DEF Agree
    <3> QED BY <3>1, <3>2
  <2>2. CASE ~\E p \in Runs : RunNumber(p)
    <3>1. ASSUME NEW id \in Ids, NEW snapshot \in Snapshots
          PROVE  Persists(id, snapshot)
      <4>1. CASE UNCHANGED vars
        BY <4>1 DEF vars, store, chain, Persists, Known, Kept, OnFile, Sent, InSquads,
           Unlisted
      <4> QED BY <4>1, <2>2, RunPersists, PublishPersists, WritePersists, ChainPersists,
                 CrashPersists DEF Next, RunStep, RunGoesOn, Runs
    <3>2. Listed'
      BY <3>1 DEF Listed, Persists
    <3>3. Agree'
      BY <3>1 DEF Agree, Persists
    <3> QED BY <3>2, <3>3
  <2> QED BY <2>1, <2>2
<1> QED BY <1>1, <1>2, <1>3 DEF IInv, OneRun, May

\* So it always holds.
LEMMA Invariance == Spec => []IInv
  BY InitInv, Step, PTL DEF Spec

\* Files, requests and proposals have their types.
THEOREM RewardsTypeCorrect == Spec => []TypeOK
<1>1. IInv => TypeOK
  BY DEF IInv
<1> QED BY <1>1, Invariance, PTL

\* An epoch id stands for one snapshot, through crashes, torn files and overlapping
\* publications, as long as one run-epoch is served at a time.
THEOREM OneSnapshotPerEpochHolds == Spec => []OneSnapshotPerEpoch
<1>1. ASSUME IInv PROVE OneSnapshotPerEpoch
  <2> SUFFICES ASSUME OneRun, NEW a \in OnDisk \cup Held \cup Proposed,
                      NEW b \in OnDisk \cup Held \cup Proposed, a.id = b.id
               PROVE  a.snapshot = b.snapshot
    BY DEF OneSnapshotPerEpoch
  <2>1. ASSUME NEW e \in OnDisk \cup Held \cup Proposed
        PROVE  e.id \in Ids /\ e.snapshot \in Snapshots /\ Known(e.id, e.snapshot)
    <3>1. CASE e \in OnDisk
      <4>1. PICK f \in Files : e = disk[f] /\ e \in Epochs
        BY <1>1, <3>1 DEF IInv, TypeOK, OnDisk, EpochById, EpochLatest, Read, Files
      <4> QED BY <4>1 DEF Known, OnFile, Says, Epochs
    <3>2. CASE e \in Held
      <4>1. PICK p \in Handlers : e = epoch[p] /\ e \in Epochs
        BY <1>1, <3>2 DEF IInv, TypeOK, Held
      <4> QED BY <4>1 DEF Known, Says, Epochs
    <3>3. CASE e \in Proposed
      <4>1. PICK i \in DOMAIN squads : e = squads[i] /\ e \in [id : Ids, snapshot : Snapshots]
        BY <1>1, <3>3 DEF IInv, TypeOK, Proposed, Contents
      <4>2. e = [id |-> e.id, snapshot |-> e.snapshot]
        BY <4>1
      <4> QED BY <4>1, <4>2 DEF Known, InSquads
    <3> QED BY <2>1, <3>1, <3>2, <3>3
  <2> QED BY <1>1, <2>1 DEF IInv, Agree
<1> QED BY <1>1, Invariance, PTL

-----------------------------------------------------------------------------
(* The store when requests are made in order. *)

Writing(p) == pc[p] \in {"fillFile", "openLatest", "fillLatest"}

\* One request at a time, so nobody writes into another's file; an epoch's file is
\* named for it; unless it is being rewritten, latest.json is the newest epoch,
\* and so is the one a request works on.
Newest(e) == \A i \in Ids : disk[i] # Absent => i <= e.id
Ordered ==
    /\ \A p, q \in Handlers : pc[p] # "idle" /\ pc[q] # "idle" => p = q
    /\ clash = {}
    /\ \A f \in Ids : disk[f] \in Epochs => disk[f].id = f
    /\ disk[Latest] = Torn => \E p \in Handlers : pc[p] = "fillLatest"
    /\ (\A p \in Handlers : ~Writing(p)) =>
          /\ disk[Latest] = Absent => \A i \in Ids : disk[i] = Absent
          /\ disk[Latest] \in Epochs => Newest(disk[Latest])
    /\ \A p \in Handlers : pc[p] \in Working => Newest(epoch[p])

OInv == TypeOK /\ StepsOK /\ (InOrder => Ordered)

\* A run in order: the id it takes is beyond all that are listed.
LEMMA OrderedRun ==
    ASSUME TypeOK, StepsOK, Ordered, InOrder, NEW p \in Runs, RunStep(p)
    PROVE  Ordered'
<1>1. p \in Handlers /\ ~Writing(p)
  BY SentinelAssumption DEF Runs, Handlers, Writing, RunStep, RunGoesOn, StartRun,
     MayStart, RunCheck, RunFails,
     RunNumber
<1>2. UNCHANGED <<disk, clash>>
  BY DEF RunStep, RunGoesOn, StartRun, RunCheck, RunFails, RunNumber, store
<1>3. \A q \in Handlers \ {p} : pc'[q] = pc[q] /\ pc[q] = "idle"
  BY <1>1 DEF RunStep, RunGoesOn, StartRun, RunCheck, RunFails, RunNumber, Goto,
     MayStart, May, InOrder,
     Ordered, TypeOK
<1>4. \A q \in Handlers : ~Writing(q) /\ ~Writing(q)'
  BY <1>1, <1>3 DEF Writing, RunStep, RunGoesOn, StartRun, RunCheck, RunFails,
     RunNumber, Goto, TypeOK
<1>5. disk[Latest] # Torn
  BY <1>4 DEF Ordered, Writing
<1>6. CASE ~RunNumber(p)
  <2>1. UNCHANGED epoch /\ pc'[p] \notin Working
    BY <1>1, <1>6 DEF RunStep, RunGoesOn, StartRun, RunCheck, RunFails, Goto, TypeOK,
       Working
  <2> QED BY <1>1, <1>2, <1>3, <1>4, <1>5, <2>1 DEF Ordered, Newest, Working
<1>7. CASE RunNumber(p)
  <2>1. PICK e \in Epochs : epoch' = [epoch EXCEPT ![p] = e] /\ e.id = NextEpochId
    BY <1>7, NumberEffect
  <2>2. \A i \in ListedIds : i <= NextEpochId
    BY NextIsLargest, NextIsNew DEF ListedIds, Ids
  <2>3. Newest(e)'
    BY <1>2, <2>1, <2>2 DEF Newest, ListedIds
  <2>4. epoch'[p] = e
    BY <1>1, <2>1 DEF TypeOK
  <2> QED BY <1>1, <1>2, <1>3, <1>4, <1>5, <2>3, <2>4 DEF Ordered, Newest, Working
<1> QED BY <1>6, <1>7

\* A publication in order works on the newest epoch.
LEMMA OrderedPublish ==
    ASSUME TypeOK, StepsOK, Ordered, InOrder, NEW p \in Publishers, PublishStep(p)
    PROVE  Ordered'
<1>1. p \in Handlers /\ ~Writing(p)
  BY DEF Handlers, Writing, PublishStep, PublishGoesOn, StartPublish, MayStart,
     PublishRead, PublishFetchIndex,
     PublishSend, PublishFails, PublishSendLost, PublishConfirm, PublishConfirmFails
<1>2. UNCHANGED <<disk, clash>>
  BY DEF PublishStep, PublishGoesOn, StartPublish, PublishRead, PublishFetchIndex,
     PublishSend, PublishFails, PublishSendLost,
     PublishConfirm, PublishConfirmFails, store
<1>3. \A q \in Handlers \ {p} : pc'[q] = pc[q] /\ pc[q] = "idle"
  BY <1>1 DEF PublishStep, PublishGoesOn, StartPublish, PublishRead, PublishFetchIndex,
     PublishSend, PublishFails, PublishSendLost,
     PublishConfirm, PublishConfirmFails, Answer, Goto, MayStart, May, InOrder, Ordered, TypeOK
<1>4. \A q \in Handlers : ~Writing(q) /\ ~Writing(q)'
  BY <1>1, <1>3 DEF Writing, PublishStep, PublishGoesOn, StartPublish, PublishRead,
     PublishFetchIndex,
     PublishSend, PublishFails, PublishSendLost, PublishConfirm, PublishConfirmFails,
     Answer, Goto, TypeOK
<1>5. disk[Latest] # Torn
  BY <1>4 DEF Ordered, Writing
<1>6. pc'[p] \in Working => Newest(epoch'[p])
  <2>1. CASE StartPublish(p)
    BY <1>1, <2>1 DEF StartPublish, Goto, TypeOK, Working
  <2>2. CASE PublishRead(p)
    <3>1. pc'[p] \in Working => epoch'[p] = disk[Latest] /\ disk[Latest] \in Epochs
      BY <1>1, <1>5, <2>2, SentinelAssumption
         DEF PublishRead, Goto, TypeOK, Working, May, InOrder, Read, Files
    <3> QED BY <1>4, <3>1 DEF Ordered
  <2>3. CASE PublishFetchIndex(p) \/ PublishSend(p)
    <3>1. UNCHANGED epoch /\ pc[p] \in Working
      BY <2>3 DEF PublishFetchIndex, PublishSend, Working
    <3> QED BY <1>1, <3>1 DEF Ordered
  <2>4. CASE PublishFails(p) \/ PublishSendLost(p) \/ PublishConfirmFails(p)
    BY <1>1, <2>4 DEF PublishFails, PublishSendLost, PublishConfirmFails, Answer, Goto,
        TypeOK, Working
  <2>5. CASE PublishConfirm(p)
    <3>1. epoch[p] \in Epochs /\ pc[p] \in Working
      BY <1>1, <2>5 DEF PublishConfirm, StepsOK, TypeOK, Working
    <3>2. epoch'[p].id = epoch[p].id
      BY <1>1, <2>5, <3>1 DEF PublishConfirm, TypeOK, Epochs
    <3> QED BY <1>1, <3>1, <3>2 DEF Ordered, Newest
  <2> QED BY <2>1, <2>2, <2>3, <2>4, <2>5 DEF PublishStep, PublishGoesOn
<1> QED BY <1>1, <1>2, <1>3, <1>4, <1>5, <1>6 DEF Ordered, Newest, Working

\* What a write does when nobody else has a file open.
LEMMA OrderedWrite ==
    ASSUME TypeOK, StepsOK, Ordered, NEW p \in Handlers, Write(p)
    PROVE  Ordered'
<1> USE SentinelAssumption
<1>1. epoch[p] \in Epochs /\ {epoch[p].id, Latest} \subseteq Files /\ epoch[p].id \in Ids
  BY WriteEffect DEF Epochs
<1>2. \A q \in Handlers \ {p} : pc[q] = "idle"
  BY DEF Ordered, Write, OpenFile, FillFile, OpenLatest, FillLatest
<1>3. Newest(epoch[p])
  BY DEF Ordered, Write, OpenFile, FillFile, OpenLatest, FillLatest, Working
<1>4. CASE OpenFile(p)
  <2>1. /\ disk' = [disk EXCEPT ![epoch[p].id] = Torn]
        /\ pc[p] = "openFile" /\ pc' = [pc EXCEPT ![p] = "fillFile"] /\ UNCHANGED epoch
    BY <1>4 DEF OpenFile, Open, Goto
  <2>2. clash' = {}
    BY <1>2, <1>4 DEF OpenFile, Open, Filling, Ordered
  <2>3. disk[Latest] # Torn
    BY <1>2, <2>1 DEF Ordered
  <2> QED BY <1>1, <1>2, <1>3, <2>1, <2>2, <2>3
             DEF Ordered, Newest, TypeOK, Writing, Files, Working, Ids
<1>5. CASE FillFile(p)
  <2>1. /\ disk' = [disk EXCEPT ![epoch[p].id] = epoch[p]] /\ clash' = {}
        /\ pc[p] = "fillFile" /\ pc' = [pc EXCEPT ![p] = "openLatest"] /\ UNCHANGED epoch
    BY <1>5 DEF FillFile, Fill, Goto, Ordered
  <2>2. disk[Latest] # Torn
    BY <1>2, <2>1 DEF Ordered
  <2> QED BY <1>1, <1>2, <1>3, <2>1, <2>2
             DEF Ordered, Newest, TypeOK, Writing, Files, Working, Ids
<1>6. CASE OpenLatest(p)
  <2>1. /\ disk' = [disk EXCEPT ![Latest] = Torn]
        /\ pc' = [pc EXCEPT ![p] = "fillLatest"] /\ UNCHANGED epoch
    BY <1>6 DEF OpenLatest, Open, Goto
  <2>2. clash' = {}
    BY <1>2, <1>6 DEF OpenLatest, Open, Filling, Ordered
  <2> QED BY <1>1, <1>2, <1>3, <2>1, <2>2 DEF Ordered, Newest, TypeOK, Writing, Files,
     Working
<1>7. CASE FillLatest(p)
  <2>1. /\ disk' = [disk EXCEPT ![Latest] = epoch[p]] /\ clash' = {}
        /\ pc' = [pc EXCEPT ![p] = "idle"] /\ epoch' = [epoch EXCEPT ![p] = Absent]
    BY <1>7 DEF FillLatest, Fill, Goto, Ordered
  <2> QED BY <1>1, <1>2, <1>3, <2>1 DEF Ordered, Newest, TypeOK, Writing, Files, Working
<1> QED BY <1>4, <1>5, <1>6, <1>7 DEF Write

\* The steps that leave files and requests alone.
LEMMA Elsewhere ==
    ASSUME \/ \E tx \in flying : Execute(tx) \/ Expire(tx)
           \/ OtherProposal \/ Tick \/ UNCHANGED vars
    PROVE  UNCHANGED <<setting, disk, clash, pc, epoch>>
  BY DEF Execute, Expire, OtherProposal, Tick, vars, store

\* Requests in order are those without crashes.
LEMMA NoCrash ==
    ASSUME InOrder, NEW procs
    PROVE  ~Crash(procs)
  BY DEF InOrder, Crash, May

\* No epoch is listed.
LEMMA OrderedInit == Init => OInv
<1> USE SentinelAssumption, BoundsAssumption
<1> SUFFICES ASSUME Init PROVE OInv
  OBVIOUS
<1>1. TypeOK /\ StepsOK
  BY InitInv DEF IInv
<1>2. disk[Latest] = Absent /\ \A f \in Ids : disk[f] = Absent
  BY DEF Init, Files
<1> QED BY <1>1, <1>2 DEF Init, OInv, Ordered, Working

\* Every step keeps that requests in order leave latest.json the newest.
LEMMA OrderedStep == OInv /\ [Next]_vars => OInv'
<1> SUFFICES ASSUME OInv, [Next]_vars PROVE OInv'
  OBVIOUS
<1>1. TypeOK' /\ StepsOK' /\ UNCHANGED setting
  BY TypesStep, StepsStep, SettingStays DEF OInv
<1>2. ASSUME InOrder PROVE Ordered'
  <2> USE <1>2 DEF OInv
  <2>1. CASE \/ \E tx \in flying : Execute(tx) \/ Expire(tx)
             \/ OtherProposal \/ Tick \/ UNCHANGED vars
    BY <2>1, Elsewhere DEF Ordered, Newest, Writing
  <2> QED BY <2>1, OrderedRun, OrderedPublish, OrderedWrite, NoCrash DEF Next, Runs
<1> QED BY <1>1, <1>2 DEF OInv, InOrder

\* So it always holds.
LEMMA OrderedInvariance == Spec => []OInv
  BY OrderedInit, OrderedStep, PTL DEF Spec

\* Between requests made one at a time, without crashes, of the latest epoch,
\* latest.json is the newest of the epoch files.
THEOREM LatestIsNewestHolds == Spec => []LatestIsNewest
<1>1. ASSUME OInv PROVE LatestIsNewest
  <2> SUFFICES ASSUME InOrder, Quiet, ListedIds # {}
               PROVE  EpochLatest # Absent /\ \A i \in ListedIds : i <= EpochLatest.id
    BY DEF LatestIsNewest
  <2>1. \A p \in Handlers : ~Writing(p) /\ pc[p] # "fillLatest"
    BY DEF Quiet, Writing
  <2>2. disk[Latest] \in Epochs /\ Newest(disk[Latest])
    BY <1>1, <2>1 DEF OInv, Ordered, TypeOK, Files, ListedIds
  <2> QED BY <2>2, SentinelAssumption DEF EpochLatest, Read, Newest, ListedIds
<1> QED BY <1>1, OrderedInvariance, PTL

-----------------------------------------------------------------------------
(* And when cron is not used either: when epochs were taken. *)

NoCron == setting.handlers \cap CronRunners = {}

\* Epoch id, taken at t, is in a file or with a request.
TakenAt(e, id, t) == e \in Epochs /\ e.id = id /\ e.endedAt = t
Taken(id, t) ==
    (\E f \in Files : TakenAt(disk[f], id, t)) \/ \E p \in Handlers : TakenAt(epoch[p], id, t)

\* Epochs taken one after the other are Interval apart, a run about to take one has
\* waited, and the number it will give is beyond every one that is known: an
\* epoch in latest.json has its own file, and so has one on its way there.
Spaced ==
    /\ \A id \in Ids, t \in 0..MaxTime : Taken(id, t) => t <= now
    /\ \A i, j \in Ids, t, u \in 0..MaxTime : Taken(i, t) /\ Taken(j, u) =>
          /\ i = j => t = u
          /\ i < j => u - t >= Interval
    /\ \A p \in Handlers : pc[p] = "sample" =>
          \A id \in Ids, t \in 0..MaxTime : Taken(id, t) => now - t >= Interval
    /\ \A id \in Ids : (\E p \in Handlers : Writing(p) /\ epoch[p].id = id)
                          \/ (disk[Latest] \in Epochs /\ disk[Latest].id = id)
                       => disk[id] # Absent

SInv == OInv /\ (InOrder /\ NoCron => Spaced)

\* Before a run opens its file, every epoch that is known has a file of its own.
LEMMA TakenListed ==
    ASSUME OInv, InOrder, Spaced, NEW p \in Runs, pc[p] \in {"check", "sample"},
           NEW id \in Ids, NEW t \in 0..MaxTime, Taken(id, t)
    PROVE  /\ disk[id] # Absent
           /\ \E f \in Files : TakenAt(disk[f], id, t)
<1> USE SentinelAssumption DEF OInv
<1>1. p \in Handlers
  BY DEF Runs, Handlers
<1>2. \A q \in Handlers : epoch[q] = Absent
  <2>1. \A q \in Handlers : pc[q] \notin Working
    BY <1>1 DEF Ordered, Working
  <2> QED BY <2>1 DEF StepsOK
<1>3. PICK f \in Files : TakenAt(disk[f], id, t)
  BY <1>2 DEF Taken, TakenAt
<1>4. CASE f = Latest
  BY <1>3, <1>4 DEF TakenAt, Spaced
<1>5. CASE f \in Ids
  BY <1>3, <1>5 DEF TakenAt, Ordered
<1> QED BY <1>3, <1>4, <1>5 DEF Files

\* What was long enough ago stays so.
LEMMA Later ==
    ASSUME NEW a \in Nat, NEW b \in Nat, a <= b, NEW t \in Nat, NEW i \in Nat, a - t >= i
    PROVE  b - t >= i
  OBVIOUS

\* A step after which nothing more is known of when epochs were taken.
LEMMA SpacedKept ==
    ASSUME TypeOK, Spaced, now' \in Nat, now <= now',
           \A id \in Ids, t \in 0..MaxTime : Taken(id, t)' => Taken(id, t),
           \A p \in Handlers : pc'[p] = "sample" => pc[p] = "sample",
           \A id \in Ids : (\E p \in Handlers : Writing(p)' /\ epoch'[p].id = id)
                             \/ (disk'[Latest] \in Epochs /\ disk'[Latest].id = id)
                          => disk'[id] # Absent
    PROVE  Spaced'
<1>1. now \in Nat /\ Interval \in Nat /\ \A t \in 0..MaxTime : t \in Nat
  BY BoundsAssumption DEF TypeOK
<1>2. \A id \in Ids, t \in 0..MaxTime : Taken(id, t)' => t <= now'
  BY <1>1 DEF Spaced
<1>3. \A p \in Handlers : pc'[p] = "sample" =>
        \A id \in Ids, t \in 0..MaxTime : Taken(id, t)' => now' - t >= Interval
  <2> SUFFICES ASSUME NEW p \in Handlers, pc'[p] = "sample", NEW id \in Ids, NEW t \in 0..MaxTime,
                      Taken(id, t)'
               PROVE  now' - t >= Interval
    OBVIOUS
  <2>1. now - t >= Interval
    BY DEF Spaced
  <2>2. t \in Nat
    OBVIOUS
  <2> QED BY <1>1, <2>1, <2>2, Later
<1> QED BY <1>2, <1>3 DEF Spaced

\* A run in order has waited EPOCH_HOURS since the last epoch.
LEMMA SpacedRun ==
    ASSUME OInv, Spaced, InOrder, NoCron, NEW p \in Runs, RunStep(p)
    PROVE  Spaced'
<1> USE SentinelAssumption, BoundsAssumption DEF OInv
<1>1. p \in Handlers /\ now \in Nat
  BY DEF Runs, Handlers, TypeOK
<1>2. UNCHANGED <<disk, now>>
  BY DEF RunStep, RunGoesOn, StartRun, RunCheck, RunFails, RunNumber, store
<1>3. \A q \in Handlers : Writing(q)' => Writing(q) /\ epoch'[q] = epoch[q]
  BY <1>1 DEF Writing, RunStep, RunGoesOn, StartRun, RunCheck, RunFails, RunNumber,
     Goto, TypeOK
<1>4. CASE StartRun(p) \/ RunFails(p)
  <2>1. UNCHANGED epoch
    BY <1>4 DEF StartRun, RunFails
  <2>2. \A q \in Handlers : pc'[q] = "sample" => pc[q] = "sample"
    BY <1>1, <1>4 DEF StartRun, RunFails, MayStart, NoCron, Goto, TypeOK
  <2>3. \A id \in Ids, t \in 0..MaxTime : Taken(id, t)' => Taken(id, t)
    BY <1>2, <2>1 DEF Taken
  <2> QED BY <1>1, <1>2, <1>3, <2>2, <2>3, SpacedKept DEF Spaced
<1>5. CASE RunCheck(p)
  <2>1. UNCHANGED epoch /\ pc[p] = "check"
    BY <1>5 DEF RunCheck
  <2>2. \A id \in Ids, t \in 0..MaxTime : Taken(id, t)' <=> Taken(id, t)
    BY <1>2, <2>1 DEF Taken
  <2>3. ASSUME ~TooRecent, NEW id \in Ids, NEW t \in 0..MaxTime, Taken(id, t)
        PROVE  now - t >= Interval
    <3>1. disk[id] # Absent
      BY <2>1, <2>3, TakenListed
    <3>2. disk[Latest] \in Epochs /\ Newest(disk[Latest])
      <4>1. \A q \in Handlers : ~Writing(q) /\ pc[q] # "fillLatest"
        BY <1>1, <2>1 DEF Ordered, Writing
      <4> QED BY <3>1, <4>1 DEF Ordered, TypeOK, Files
    <3>3. now - disk[Latest].endedAt >= Interval
      <4>1. disk[Latest] # Absent /\ disk[Latest] # Torn /\ disk[Latest].endedAt \in Nat
        BY <3>2 DEF Epochs
      <4>2. ~(now - disk[Latest].endedAt < Interval)
        BY <2>3, <4>1 DEF TooRecent, Read
      <4> QED BY <1>1, <4>1, <4>2
    <3>4. /\ disk[Latest].id \in Ids /\ disk[Latest].endedAt \in 0..MaxTime
          /\ Taken(disk[Latest].id, disk[Latest].endedAt)
      BY <3>2 DEF Epochs, Taken, TakenAt, Files
    <3>5. id <= disk[Latest].id
      BY <3>1, <3>2 DEF Newest
    <3>6. CASE id = disk[Latest].id
      BY <2>3, <3>3, <3>4, <3>6 DEF Spaced
    <3>7. CASE id < disk[Latest].id
      <4>1. disk[Latest].endedAt - t >= Interval
        BY <2>3, <3>4, <3>7 DEF Spaced
      <4> QED BY <1>1, <3>3, <3>4, <4>1
    <3> QED BY <3>4, <3>5, <3>6, <3>7 DEF Ids
  <2>4. \A q \in Handlers : pc'[q] = "sample" => pc[q] = "sample" \/ ~TooRecent
    BY <1>1, <1>5 DEF RunCheck, Goto, TypeOK
  <2>5. \A q \in Handlers : pc'[q] = "sample" =>
          \A id \in Ids, t \in 0..MaxTime : Taken(id, t)' => now' - t >= Interval
    BY <1>2, <2>2, <2>3, <2>4 DEF Spaced
  <2> QED BY <1>2, <1>3, <2>2, <2>5 DEF Spaced
<1>6. CASE RunNumber(p)
  <2>1. pc[p] = "sample" /\ \A q \in Handlers : pc'[q] = "sample" => pc[q] = "sample"
    BY <1>1, <1>6 DEF RunNumber, Goto, TypeOK
  <2>2. PICK e \in Epochs : /\ epoch' = [epoch EXCEPT ![p] = e]
                            /\ e.id = NextEpochId /\ e.endedAt = now
    BY <1>6, NumberEffect
  <2>3. \A id \in Ids, t \in 0..MaxTime : Taken(id, t)' => Taken(id, t) \/ (id = e.id /\ t = now)
    BY <1>1, <1>2, <2>2 DEF Taken, TakenAt, TypeOK
  <2>4. \A id \in Ids, t \in 0..MaxTime : Taken(id, t) => id < e.id /\ now - t >= Interval
    <3> SUFFICES ASSUME NEW id \in Ids, NEW t \in 0..MaxTime, Taken(id, t)
                 PROVE  id < e.id /\ now - t >= Interval
      OBVIOUS
    <3>1. disk[id] # Absent
      BY <2>1, TakenListed
    <3> QED BY <1>1, <2>1, <2>2, <3>1, NextIsLargest DEF ListedIds, Spaced
  <2>5. \A i, j \in Ids, t, u \in 0..MaxTime : Taken(i, t)' /\ Taken(j, u)' =>
          /\ i = j => t = u
          /\ i < j => u - t >= Interval
    <3> SUFFICES ASSUME NEW i \in Ids, NEW j \in Ids, NEW t \in 0..MaxTime, NEW u \in 0..MaxTime,
                        Taken(i, t)', Taken(j, u)'
                 PROVE  (i = j => t = u) /\ (i < j => u - t >= Interval)
      OBVIOUS
    <3>1. i \in Nat /\ j \in Nat /\ e.id \in Nat
      BY DEF Ids, Epochs
    <3>2. CASE Taken(i, t) /\ Taken(j, u)
      BY <3>2 DEF Spaced
    <3>3. CASE ~(Taken(i, t) /\ Taken(j, u))
      <4> HIDE DEF Taken
      <4> QED BY <1>1, <2>3, <2>4, <3>1, <3>3
    <3> QED BY <3>2, <3>3
  <2>6. \A id \in Ids, t \in 0..MaxTime : Taken(id, t)' => t <= now'
    BY <1>1, <1>2, <2>3 DEF Spaced
  <2>7. \A q \in Handlers : pc'[q] # "sample"
    <3>1. \A q \in Handlers \ {p} : pc[q] # "sample"
      BY <1>1, <2>1 DEF Ordered
    <3> QED BY <1>1, <1>6, <2>1, <3>1 DEF RunNumber, Goto, TypeOK
  <2> QED BY <1>2, <1>3, <2>5, <2>6, <2>7 DEF Spaced
<1> QED BY <1>4, <1>5, <1>6 DEF RunStep, RunGoesOn

\* A publication takes no epoch,
LEMMA SpacedPublish ==
    ASSUME OInv, Spaced, InOrder, NEW p \in Publishers, PublishStep(p)
    PROVE  Spaced'
<1> USE SentinelAssumption, BoundsAssumption DEF OInv
<1>1. p \in Handlers /\ now \in Nat
  BY DEF Handlers, TypeOK
<1>2. UNCHANGED <<disk, now>>
  BY DEF PublishStep, PublishGoesOn, StartPublish, PublishRead, PublishFetchIndex,
     PublishSend, PublishFails, PublishSendLost,
     PublishConfirm, PublishConfirmFails, store
<1>3. \A q \in Handlers : Writing(q)' => Writing(q) /\ epoch'[q] = epoch[q]
  BY <1>1 DEF Writing, PublishStep, PublishGoesOn, StartPublish, PublishRead,
     PublishFetchIndex, PublishSend,
     PublishFails, PublishSendLost, PublishConfirm, PublishConfirmFails, Answer, Goto, TypeOK
<1>4. \A q \in Handlers : pc'[q] = "sample" => pc[q] = "sample"
  BY <1>1 DEF PublishStep, PublishGoesOn, StartPublish, PublishRead, PublishFetchIndex,
     PublishSend,
     PublishFails, PublishSendLost, PublishConfirm, PublishConfirmFails, Answer, Goto, TypeOK
<1>5. \A q \in Handlers : \/ epoch'[q] = epoch[q] \/ epoch'[q] = Absent
                          \/ \E f \in Files : epoch'[q] = disk[f]
                          \/ /\ epoch[q] \in Epochs
                             /\ \E i : epoch'[q] = [epoch[q] EXCEPT !.distributor = i]
  <2>1. CASE StartPublish(p) \/ PublishFetchIndex(p) \/ PublishSend(p)
    BY <2>1 DEF StartPublish, PublishFetchIndex, PublishSend
  <2>2. CASE PublishRead(p)
    <3>1. epoch' = epoch \/ \E f \in Files : epoch' = [epoch EXCEPT ![p] = disk[f]]
      BY <2>2 DEF PublishRead, Read, Files
    <3> QED BY <1>1, <3>1 DEF TypeOK
  <2>3. CASE PublishFails(p) \/ PublishSendLost(p) \/ PublishConfirmFails(p)
    BY <1>1, <2>3 DEF PublishFails, PublishSendLost, PublishConfirmFails, Answer, TypeOK
  <2>4. CASE PublishConfirm(p)
    BY <1>1, <2>4 DEF PublishConfirm, StepsOK, TypeOK, Working
  <2> QED BY <2>1, <2>2, <2>3, <2>4 DEF PublishStep, PublishGoesOn
<1>6. \A id \in Ids, t \in 0..MaxTime : Taken(id, t)' => Taken(id, t)
  <2> SUFFICES ASSUME NEW id \in Ids, NEW t \in 0..MaxTime, NEW q \in Handlers,
                      TakenAt(epoch'[q], id, t)
               PROVE  Taken(id, t)
    BY <1>2 DEF Taken, TakenAt
  <2>1. CASE epoch[q] \in Epochs /\ \E i : epoch'[q] = [epoch[q] EXCEPT !.distributor = i]
    <3>1. TakenAt(epoch[q], id, t)
      BY <2>1 DEF TakenAt, Epochs
    <3> QED BY <3>1 DEF Taken
  <2> QED BY <1>5, <2>1 DEF Taken, TakenAt
<1> QED BY <1>1, <1>2, <1>3, <1>4, <1>6, SpacedKept DEF Spaced

\* nor does a write, which stores the one its request has taken.
LEMMA SpacedWrite ==
    ASSUME OInv, Spaced, NEW p \in Handlers, Write(p)
    PROVE  Spaced'
<1> USE SentinelAssumption, BoundsAssumption DEF OInv
<1>1. PICK f \in {epoch[p].id, Latest}, text \in {epoch[p], Torn} :
        disk' = [disk EXCEPT ![f] = text]
  BY WriteEffect
<1>2. /\ epoch[p] \in Epochs /\ epoch[p].id \in Ids /\ f \in Files /\ text # Absent
      /\ UNCHANGED now /\ now \in Nat
  <2>1. epoch[p] \in Epochs /\ {epoch[p].id, Latest} \subseteq Files /\ UNCHANGED now
    BY WriteEffect
  <2>2. now \in Nat
    BY DEF TypeOK
  <2> QED BY <1>1, <2>1, <2>2 DEF Epochs
<1>3. \A q \in Handlers \ {p} : pc'[q] = pc[q] /\ epoch'[q] = epoch[q]
  BY WriteEffect DEF TypeOK
<1>4. epoch'[p] \in {epoch[p], Absent} /\ pc'[p] # "sample"
  BY WriteEffect DEF TypeOK
<1>5. \A id \in Ids, t \in 0..MaxTime : Taken(id, t)' => Taken(id, t)
  BY <1>1, <1>2, <1>3, <1>4 DEF Taken, TakenAt, TypeOK
<1>6. \A q \in Handlers : pc'[q] = "sample" => pc[q] = "sample"
  BY <1>3, <1>4
<1>7. disk'[epoch[p].id] # Absent
  <2>1. CASE pc[p] = "openFile"
    BY <1>2, <2>1, WriteEffect DEF TypeOK, Files
  <2>2. CASE Writing(p)
    BY <1>1, <1>2, <2>2 DEF Spaced, TypeOK, Files
  <2> QED BY <2>1, <2>2 DEF Writing, Write, OpenFile, FillFile, OpenLatest, FillLatest
<1>8. \A id \in Ids : (\E q \in Handlers : Writing(q)' /\ epoch'[q].id = id)
                        \/ (disk'[Latest] \in Epochs /\ disk'[Latest].id = id)
                     => disk'[id] # Absent
  <2>1. \A id \in Ids : disk[id] # Absent => disk'[id] # Absent
    BY <1>1, <1>2 DEF TypeOK, Files
  <2>2. ASSUME NEW q \in Handlers, Writing(q)', NEW id \in Ids, epoch'[q].id = id
        PROVE  disk'[id] # Absent
    <3>1. CASE q = p
      <4>1. epoch'[p] = epoch[p]
        BY <2>2, <3>1, WriteEffect DEF Writing, TypeOK
      <4> QED BY <1>7, <2>2, <3>1, <4>1
    <3>2. CASE q # p
      BY <1>3, <2>1, <2>2, <3>2 DEF Spaced, Writing
    <3> QED BY <3>1, <3>2
  <2>3. ASSUME disk'[Latest] \in Epochs, NEW id \in Ids, disk'[Latest].id = id
        PROVE  disk'[id] # Absent
    <3>1. disk'[Latest] \in {disk[Latest], epoch[p], Torn}
      BY <1>1, <1>2 DEF TypeOK, Files
    <3> QED BY <1>7, <2>1, <2>3, <3>1 DEF Spaced
  <2> QED BY <2>2, <2>3
<1> QED BY <1>2, <1>5, <1>6, <1>8, SpacedKept

\* No epoch was taken.
LEMMA SpacedInit == Init => SInv
<1> SUFFICES ASSUME Init PROVE SInv
  OBVIOUS
<1>1. \A id, t : ~Taken(id, t)
  BY SentinelAssumption DEF Init, Taken, TakenAt, Files
<1>2. disk[Latest] \notin Epochs /\ \A p \in Handlers : ~Writing(p)
  BY SentinelAssumption DEF Init, Files, Writing
<1> QED BY <1>1, <1>2, OrderedInit DEF SInv, Spaced

\* Every step keeps epochs apart.
LEMMA SpacedStep == SInv /\ [Next]_vars => SInv'
<1> SUFFICES ASSUME SInv, [Next]_vars PROVE SInv'
  OBVIOUS
<1>1. OInv' /\ UNCHANGED setting
  BY OrderedStep, SettingStays DEF SInv, OInv
<1>2. ASSUME InOrder, NoCron PROVE Spaced'
  <2> USE <1>2 DEF SInv
  <2>1. CASE \/ \E tx \in flying : Execute(tx) \/ Expire(tx)
             \/ OtherProposal \/ Tick \/ UNCHANGED vars
    <3>1. now \in Nat /\ now' \in Nat /\ now <= now'
      <4>1. now \in Nat
        BY BoundsAssumption DEF OInv, TypeOK
      <4>2. now' = now \/ now' = now + 1
        BY <2>1 DEF Execute, Expire, OtherProposal, Tick, vars
      <4> QED BY <4>1, <4>2
    <3>2. \A id \in Ids, t \in 0..MaxTime : Taken(id, t)' => Taken(id, t)
      BY <2>1, Elsewhere DEF Taken
    <3> QED BY <2>1, <3>1, <3>2, Elsewhere, SpacedKept DEF OInv, Spaced, Writing
  <2> QED BY <2>1, SpacedRun, SpacedPublish, SpacedWrite, NoCrash DEF Next, Runs
<1> QED BY <1>1, <1>2 DEF SInv, InOrder, NoCron

\* So it always holds.
LEMMA SpacedInvariance == Spec => []SInv
  BY SpacedInit, SpacedStep, PTL DEF Spec

\* The invariant speaks of all known epochs, the property of those on disk.
LEMMA SpacedImplies ==
    ASSUME SInv
    PROVE  EpochsSpaced
<1> SUFFICES ASSUME InOrder, NoCron, NEW a \in OnDisk, NEW b \in OnDisk, a.id < b.id
             PROVE  b.endedAt - a.endedAt >= Interval
  BY DEF EpochsSpaced, NoCron
<1>1. \A e \in OnDisk : /\ e.id \in Ids /\ e.endedAt \in 0..MaxTime
                        /\ Taken(e.id, e.endedAt)
  <2> SUFFICES ASSUME NEW e \in OnDisk
               PROVE  e.id \in Ids /\ e.endedAt \in 0..MaxTime /\ Taken(e.id, e.endedAt)
    OBVIOUS
  <2>1. PICK f \in Files : e = disk[f] /\ e \in Epochs
    BY DEF SInv, OInv, TypeOK, OnDisk, EpochById, EpochLatest, Read, Files
  <2> QED BY <2>1 DEF Taken, TakenAt, Epochs
<1> QED BY <1>1 DEF SInv, Spaced

\* What the runs check of the store, for any number of requests: types, one snapshot
\* per epoch id, and, when requests are made in order and not by cron, epochs
\* EPOCH_HOURS apart.
THEOREM StoreInvariantHolds == Spec => []StoreInvariant
<1>1. SInv => EpochsSpaced
  BY SpacedImplies
<1> QED BY <1>1, SpacedInvariance, RewardsTypeCorrect, OneSnapshotPerEpochHolds, PTL
        DEF StoreInvariant

-----------------------------------------------------------------------------
(* What a recorded distributor stands for, when proposals are accounted for and  *)
(* no other member uses the multisig.                                           *)

Steady == Accounted /\ ~May("otherProposals")

Content(e) == [id |-> e.id, snapshot |-> e.snapshot]
Stands(i, content) == i \in DOMAIN squads /\ squads[i] = content
Right(e) == e \in Epochs /\ e.distributor # 0 => Stands(e.distributor, Content(e))

\* The one transaction in flight is the next of the multisig, and its sender, who is
\* the only publisher, waits for it; one that has settled is in the multisig.
Waiting(tx) ==
    /\ pc[tx[1]] = "confirm"
    /\ tx[2].index = index[tx[1]] /\ tx[2].id = epoch[tx[1]].id
    /\ tx[2].snapshot = epoch[tx[1]].snapshot
Recorded ==
    /\ \A f \in Files : Right(disk[f])
    /\ \A p \in Handlers : Right(epoch[p])
    /\ \A tx \in settled : Stands(tx[2].index, Content(tx[2]))
    /\ \A tx \in flying : Waiting(tx) /\ tx[2].index = TransactionIndex + 1
    /\ \A p \in Publishers : pc[p] = "confirm" /\ index[p] \in DOMAIN squads
                               => squads[index[p]] = Content(epoch[p])
Consecutive == \E n \in Nat : DOMAIN squads = 1..n

RInv == TypeOK /\ StepsOK /\ (Steady => Consecutive /\ Recorded)

\* The transaction a publication waits for is the one it has sent.
LEMMA WaitingIsOwn ==
    ASSUME TypeOK, NEW tx \in flying, Waiting(tx)
    PROVE  tx = OwnTx(tx[1])
<1>1. PICK p \in Publishers, proposal \in Proposals : tx = <<p, proposal>>
  BY DEF TypeOK
<1>2. proposal = [index |-> proposal.index, id |-> proposal.id, snapshot |-> proposal.snapshot]
  BY DEF Proposals
<1> QED BY <1>1, <1>2 DEF Waiting, OwnTx

\* A proposal in its turn takes an index that no other has.
LEMMA NextIndex ==
    ASSUME Consecutive
    PROVE  /\ TransactionIndex \in Nat /\ DOMAIN squads = 1..TransactionIndex
           /\ TransactionIndex + 1 \notin DOMAIN squads
<1>1. PICK n \in Nat : DOMAIN squads = 1..n
  BY DEF Consecutive
<1>2. Cardinality(1..n) = n
  BY FS_Interval
<1>3. TransactionIndex = n
  BY <1>1, <1>2 DEF TransactionIndex
<1> QED BY <1>1, <1>3

\* If every proposal is accounted for, one publication at most is under way.
LEMMA OnePublisher ==
    ASSUME StepsOK, Accounted, NEW p \in Publishers, NEW q \in Publishers,
           pc[p] # "idle", pc[q] # "idle"
    PROVE  p = q
<1>1. p \in setting.handlers /\ q \in setting.handlers
  BY DEF StepsOK, Handlers
<1> QED BY <1>1 DEF Accounted

\* A run records no distributor.
LEMMA RecordedRun ==
    ASSUME TypeOK, StepsOK, Recorded, NEW p \in Runs, RunStep(p)
    PROVE  Recorded'
<1>1. p \in Handlers /\ p \notin Publishers
  BY SentinelAssumption DEF Runs, Handlers
<1>2. UNCHANGED <<disk, index, flying, settled, squads>>
  BY DEF RunStep, RunGoesOn, StartRun, RunCheck, RunFails, RunNumber, store, chain
<1>3. \A q \in Handlers \ {p} : pc'[q] = pc[q]
  BY <1>1 DEF RunStep, RunGoesOn, StartRun, RunCheck, RunFails, RunNumber, Goto, TypeOK
<1>4. \A q \in Handlers : \/ epoch'[q] = epoch[q]
                          \/ q = p /\ epoch'[q].distributor = 0
  <2>1. CASE RunNumber(p)
    <3>1. PICK e \in Epochs : epoch' = [epoch EXCEPT ![p] = e] /\ e.distributor = 0
      BY <2>1, NumberEffect
    <3> QED BY <1>1, <3>1 DEF TypeOK
  <2>2. CASE StartRun(p) \/ RunCheck(p) \/ RunFails(p)
    BY <2>2 DEF StartRun, RunCheck, RunFails
  <2> QED BY <2>1, <2>2 DEF RunStep, RunGoesOn
<1>5. \A q \in Publishers : pc'[q] = pc[q] /\ epoch'[q] = epoch[q] /\ q \in Handlers
  BY <1>1, <1>3, <1>4 DEF Handlers
<1>6. \A tx \in flying : tx[1] \in Publishers
  BY DEF TypeOK
<1>7. \A q \in Handlers : Right(epoch[q])'
  BY <1>2, <1>4 DEF Recorded, Right, Stands
<1> QED BY <1>2, <1>5, <1>6, <1>7 DEF Recorded, Right, Stands, Waiting, TransactionIndex

\* A publication records the index at which its own proposal was executed.
LEMMA RecordedPublish ==
    ASSUME TypeOK, StepsOK, Accounted, Consecutive, Recorded, NEW p \in Publishers, PublishStep(p)
    PROVE  Recorded'
<1> USE SentinelAssumption
<1>1. p \in Handlers
  BY DEF Handlers
<1>2. UNCHANGED <<disk, squads>>
  BY DEF PublishStep, PublishGoesOn, StartPublish, PublishRead, PublishFetchIndex,
     PublishSend, PublishFails, PublishSendLost,
     PublishConfirm, PublishConfirmFails, store, chain
<1>3. \A q \in Handlers \ {p} : pc'[q] = pc[q] /\ epoch'[q] = epoch[q]
  BY <1>1 DEF PublishStep, PublishGoesOn, StartPublish, PublishRead, PublishFetchIndex,
     PublishSend,
     PublishFails, PublishSendLost, PublishConfirm, PublishConfirmFails, Answer, Goto, TypeOK
<1>4. \A q \in Publishers \ {p} : index'[q] = index[q] /\ q \in Handlers
  BY DEF PublishStep, PublishGoesOn, StartPublish, PublishRead, PublishFetchIndex,
     PublishSend, PublishFails, PublishSendLost,
     PublishConfirm, PublishConfirmFails, Answer, TypeOK, Handlers
<1>5. \A tx \in flying : tx[1] \in Publishers /\ tx[2] \in Proposals
                         /\ tx = <<tx[1], tx[2]>>
  BY DEF TypeOK
<1>6. pc[p] # "confirm" => flying = {} \/ pc[p] = "idle"
  <2> SUFFICES ASSUME NEW tx \in flying, pc[p] # "confirm", pc[p] # "idle" PROVE FALSE
    OBVIOUS
  <2>1. tx[1] \in Publishers /\ pc[tx[1]] = "confirm"
    BY <1>5 DEF Recorded, Waiting
  <2> QED BY <2>1, OnePublisher
<1>7. CASE StartPublish(p)
  <2>1. /\ UNCHANGED <<epoch, index, flying, settled>>
        /\ pc[p] = "idle" /\ pc'[p] # "confirm"
    BY <1>1, <1>7 DEF StartPublish, MayStart, Goto, chain, TypeOK
  <2>2. \A tx \in flying : tx[1] # p
    BY <2>1 DEF Recorded, Waiting
  <2>3. \A tx \in flying : Waiting(tx)'
    BY <1>3, <1>4, <1>5, <2>1, <2>2 DEF Recorded, Waiting
  <2> QED BY <1>2, <1>3, <1>4, <2>1, <2>3 DEF Recorded, Right, Stands, TransactionIndex
<1>8. CASE PublishRead(p)
  <2>1. /\ UNCHANGED <<index, flying, settled>>
        /\ pc[p] = "read" /\ pc'[p] # "confirm"
    BY <1>1, <1>8 DEF PublishRead, Goto, chain, TypeOK
  <2>2. epoch'[p] = epoch[p] \/ \E f \in Files : epoch'[p] = disk[f]
    <3>1. epoch' = epoch \/ \E f \in Files : epoch' = [epoch EXCEPT ![p] = disk[f]]
      BY <1>8 DEF PublishRead, Read, Files
    <3> QED BY <1>1, <3>1 DEF TypeOK
  <2>3. \A q \in Handlers : Right(epoch[q])'
    BY <1>2, <1>3, <2>2 DEF Recorded, Right, Stands
  <2> QED BY <1>2, <1>3, <1>4, <1>6, <2>1, <2>3 DEF Recorded, Right, Stands
<1>9. CASE PublishFetchIndex(p)
  <2>1. /\ UNCHANGED <<epoch, flying, settled>>
        /\ pc[p] = "fetchIndex" /\ pc'[p] # "confirm"
    BY <1>1, <1>9 DEF PublishFetchIndex, Goto, chain, TypeOK
  <2> QED BY <1>2, <1>3, <1>4, <1>6, <2>1 DEF Recorded, Right, Stands
<1>10. CASE PublishSend(p)
  <2> DEFINE sent == [index |-> index[p], id |-> epoch[p].id, snapshot |-> epoch[p].snapshot]
  <2>1. /\ UNCHANGED <<epoch, index>> /\ pc[p] = "send" /\ pc'[p] = "confirm"
        /\ index[p] = TransactionIndex + 1
        /\ flying' = flying \cup {<<p, sent>>} /\ settled' \subseteq settled
    BY <1>1, <1>10 DEF PublishSend, OwnTx, Goto, TypeOK
  <2>2. flying' = {<<p, sent>>}
    BY <1>6, <2>1
  <2>3. \A tx \in flying' : Waiting(tx)' /\ tx[2].index = TransactionIndex' + 1
    BY <1>2, <2>1, <2>2 DEF Waiting, TransactionIndex
  <2>4. index'[p] \notin DOMAIN squads'
    BY <1>2, <2>1, NextIndex
  <2> QED BY <1>2, <1>3, <1>4, <2>1, <2>3, <2>4 DEF Recorded, Right, Stands
<1>11. CASE PublishFails(p)
  <2>1. /\ UNCHANGED <<flying, settled>> /\ pc[p] \notin {"confirm", "idle"}
        /\ pc'[p] # "confirm" /\ epoch'[p] = Absent
    BY <1>1, <1>11 DEF PublishFails, Answer, Goto, chain, TypeOK
  <2> QED BY <1>2, <1>3, <1>4, <1>6, <2>1 DEF Recorded, Right, Stands
<1>12. CASE PublishConfirmFails(p)
  <2>1. /\ UNCHANGED <<flying, settled>> /\ pc[p] = "confirm" /\ pc'[p] # "confirm"
        /\ epoch'[p] = Absent /\ OwnTx(p) \notin flying
    BY <1>1, <1>12 DEF PublishConfirmFails, Answer, Goto, chain, TypeOK, May, Accounted
  <2>2. flying = {}
    <3> SUFFICES ASSUME NEW tx \in flying PROVE FALSE
      OBVIOUS
    <3>1. tx[1] = p
      BY <1>5, <2>1, OnePublisher DEF Recorded, Waiting
    <3> QED BY <2>1, <3>1, WaitingIsOwn DEF Recorded
  <2> QED BY <1>2, <1>3, <1>4, <2>1, <2>2 DEF Recorded, Right, Stands
<1>13. CASE PublishConfirm(p)
  <2>1. /\ UNCHANGED <<index, flying, settled>> /\ pc[p] = "confirm" /\ pc'[p] # "confirm"
        /\ epoch[p] \in Epochs /\ epoch'[p] = [epoch[p] EXCEPT !.distributor = index[p]]
        /\ OwnTx(p) \in settled
    BY <1>1, <1>13 DEF PublishConfirm, Goto, chain, TypeOK, StepsOK, Working
  <2>2. PICK tx \in settled : tx[2].index = index[p]
    BY <2>1 DEF OwnTx
  <2>3. Stands(index[p], Content(epoch[p]))
    BY <2>1, <2>2 DEF Recorded, Stands
  <2>4. Content(epoch'[p]) = Content(epoch[p]) /\ epoch'[p].distributor = index[p]
    BY <2>1 DEF Content, Epochs
  <2>5. Right(epoch[p])'
    BY <1>2, <2>1, <2>3, <2>4 DEF Right, Stands
  <2>6. flying = {}
    <3> SUFFICES ASSUME NEW other \in flying PROVE FALSE
      OBVIOUS
    <3>1. other[1] = p
      BY <1>5, <2>1, OnePublisher DEF Recorded, Waiting
    <3>2. other[2].index = index[p] /\ other[2].index = TransactionIndex + 1
      BY <3>1 DEF Recorded, Waiting
    <3> QED BY <2>3, <3>2, NextIndex DEF Stands
  <2>7. \A f \in Files : Right(disk[f])'
    BY <1>2 DEF Recorded, Right, Stands
  <2>8. \A q \in Handlers : Right(epoch[q])'
    <3>1. \A q \in Handlers \ {p} : Right(epoch[q])'
      BY <1>2, <1>3 DEF Recorded, Right, Stands
    <3> QED BY <2>5, <3>1
  <2>9. \A t \in settled' : Stands(t[2].index, Content(t[2]))'
    BY <1>2, <2>1 DEF Recorded, Stands
  <2>10. flying' = {}
    BY <2>1, <2>6
  <2>11. \A q \in Publishers : (pc[q] = "confirm" /\ index[q] \in DOMAIN squads
                                   => squads[index[q]] = Content(epoch[q]))'
    BY <1>2, <1>3, <1>4, <2>1 DEF Recorded, Content
  <2> QED BY <2>7, <2>8, <2>9, <2>10, <2>11 DEF Recorded
<1>14. ~PublishSendLost(p)
  BY DEF PublishSendLost, May, Accounted
<1> QED BY <1>7, <1>8, <1>9, <1>10, <1>11, <1>12, <1>13, <1>14 DEF PublishStep, PublishGoesOn

\* A write stores what was recorded.
LEMMA RecordedWrite ==
    ASSUME TypeOK, StepsOK, Recorded, NEW p \in Handlers, Write(p)
    PROVE  Recorded'
<1>1. PICK f \in {epoch[p].id, Latest}, text \in {epoch[p], Torn} :
        disk' = [disk EXCEPT ![f] = text]
  BY WriteEffect
<1>2. UNCHANGED <<flying, settled, squads>>
  BY WriteEffect DEF chain
<1>3. \A q \in Handlers \ {p} : pc'[q] = pc[q] /\ epoch'[q] = epoch[q]
  BY WriteEffect DEF TypeOK
<1>4. epoch'[p] \in {epoch[p], Absent} /\ pc[p] # "confirm" /\ pc'[p] # "confirm"
  BY WriteEffect DEF TypeOK, Write, OpenFile, FillFile, OpenLatest, FillLatest
<1>5. \A q \in Publishers \ {p} : index'[q] = index[q] /\ q \in Handlers
  BY DEF Write, OpenFile, FillFile, OpenLatest, FillLatest, Open, Handlers
<1>6. \A tx \in flying : tx[1] \in Publishers \ {p}
  BY <1>4 DEF TypeOK, Recorded, Waiting
<1>7. \A tx \in flying : Waiting(tx)' /\ tx[2].index = TransactionIndex' + 1
  BY <1>2, <1>3, <1>5, <1>6 DEF Recorded, Waiting, TransactionIndex
<1>8. \A q \in Handlers : Right(epoch[q])'
  BY <1>2, <1>3, <1>4, SentinelAssumption DEF Recorded, Right, Stands
<1>9. \A g \in Files : Right(disk[g])'
  <2>1. \A g \in Files : disk'[g] \in {disk[g], epoch[p], Torn}
    BY <1>1 DEF TypeOK
  <2> QED BY <1>2, <2>1, SentinelAssumption DEF Recorded, Right, Stands
<1> QED BY <1>2, <1>3, <1>4, <1>5, <1>7, <1>8, <1>9 DEF Recorded, Stands

\* The only transaction that is in flight executes, under the next index.
LEMMA RecordedExecute ==
    ASSUME TypeOK, StepsOK, Accounted, Consecutive, Recorded, NEW tx \in flying, Execute(tx)
    PROVE  Consecutive' /\ Recorded'
<1> DEFINE n == TransactionIndex
           content == [id |-> tx[2].id, snapshot |-> tx[2].snapshot]
<1>1. n \in Nat /\ DOMAIN squads = 1..n
  BY NextIndex
<1>2. /\ tx[1] \in Publishers /\ tx[1] \in Handlers /\ Waiting(tx)
      /\ tx[2].index = n + 1
  BY DEF TypeOK, Recorded, Handlers
<1>3. /\ flying' = flying \ {tx} /\ settled' = settled \cup {tx}
      /\ squads' = [j \in DOMAIN squads \cup {n + 1} |-> IF j = n + 1 THEN content ELSE squads[j]]
      /\ UNCHANGED <<disk, pc, epoch, index>>
  BY <1>2 DEF Execute, AddToSquads, store
<1> HIDE DEF n
<1>4. DOMAIN squads' = 1..(n + 1)
  BY <1>1, <1>3
<1>5. /\ squads'[n + 1] = content
      /\ \A j \in DOMAIN squads : j \in DOMAIN squads' /\ squads'[j] = squads[j]
  BY <1>1, <1>3, <1>4
<1>6. Consecutive'
  BY <1>1, <1>4 DEF Consecutive
<1>7. \A i, c : Stands(i, c) => Stands(i, c)'
  BY <1>5 DEF Stands
<1>8. flying' = {}
  <2> SUFFICES ASSUME NEW other \in flying PROVE other = tx
    BY <1>3
  <2>1. other \in Publishers \X Proposals /\ tx \in Publishers \X Proposals
    BY DEF TypeOK
  <2>2. Waiting(other)
    BY DEF Recorded
  <2>3. other[1] = tx[1]
    BY <1>2, <2>1, <2>2, OnePublisher DEF Waiting
  <2>4. other[2] = tx[2]
    <3>1. other[2] \in Proposals /\ tx[2] \in Proposals
      BY <2>1
    <3>2. /\ other[2].index = tx[2].index /\ other[2].id = tx[2].id
          /\ other[2].snapshot = tx[2].snapshot
      BY <1>2, <2>2, <2>3 DEF Waiting
    <3> QED BY <3>1, <3>2 DEF Proposals
  <2> QED BY <2>1, <2>3, <2>4
<1>9. \A t \in settled' : Stands(t[2].index, Content(t[2]))'
  <2>1. Stands(tx[2].index, Content(tx[2]))'
    BY <1>1, <1>2, <1>4, <1>5 DEF Stands, Content
  <2> QED BY <1>3, <1>7, <2>1 DEF Recorded, Content
<1>10. ASSUME NEW p \in Publishers, pc'[p] = "confirm", index'[p] \in DOMAIN squads'
       PROVE  squads'[index'[p]] = Content(epoch'[p])
  <2>1. p = tx[1]
    BY <1>2, <1>3, <1>10, OnePublisher DEF Waiting
  <2> QED BY <1>2, <1>3, <1>5, <2>1 DEF Waiting, Content
<1>11. \A e : Right(e) => (e \in Epochs /\ e.distributor # 0 => Stands(e.distributor, Content(e))')
  BY <1>7 DEF Right, Content
<1> QED BY <1>3, <1>6, <1>8, <1>9, <1>10, <1>11 DEF Recorded, Right

\* Nothing is recorded.
LEMMA RecordedInit == Init => RInv
<1> USE SentinelAssumption, BoundsAssumption
<1> SUFFICES ASSUME Init PROVE RInv
  OBVIOUS
<1>1. TypeOK /\ StepsOK
  BY InitInv DEF IInv
<1>2. DOMAIN squads = 1..0
  BY DEF Init
<1>3. Consecutive
  BY <1>2 DEF Consecutive
<1>4. \A f \in Files : Right(disk[f])
  BY DEF Init, Right
<1>5. \A p \in Handlers : Right(epoch[p])
  BY DEF Init, Right
<1>6. \A p \in Publishers : pc[p] # "confirm"
  BY DEF Init, Handlers
<1> QED BY <1>1, <1>3, <1>4, <1>5, <1>6 DEF Init, RInv, Recorded

\* Every step keeps that what is recorded was proposed.
LEMMA RecordedStep == RInv /\ [Next]_vars => RInv'
<1> SUFFICES ASSUME RInv, [Next]_vars PROVE RInv'
  OBVIOUS
<1>1. TypeOK' /\ StepsOK' /\ UNCHANGED setting
  BY TypesStep, StepsStep, SettingStays DEF RInv
<1>2. ASSUME Steady PROVE Consecutive' /\ Recorded'
  <2> USE <1>2 DEF RInv, Steady
  <2>1. ASSUME NEW tx \in flying, Execute(tx) PROVE Consecutive' /\ Recorded'
    BY <2>1, RecordedExecute
  <2>2. ASSUME \/ UNCHANGED vars \/ Tick \/ \E tx \in flying : Expire(tx)
        PROVE  Consecutive' /\ Recorded'
    <3>1. /\ UNCHANGED <<disk, pc, epoch, index, settled, squads>>
          /\ flying' \subseteq flying
      BY <2>2 DEF vars, Tick, Expire, store, chain
    <3> QED BY <3>1 DEF Consecutive, Recorded, Right, Stands, Waiting, TransactionIndex
  <2>3. ASSUME NEW p \in Runs, RunStep(p) PROVE Consecutive' /\ Recorded'
    <3>1. UNCHANGED squads
      BY <2>3 DEF RunStep, RunGoesOn, StartRun, RunCheck, RunFails, RunNumber, chain
    <3> QED BY <2>3, <3>1, RecordedRun DEF Consecutive
  <2>4. ASSUME NEW p \in Publishers, PublishStep(p) PROVE Consecutive' /\ Recorded'
    <3>1. UNCHANGED squads
      BY <2>4 DEF PublishStep, PublishGoesOn, StartPublish, PublishRead,
         PublishFetchIndex, PublishSend,
         PublishFails, PublishSendLost, PublishConfirm, PublishConfirmFails, chain
    <3> QED BY <2>4, <3>1, RecordedPublish DEF Consecutive
  <2>5. ASSUME NEW p \in Handlers, Write(p) PROVE Consecutive' /\ Recorded'
    <3>1. UNCHANGED squads
      BY <2>5, WriteEffect DEF chain
    <3> QED BY <2>5, <3>1, RecordedWrite DEF Consecutive
  <2>6. ~OtherProposal /\ \A procs : ~Crash(procs)
    BY DEF OtherProposal, Crash, May, Accounted
  <2> QED BY <2>1, <2>2, <2>3, <2>4, <2>5, <2>6 DEF Next, Runs
<1> QED BY <1>1, <1>2 DEF RInv, Steady, Accounted, May

\* So it always holds.
LEMMA RecordedInvariance == Spec => []RInv
  BY RecordedInit, RecordedStep, PTL DEF Spec

\* A recorded saberDistributor is a transaction of the multisig that distributes this
\* very epoch, as long as every proposal is accounted for and no other member of the
\* multisig proposes.
THEOREM RecordedIsProposedHolds == Spec => []RecordedIsProposed
<1>1. ASSUME RInv PROVE RecordedIsProposed
  <2> SUFFICES ASSUME Steady, NEW e \in OnDisk, e.distributor # 0
               PROVE  Stands(e.distributor, Content(e))
    BY DEF RecordedIsProposed, Steady, Stands, Content
  <2>1. PICK f \in Files : e = disk[f] /\ e \in Epochs
    BY <1>1 DEF RInv, TypeOK, OnDisk, EpochById, EpochLatest, Read, Files
  <2> QED BY <1>1, <2>1 DEF RInv, Recorded, Right
<1> QED BY <1>1, RecordedInvariance, PTL

-----------------------------------------------------------------------------
(* A proposal and its sender, whatever other members do. *)

\* A transaction under the next index leaves the others alone.
LEMMA AddGrows ==
    ASSUME Consecutive, NEW content, AddToSquads(TransactionIndex + 1, content)
    PROVE  /\ Consecutive'
           /\ DOMAIN squads' = DOMAIN squads \cup {TransactionIndex + 1}
           /\ squads'[TransactionIndex + 1] = content
           /\ \A i \in DOMAIN squads : squads'[i] = squads[i]
<1> DEFINE n == TransactionIndex
<1>1. n \in Nat /\ DOMAIN squads = 1..n
  BY NextIndex
<1>2. squads' = [j \in DOMAIN squads \cup {n + 1} |-> IF j = n + 1 THEN content ELSE squads[j]]
  BY DEF AddToSquads
<1> HIDE DEF n
<1>3. DOMAIN squads' = 1..(n + 1)
  BY <1>1, <1>2
<1>4. Consecutive'
  BY <1>1, <1>3 DEF Consecutive
<1>5. DOMAIN squads' = DOMAIN squads \cup {n + 1} /\ squads'[n + 1] = content
      /\ \A i \in DOMAIN squads : squads'[i] = squads[i]
  BY <1>1, <1>2
<1> QED BY <1>4, <1>5 DEF n

\* What a step does to the multisig.
LEMMA SquadsStep ==
    ASSUME TypeOK, StepsOK, [Next]_vars
    PROVE  \/ UNCHANGED squads
           \/ /\ \E tx \in flying : Execute(tx) /\ tx[2].index = TransactionIndex + 1
              /\ \E content : AddToSquads(TransactionIndex + 1, content)
           \/ OtherProposal
<1>1. ASSUME NEW p \in Runs, RunStep(p) PROVE UNCHANGED squads
  BY <1>1 DEF RunStep, RunGoesOn, StartRun, RunCheck, RunFails, RunNumber, chain
<1>2. ASSUME NEW p \in Publishers, PublishStep(p) PROVE UNCHANGED squads
  BY <1>2 DEF PublishStep, PublishGoesOn, StartPublish, PublishRead, PublishFetchIndex,
     PublishSend,
     PublishFails, PublishSendLost, PublishConfirm, PublishConfirmFails, chain
<1>3. ASSUME NEW p \in Handlers, Write(p) PROVE UNCHANGED squads
  BY <1>3, WriteEffect DEF chain
<1>4. ASSUME NEW tx \in flying, Execute(tx), tx[2].index # TransactionIndex + 1
      PROVE  UNCHANGED squads
  BY <1>4 DEF Execute
<1>5. ASSUME NEW tx \in flying, Execute(tx), tx[2].index = TransactionIndex + 1
      PROVE  \E content : AddToSquads(TransactionIndex + 1, content)
  BY <1>5 DEF Execute
<1>6. ASSUME UNCHANGED vars \/ Tick \/ (\E tx \in flying : Expire(tx)) \/ (\E procs : Crash(procs))
      PROVE  UNCHANGED squads
  BY <1>6 DEF vars, Tick, Expire, Crash, chain
<1> QED BY <1>1, <1>2, <1>3, <1>4, <1>5, <1>6 DEF Next, Runs

\* The multisig's indexes have no gaps, and none is given up.
LEMMA ConsecutiveStep ==
    ASSUME TypeOK, StepsOK, Consecutive, [Next]_vars
    PROVE  Consecutive' /\ DOMAIN squads \subseteq DOMAIN squads'
<1>1. CASE UNCHANGED squads
  BY <1>1 DEF Consecutive
<1>2. CASE \E content : AddToSquads(TransactionIndex + 1, content)
  BY <1>2, AddGrows
<1>3. CASE OtherProposal
  BY <1>3, AddGrows DEF OtherProposal
<1> QED BY <1>1, <1>2, <1>3, SquadsStep

\* Who sent a transaction that is in flight waits for it; its index is the next one,
\* or another member's by now, and not that of one that has settled.
Awaited ==
    /\ \A tx \in flying : Waiting(tx) /\ tx[2].index \in DOMAIN squads \cup {TransactionIndex + 1}
    /\ \A tx \in settled : tx[2].index \in DOMAIN squads
    /\ \A tx \in flying, done \in settled : done[2].index # tx[2].index

\* The one publication under way has the only transaction in flight.
LEMMA OneFlight ==
    ASSUME TypeOK, StepsOK, Accounted, Awaited, NEW p \in Publishers, pc[p] # "idle"
    PROVE  /\ \A tx \in flying : tx[1] = p
           /\ \A tx, other \in flying : tx = other
<1>1. \A tx \in flying : tx[1] = p
  <2> SUFFICES ASSUME NEW tx \in flying PROVE tx[1] = p
    OBVIOUS
  <2>1. tx[1] \in Publishers /\ pc[tx[1]] # "idle"
    BY DEF TypeOK, Awaited, Waiting
  <2> QED BY <2>1, OnePublisher
<1>2. ASSUME NEW tx \in flying, NEW other \in flying PROVE tx = other
  <2>1. /\ other \in Publishers \X Proposals /\ tx \in Publishers \X Proposals
        /\ Waiting(other) /\ Waiting(tx)
    BY DEF TypeOK, Awaited
  <2>2. other[1] = tx[1]
    BY <1>1
  <2>3. /\ other[2].index = tx[2].index /\ other[2].id = tx[2].id
        /\ other[2].snapshot = tx[2].snapshot
    BY <2>1, <2>2 DEF Waiting
  <2>4. other[2] \in Proposals /\ tx[2] \in Proposals
    BY <2>1
  <2>5. other[2] = tx[2]
    BY <2>3, <2>4 DEF Proposals
  <2> QED BY <2>1, <2>2, <2>5
<1> QED BY <1>1, <1>2

\* A publication waits for what it has sent.
LEMMA AwaitedPublish ==
    ASSUME TypeOK, StepsOK, Accounted, Consecutive, Awaited, NEW p \in Publishers, PublishStep(p)
    PROVE  Awaited'
<1>1. p \in Handlers
  BY DEF Handlers
<1>2. UNCHANGED squads /\ UNCHANGED TransactionIndex
  BY DEF PublishStep, PublishGoesOn, StartPublish, PublishRead, PublishFetchIndex,
     PublishSend,
     PublishFails, PublishSendLost, PublishConfirm, PublishConfirmFails, chain, TransactionIndex
<1>3. CASE PublishSend(p)
  <2> DEFINE sent == [index |-> index[p], id |-> epoch[p].id, snapshot |-> epoch[p].snapshot]
  <2>1. /\ UNCHANGED <<epoch, index>> /\ pc[p] = "send" /\ pc'[p] = "confirm"
        /\ index[p] = TransactionIndex + 1
        /\ flying' = flying \cup {<<p, sent>>} /\ settled' \subseteq settled
    BY <1>1, <1>3 DEF PublishSend, OwnTx, Goto, TypeOK
  <2>2. flying = {}
    BY <2>1, OneFlight DEF Awaited, Waiting
  <2>3. \A done \in settled' : done[2].index # index[p] /\ done[2].index \in DOMAIN squads
    BY <2>1, NextIndex DEF Awaited
  <2> QED BY <1>2, <2>1, <2>2, <2>3 DEF Awaited, Waiting
<1>4. CASE PublishConfirmFails(p) \/ PublishConfirm(p)
  <2>1. UNCHANGED <<flying, settled>> /\ pc[p] = "confirm"
        /\ (OwnTx(p) \notin flying \/ OwnTx(p) \in settled)
    BY <1>4 DEF PublishConfirmFails, PublishConfirm, chain, May, Accounted
  <2>2. flying = {}
    BY <2>1, OneFlight, WaitingIsOwn DEF Awaited, Waiting
  <2> QED BY <1>2, <2>1, <2>2 DEF Awaited
<1>5. CASE StartPublish(p) \/ PublishRead(p) \/ PublishFetchIndex(p) \/ PublishFails(p)
  <2>1. /\ UNCHANGED <<flying, settled>> /\ pc[p] # "confirm"
        /\ \A q \in Handlers \ {p} : pc'[q] = pc[q] /\ epoch'[q] = epoch[q]
        /\ \A q \in Publishers \ {p} : index'[q] = index[q]
    BY <1>1, <1>5 DEF StartPublish, MayStart, PublishRead, PublishFetchIndex,
       PublishFails, Answer,
       Goto, chain, TypeOK
  <2>2. \A tx \in flying : tx[1] \in Publishers \ {p} /\ tx[1] \in Handlers \ {p}
    BY <2>1 DEF TypeOK, Awaited, Waiting, Handlers
  <2> QED BY <1>2, <2>1, <2>2 DEF Awaited, Waiting
<1>6. ~PublishSendLost(p)
  BY DEF PublishSendLost, May, Accounted
<1> QED BY <1>3, <1>4, <1>5, <1>6 DEF PublishStep, PublishGoesOn

\* Every step keeps that a transaction in flight is waited for.
LEMMA AwaitedStep ==
    ASSUME TypeOK, StepsOK, Accounted, Consecutive, Awaited, [Next]_vars
    PROVE  Awaited'
<1>1. ASSUME NEW p \in Publishers, PublishStep(p) PROVE Awaited'
  BY <1>1, AwaitedPublish
<1>2. ASSUME NEW p \in Handlers, (RunStep(p) /\ p \in Runs) \/ Write(p)
      PROVE  Awaited'
  <2>1. /\ UNCHANGED <<flying, settled, squads>> /\ pc[p] # "confirm"
        /\ \A q \in Handlers \ {p} : pc'[q] = pc[q] /\ epoch'[q] = epoch[q]
        /\ \A q \in Publishers \ {p} : index'[q] = index[q] /\ q \in Handlers
    <3>1. CASE RunStep(p)
      <4>1. UNCHANGED <<flying, settled, squads, index>> /\ pc[p] # "confirm"
        BY <3>1 DEF RunStep, RunGoesOn, StartRun, MayStart, RunCheck, RunFails,
           RunNumber, chain
      <4>2. \A q \in Handlers \ {p} : pc'[q] = pc[q] /\ epoch'[q] = epoch[q]
        BY <3>1 DEF RunStep, RunGoesOn, StartRun, RunCheck, RunFails, RunNumber, Goto,
           TypeOK
      <4> QED BY <4>1, <4>2 DEF Handlers
    <3>2. CASE Write(p)
      <4>1. UNCHANGED <<flying, settled, squads>>
            /\ \A q \in Handlers \ {p} : pc'[q] = pc[q] /\ epoch'[q] = epoch[q]
        BY <3>2, WriteEffect DEF chain, TypeOK
      <4> QED BY <3>2, <4>1 DEF Write, OpenFile, FillFile, OpenLatest, FillLatest, Open,
         Handlers
    <3> QED BY <1>2, <3>1, <3>2
  <2>2. \A tx \in flying : tx[1] \in Publishers \ {p} /\ tx[1] \in Handlers \ {p}
    BY <2>1 DEF TypeOK, Awaited, Waiting, Handlers
  <2> QED BY <2>1, <2>2 DEF Awaited, Waiting, TransactionIndex
<1>3. ASSUME NEW tx \in flying, Execute(tx) PROVE Awaited'
  <2>1. flying' = flying \ {tx} /\ settled' = settled \cup {tx}
    BY <1>3 DEF Execute
  <2>2. flying' = {}
    <3>1. tx[1] \in Publishers /\ pc[tx[1]] # "idle"
      BY DEF TypeOK, Awaited, Waiting
    <3> QED BY <2>1, <3>1, OneFlight
  <2>3. DOMAIN squads \subseteq DOMAIN squads'
    BY ConsecutiveStep
  <2>4. tx[2].index \in DOMAIN squads'
    <3>1. CASE tx[2].index = TransactionIndex + 1
      BY <1>3, <3>1, AddGrows DEF Execute
    <3> QED BY <2>3, <3>1 DEF Awaited
  <2> QED BY <2>1, <2>2, <2>3, <2>4 DEF Awaited
<1>4. CASE OtherProposal
  <2>1. UNCHANGED <<pc, epoch, index, flying, settled>>
        /\ DOMAIN squads' = DOMAIN squads \cup {TransactionIndex + 1}
    BY <1>4, AddGrows DEF OtherProposal, store
  <2> QED BY <2>1 DEF Awaited, Waiting
<1>5. CASE UNCHANGED vars \/ Tick \/ \E tx \in flying : Expire(tx)
  <2>1. UNCHANGED <<pc, epoch, index, settled, squads>> /\ flying' \subseteq flying
    BY <1>5 DEF vars, Tick, Expire, store, chain
  <2> QED BY <2>1 DEF Awaited, Waiting, TransactionIndex
<1>6. \A procs : ~Crash(procs)
  BY DEF Crash, May, Accounted
<1> QED BY <1>1, <1>2, <1>3, <1>4, <1>5, <1>6 DEF Next, Runs, Handlers

-----------------------------------------------------------------------------
(* No epoch is proposed twice. *)

Single == Accounted /\ OneRun /\ ~(May("overlap") /\ May("publishById"))

Writes == {"openFile", "fillFile", "openLatest", "fillLatest"}
Readable == IF May("publishById") THEN Files ELSE {Latest}
Done(id) == \E i \in DOMAIN squads : squads[i] # Foreign /\ squads[i].id = id
Open0(f, id) == disk[f] \in Epochs /\ disk[f].id = id /\ disk[f].distributor = 0

Unique == \A i, j \in DOMAIN squads :
              i # j /\ squads[i] # Foreign => squads[i].id # squads[j].id

\* A publisher has an index to propose under, an epoch nobody proposed, and once the
\* epoch is proposed its confirmation; what it writes has a distributor.
Ready ==
    \A p \in Publishers :
        /\ pc[p] \in {"send", "confirm"} => index[p] # 0
        /\ pc[p] \in {"fetchIndex", "send"} => ~Done(epoch[p].id)
        /\ pc[p] = "confirm" /\ Done(epoch[p].id) => flying = {} /\ OwnTx(p) \in settled
        /\ pc[p] \in Writes => epoch[p].distributor # 0

\* A proposed epoch is being recorded, or no file a publisher may read shows it as
\* unpublished; its own file is done before latest.json.
Recording(id) == \E p \in Publishers : pc[p] \in {"confirm"} \cup Writes /\ epoch[p].id = id
Marked ==
    /\ \A id \in Ids : Done(id) => Recording(id) \/ \A f \in Readable : ~Open0(f, id)
    /\ \A p \in Publishers : pc[p] \in {"openLatest", "fillLatest"} /\ May("publishById")
                               => ~Open0(epoch[p].id, epoch[p].id)

\* The epoch a run works on is not proposed, nor in latest.json yet, nor held by a
\* publisher.
Fresh ==
    \A q \in Runs : pc[q] \in Working =>
        /\ ~Done(epoch[q].id)
        /\ disk[Latest] \in Epochs => disk[Latest].id # epoch[q].id
        /\ \A p \in Publishers : pc[p] \in Working => epoch[p].id # epoch[q].id

Named == \A f \in Ids : disk[f] \in Epochs => disk[f].id = f

Once == Unique /\ Ready /\ Marked /\ Fresh /\ Named

PInv == IInv /\ Consecutive /\ (Accounted => Awaited) /\ (Single => Once)

\* The four steps of a write.
LEMMA WriteCases ==
    ASSUME TypeOK, StepsOK, NEW p \in Handlers, Write(p)
    PROVE  /\ epoch[p] \in Epochs /\ epoch[p].id \in Ids /\ epoch[p].id \in Files /\ Latest \in Files
           /\ pc[p] \in Writes
           /\ \A q \in Handlers \ {p} : pc'[q] = pc[q] /\ epoch'[q] = epoch[q]
           /\ \A q \in Publishers \ {p} : index'[q] = index[q] /\ q \in Handlers
           /\ UNCHANGED <<setting, flying, settled, squads>>
           /\ \/ /\ pc'[p] = "fillFile" /\ epoch'[p] = epoch[p]
                 /\ disk' = [disk EXCEPT ![epoch[p].id] = Torn]
              \/ /\ pc'[p] = "openLatest" /\ epoch'[p] = epoch[p]
                 /\ \E text \in {epoch[p], Torn} : disk' = [disk EXCEPT ![epoch[p].id] = text]
              \/ /\ pc[p] = "openLatest" /\ pc'[p] = "fillLatest" /\ epoch'[p] = epoch[p]
                 /\ disk' = [disk EXCEPT ![Latest] = Torn]
              \/ /\ pc[p] = "fillLatest" /\ pc'[p] = "idle"
                 /\ \E text \in {epoch[p], Torn} : disk' = [disk EXCEPT ![Latest] = text]
<1>1. /\ epoch[p] \in Epochs /\ {epoch[p].id, Latest} \subseteq Files
      /\ UNCHANGED <<setting, flying, settled, squads>>
      /\ \A q \in Handlers \ {p} : pc'[q] = pc[q] /\ epoch'[q] = epoch[q]
  BY WriteEffect DEF chain, TypeOK
<1>2. /\ pc[p] \in Writes
      /\ \A q \in Publishers \ {p} : index'[q] = index[q] /\ q \in Handlers
  BY DEF Write, OpenFile, FillFile, OpenLatest, FillLatest, Open, Handlers, Writes
<1>3. CASE OpenFile(p)
  BY <1>1, <1>2, <1>3 DEF OpenFile, Open, Goto, TypeOK, Epochs
<1>4. CASE FillFile(p)
  BY <1>1, <1>2, <1>4 DEF FillFile, Fill, Goto, TypeOK, Epochs
<1>5. CASE OpenLatest(p)
  BY <1>1, <1>2, <1>5 DEF OpenLatest, Open, Goto, TypeOK, Epochs
<1>6. CASE FillLatest(p)
  <2>1. \E text \in {epoch[p], Torn} : disk' = [disk EXCEPT ![Latest] = text]
    BY <1>6 DEF FillLatest, Fill
  <2>2. pc[p] = "fillLatest" /\ pc'[p] = "idle"
    BY <1>6 DEF FillLatest, Fill, Goto, TypeOK
  <2> QED BY <1>1, <1>2, <2>1, <2>2 DEF Epochs
<1> QED BY <1>3, <1>4, <1>5, <1>6 DEF Write

\* A run makes a new epoch, which nobody has proposed.
LEMMA OnceRun ==
    ASSUME IInv, Single, Once, NEW p \in Runs, RunStep(p)
    PROVE  Once'
<1> USE SentinelAssumption DEF IInv, Single
<1>1. p \in Handlers /\ p \notin Publishers /\ \A q \in Publishers : q \in Handlers \ {p}
  BY DEF Runs, Handlers
<1>2. UNCHANGED <<setting, disk, index, flying, settled, squads>>
  BY DEF RunStep, RunGoesOn, StartRun, RunCheck, RunFails, RunNumber, store, chain
<1>3. \A q \in Handlers \ {p} : pc'[q] = pc[q] /\ epoch'[q] = epoch[q]
  <2>1. CASE RunNumber(p)
    <3>1. \E e : epoch' = [epoch EXCEPT ![p] = e]
      BY <2>1, NumberEffect
    <3> QED BY <1>1, <2>1, <3>1 DEF RunNumber, Goto, TypeOK
  <2>2. CASE StartRun(p) \/ RunCheck(p) \/ RunFails(p)
    BY <1>1, <2>2 DEF StartRun, RunCheck, RunFails, Goto, TypeOK
  <2> QED BY <2>1, <2>2 DEF RunStep, RunGoesOn
<1>4. \A q \in Publishers : pc'[q] = pc[q] /\ epoch'[q] = epoch[q]
  BY <1>1, <1>3
<1>5. \A id : Done(id)' <=> Done(id)
  BY <1>2 DEF Done
<1>6. Unique' /\ Named'
  BY <1>2 DEF Once, Unique, Named
<1>7. Ready'
  BY <1>2, <1>4, <1>5 DEF Once, Ready, OwnTx
<1>8. Marked'
  BY <1>2, <1>4, <1>5 DEF Once, Marked, Recording, Readable, Open0, May
<1>9. Fresh'
  <2>1. CASE ~RunNumber(p)
    <3>1. pc'[p] \notin Working
      BY <1>1, <2>1 DEF RunStep, RunGoesOn, StartRun, RunCheck, RunFails, Goto, TypeOK,
         Working
    <3> QED BY <1>1, <1>2, <1>3, <1>4, <1>5, <3>1 DEF Once, Fresh, Runs, Handlers
  <2>2. CASE RunNumber(p)
    <3>1. PICK e \in Epochs : epoch' = [epoch EXCEPT ![p] = e] /\ e.id = NextEpochId
      BY <2>2, NumberEffect
    <3>2. epoch'[p] = e /\ e.id \in Ids
      BY <1>1, <3>1 DEF TypeOK, Epochs
    <3>3. \A id \in Ids, snapshot \in Snapshots : Known(id, snapshot) => id # e.id
      BY <2>2, <3>1, NumberNew
    <3>4. ~Done(e.id)
      <4> SUFFICES ASSUME NEW i \in DOMAIN squads, squads[i] # Foreign, squads[i].id = e.id
                   PROVE  FALSE
        BY DEF Done
      <4>1. squads[i] \in [id : Ids, snapshot : Snapshots]
        BY DEF TypeOK, Contents
      <4>2. Known(squads[i].id, squads[i].snapshot)
        BY <4>1 DEF Known, InSquads
      <4> QED BY <3>2, <3>3, <4>1, <4>2
    <3>5. disk[Latest] \in Epochs => disk[Latest].id # e.id
      BY <3>2, <3>3 DEF Known, OnFile, Says, Files, Epochs
    <3>6. \A q \in Publishers : pc[q] \in Working => epoch[q].id # e.id
      <4> SUFFICES ASSUME NEW q \in Publishers, pc[q] \in Working PROVE epoch[q].id # e.id
        OBVIOUS
      <4>1. q \in Handlers /\ epoch[q] \in Epochs
        BY DEF StepsOK, TypeOK, Handlers
      <4>2. /\ Known(epoch[q].id, epoch[q].snapshot)
            /\ epoch[q].id \in Ids /\ epoch[q].snapshot \in Snapshots
        BY <4>1 DEF Known, Says, Epochs
      <4> QED BY <3>3, <4>2
    <3> QED BY <1>1, <1>2, <1>3, <1>4, <1>5, <3>2, <3>4, <3>5, <3>6 DEF Once, Fresh,
       Runs, Handlers
  <2> QED BY <2>1, <2>2
<1> QED BY <1>6, <1>7, <1>8, <1>9 DEF Once

\* A write leaves a proposed epoch marked, or about to be.
LEMMA OnceWrite ==
    ASSUME IInv, Single, Once, NEW p \in Handlers, Write(p)
    PROVE  Once'
<1> USE SentinelAssumption DEF IInv, Single
<1>0. PICK id0 \in Ids : id0 = epoch[p].id
  BY WriteCases
<1>1. /\ epoch[p] \in Epochs /\ epoch[p].id = id0 /\ id0 \in Files /\ Latest \in Files
      /\ pc[p] \in Writes /\ disk \in [Files -> Epochs \cup {Absent, Torn}]
      /\ \A q \in Handlers \ {p} : pc'[q] = pc[q] /\ epoch'[q] = epoch[q]
      /\ \A q \in Publishers \ {p} : index'[q] = index[q] /\ q \in Handlers
      /\ UNCHANGED <<setting, flying, settled, squads>>
  BY <1>0, WriteCases DEF TypeOK
<1>2. \/ /\ pc'[p] = "fillFile" /\ epoch'[p] = epoch[p]
         /\ disk' = [disk EXCEPT ![id0] = Torn]
      \/ /\ pc'[p] = "openLatest" /\ epoch'[p] = epoch[p]
         /\ \E text \in {epoch[p], Torn} : disk' = [disk EXCEPT ![id0] = text]
      \/ /\ pc[p] = "openLatest" /\ pc'[p] = "fillLatest" /\ epoch'[p] = epoch[p]
         /\ disk' = [disk EXCEPT ![Latest] = Torn]
      \/ /\ pc[p] = "fillLatest" /\ pc'[p] = "idle"
         /\ \E text \in {epoch[p], Torn} : disk' = [disk EXCEPT ![Latest] = text]
  BY <1>0, WriteCases
<1>3. \A f \in Files : disk'[f] \in {disk[f], epoch[p], Torn}
  BY <1>1, <1>2
<1>4. \A id : Done(id)' <=> Done(id)
  BY <1>1 DEF Done
<1>5. \A q \in Publishers \ {p} : pc'[q] = pc[q] /\ epoch'[q] = epoch[q]
  BY <1>1
<1>6. Unique'
  BY <1>1 DEF Once, Unique
<1>7. Named'
  BY <1>1, <1>2 DEF Once, Named, Files
<1>8. Ready'
  <2>1. pc'[p] \notin {"send", "confirm", "fetchIndex"}
    BY <1>2
  <2>2. p \in Publishers /\ pc'[p] \in Writes => epoch'[p].distributor # 0
    BY <1>1, <1>2 DEF Once, Ready, Writes
  <2> QED BY <1>1, <1>4, <1>5, <2>1, <2>2 DEF Once, Ready, OwnTx
<1>9. CASE p \in Runs
  <2>1. p \notin Publishers
    BY <1>9 DEF Runs
  <2>2. ~Done(id0) /\ (disk[Latest] \in Epochs => disk[Latest].id # id0)
    BY <1>1, <1>9 DEF Once, Fresh, Working, Writes
  <2>3. \A id, f : f \in Files /\ Done(id) /\ Open0(f, id)' => Open0(f, id)
    BY <1>1, <1>3, <2>2 DEF Open0
  <2>4. \A id : Recording(id)' <=> Recording(id)
    BY <1>5, <2>1 DEF Recording
  <2>5. Readable' = Readable /\ Readable \subseteq Files
    BY <1>1 DEF Readable, May, Files
  <2>6. Marked'
    <3>1. \A id \in Ids : Done(id)' => Recording(id)' \/ \A f \in Readable' : ~Open0(f, id)'
      BY <1>4, <2>3, <2>4, <2>5 DEF Once, Marked
    <3>2. \A q \in Publishers : pc'[q] \in {"openLatest", "fillLatest"} => May("overlap")
      <4> SUFFICES ASSUME NEW q \in Publishers, pc'[q] \in {"openLatest", "fillLatest"},
          ~May("overlap")
                   PROVE  FALSE
        OBVIOUS
      <4>1. q \in Handlers /\ pc[q] # "idle" /\ q # p
        BY <1>5, <2>1 DEF Handlers
      <4> QED BY <1>1, <4>1 DEF InTurn, Writes
    <3> QED BY <1>1, <3>1, <3>2 DEF Marked, May
  <2>7. Fresh'
    <3>1. \A q \in Runs \ {p} : pc'[q] = "idle"
      <4> SUFFICES ASSUME NEW q \in Runs \ {p}, pc'[q] # "idle" PROVE FALSE
        OBVIOUS
      <4>1. q \in Handlers /\ pc[q] # "idle"
        BY <1>1 DEF Runs, Handlers
      <4> QED BY <1>1, <1>9, <4>1, OneRunning DEF Writes
    <3>2. pc'[p] \in Working => /\ epoch'[p] = epoch[p]
                               /\ disk'[Latest] \in {disk[Latest], Torn}
      BY <1>1, <1>2 DEF Working
    <3>3. \A q \in Publishers : pc'[q] \in Working => epoch'[q].id # id0
      BY <1>1, <1>5, <1>9, <2>1 DEF Once, Fresh, Working, Writes
    <3> QED BY <1>1, <1>4, <2>2, <3>1, <3>2, <3>3 DEF Fresh, Working
  <2> QED BY <1>6, <1>7, <1>8, <2>6, <2>7 DEF Once
<1>10. CASE p \in Publishers
  <2>1. epoch[p].distributor # 0
    BY <1>1, <1>10 DEF Once, Ready
  <2>2. \A q \in Publishers \ {p} : pc[q] = "idle"
    BY <1>1, <1>10, OnePublisher DEF Writes
  <2>3. \A id : Recording(id) => id = id0
    BY <1>1, <2>2 DEF Recording, Writes
  <2>4. \A id, f : f \in Files /\ Open0(f, id)' => Open0(f, id)
    BY <1>3, <2>1 DEF Open0
  <2>5. Readable' = Readable /\ Readable \subseteq Files
    BY <1>1 DEF Readable, May, Files
  <2>6. CASE pc'[p] # "idle"
    <3>1. Recording(id0)' /\ epoch'[p] = epoch[p]
      BY <1>1, <1>2, <1>10, <2>6 DEF Recording, Writes
    <3>2. \A id \in Ids : Done(id)' => Recording(id)' \/ \A f \in Readable' : ~Open0(f, id)'
      BY <1>4, <2>3, <2>4, <2>5, <3>1 DEF Once, Marked
    <3>3. pc'[p] \in {"openLatest", "fillLatest"} /\ May("publishById") => ~Open0(id0, id0)'
      <4>1. CASE pc'[p] = "openLatest"
        <5>1. disk'[id0] \in {epoch[p], Torn}
          BY <1>1, <1>2, <4>1
        <5> QED BY <2>1, <5>1 DEF Open0
      <4>2. CASE pc'[p] = "fillLatest"
        <5>1. pc[p] = "openLatest"
          BY <1>2, <4>2
        <5> QED BY <1>1, <1>10, <2>4, <5>1 DEF Once, Marked
      <4> QED BY <4>1, <4>2
    <3>4. Marked'
      <4>1. \A q \in Publishers : pc'[q] \in {"openLatest", "fillLatest"} => q = p
        BY <1>5, <2>2
      <4> QED BY <1>1, <3>1, <3>2, <3>3, <4>1 DEF Marked, May
    <3>5. Fresh'
      <4>1. disk'[Latest] \in {disk[Latest], Torn}
        BY <1>1, <1>2, <2>6
      <4>2. \A q \in Runs : pc'[q] = pc[q] /\ epoch'[q] = epoch[q]
        BY <1>1, <1>10 DEF Runs, Handlers
      <4>3. pc[p] \in Working
        BY <1>1 DEF Writes, Working
      <4> QED BY <1>4, <1>5, <3>1, <4>1, <4>2, <4>3 DEF Once, Fresh
    <3> QED BY <1>6, <1>7, <1>8, <3>4, <3>5 DEF Once
  <2>7. CASE pc'[p] = "idle"
    <3>1. pc[p] = "fillLatest" /\ disk'[Latest] \in {epoch[p], Torn}
      BY <1>1, <1>2, <2>7
    <3>2. \A f \in Readable : ~Open0(f, id0)'
      <4> SUFFICES ASSUME NEW f \in Readable, Open0(f, id0)' PROVE FALSE
        OBVIOUS
      <4>1. f # Latest
        BY <2>1, <3>1 DEF Open0
      <4>2. May("publishById") /\ f \in Ids
        BY <4>1 DEF Readable, Files
      <4>3. f = id0
        BY <1>7, <4>2 DEF Named, Open0
      <4>4. Open0(id0, id0)
        BY <2>4, <2>5, <4>3
      <4> QED BY <1>1, <1>10, <3>1, <4>2, <4>4 DEF Once, Marked
    <3>3. \A id \in Ids : Done(id)' => Recording(id)' \/ \A f \in Readable' : ~Open0(f, id)'
      BY <1>4, <2>3, <2>4, <2>5, <3>2 DEF Once, Marked
    <3>4. \A q \in Publishers : pc'[q] = "idle"
      BY <1>5, <2>2, <2>7
    <3>5. Marked'
      BY <3>3, <3>4 DEF Marked
    <3>6. Fresh'
      <4>1. \A q \in Runs : pc'[q] = pc[q] /\ epoch'[q] = epoch[q]
        BY <1>1, <1>10 DEF Runs, Handlers
      <4>2. \A q \in Runs : pc[q] \in Working => id0 # epoch[q].id
        BY <1>1, <1>10, <3>1 DEF Once, Fresh, Working
      <4> QED BY <1>1, <1>4, <3>1, <3>4, <4>1, <4>2 DEF Once, Fresh, Working
    <3> QED BY <1>6, <1>7, <1>8, <3>5, <3>6 DEF Once
  <2> QED BY <2>6, <2>7
<1> QED BY <1>9, <1>10 DEF Handlers, Runs

\* A publication proposes only an epoch that is not marked.
LEMMA OncePublish ==
    ASSUME IInv, Single, Awaited, Once, NEW p \in Publishers, PublishStep(p)
    PROVE  Once'
<1> USE SentinelAssumption DEF IInv, Single
<1>1. p \in Handlers /\ p \notin Runs /\ \A q \in Runs : q \in Handlers \ {p}
  BY DEF Runs, Handlers
<1>2. UNCHANGED <<setting, disk, squads>>
  BY DEF PublishStep, PublishGoesOn, StartPublish, PublishRead, PublishFetchIndex,
     PublishSend, PublishFails, PublishSendLost,
     PublishConfirm, PublishConfirmFails, store, chain
<1>3. \A q \in Handlers \ {p} : pc'[q] = pc[q] /\ epoch'[q] = epoch[q]
  BY <1>1 DEF PublishStep, PublishGoesOn, StartPublish, PublishRead, PublishFetchIndex,
     PublishSend,
     PublishFails, PublishSendLost, PublishConfirm, PublishConfirmFails, Answer, Goto, TypeOK
<1>4. \A q \in Publishers \ {p} : pc'[q] = pc[q] /\ epoch'[q] = epoch[q] /\ index'[q] = index[q]
  BY <1>3 DEF PublishStep, PublishGoesOn, StartPublish, PublishRead, PublishFetchIndex,
     PublishSend, PublishFails, PublishSendLost,
     PublishConfirm, PublishConfirmFails, Answer, TypeOK, Handlers
<1>5. \A id : Done(id)' <=> Done(id)
  BY <1>2 DEF Done
<1>6. Unique' /\ Named'
  BY <1>2 DEF Once, Unique, Named
<1>7. pc[p] # "idle" => \A q \in Publishers \ {p} : pc[q] = "idle"
  BY OnePublisher
\* What is left to show of each step: about p, and about the epoch it holds.
<1>8. ASSUME pc[p] # "idle", pc'[p] \notin {"openLatest", "fillLatest"},
             pc'[p] \in {"send", "confirm"} => index'[p] # 0,
             pc'[p] \in {"fetchIndex", "send"} => ~Done(epoch'[p].id),
             pc'[p] = "confirm" => ~Done(epoch'[p].id),
             pc'[p] \in Writes => epoch'[p].distributor # 0,
             \A id \in Ids : Recording(id) /\ Done(id) =>
                 pc'[p] \in {"confirm"} \cup Writes /\ epoch'[p].id = id,
             pc'[p] \in Working => \A q \in Runs : pc[q] \in Working => epoch'[p].id # epoch[q].id
      PROVE  Once'
  <2>1. \A q \in Publishers \ {p} : pc'[q] = "idle"
    BY <1>4, <1>7, <1>8
  <2>2. Ready'
    BY <1>5, <1>8, <2>1 DEF Ready, Writes
  <2>3. Marked'
    <3>1. \A id \in Ids : Recording(id) /\ Done(id) => Recording(id)'
      BY <1>8 DEF Recording
    <3>2. Readable' = Readable
      BY <1>2 DEF Readable, May
    <3>3. \A f, id : Open0(f, id)' <=> Open0(f, id)
      BY <1>2 DEF Open0
    <3>4. \A id \in Ids : Done(id)' => Recording(id)' \/ \A f \in Readable' : ~Open0(f, id)'
      BY <1>5, <3>1, <3>2, <3>3 DEF Once, Marked
    <3> QED BY <1>8, <2>1, <3>4 DEF Marked
  <2>4. Fresh'
    <3>1. \A q \in Runs : pc'[q] = pc[q] /\ epoch'[q] = epoch[q]
      BY <1>1, <1>3
    <3> QED BY <1>2, <1>5, <1>8, <2>1, <3>1 DEF Once, Fresh, Working
  <2> QED BY <1>6, <2>2, <2>3, <2>4 DEF Once
<1>9. CASE StartPublish(p)
  <2>1. /\ UNCHANGED <<epoch, index, flying, settled>>
        /\ pc[p] = "idle" /\ pc'[p] = "read"
    BY <1>1, <1>9 DEF StartPublish, MayStart, Goto, chain, TypeOK
  <2>2. Ready'
    BY <1>4, <1>5, <2>1 DEF Once, Ready, OwnTx, Writes
  <2>3. \A id : Recording(id)' <=> Recording(id)
    BY <1>4, <2>1 DEF Recording, Writes
  <2>4. Marked'
    BY <1>2, <1>4, <1>5, <2>1, <2>3 DEF Once, Marked, Readable, Open0, May
  <2>5. Fresh'
    BY <1>1, <1>2, <1>3, <1>4, <1>5, <2>1 DEF Once, Fresh, Working
  <2> QED BY <1>6, <2>2, <2>4, <2>5 DEF Once
<1>10. CASE PublishRead(p)
  <2>1. pc[p] = "read" /\ pc'[p] \in {"idle", "fetchIndex"}
    BY <1>1, <1>10 DEF PublishRead, Goto, TypeOK
  <2>2. \A id : ~Recording(id)
    BY <1>7, <2>1 DEF Recording, Writes
  <2>3. ASSUME pc'[p] = "fetchIndex"
        PROVE  /\ ~Done(epoch'[p].id)
               /\ \A q \in Runs : pc[q] \in Working => epoch'[p].id # epoch[q].id
    <3>1. PICK f \in Readable : epoch' = [epoch EXCEPT ![p] = Read(f)] /\ Read(f) # Absent
                               /\ Read(f).distributor = 0
      BY <1>1, <1>10, <2>1, <2>3 DEF PublishRead, Goto, TypeOK, Readable
    <3>2. f \in Files /\ disk[f] \in Epochs /\ epoch'[p] = disk[f] /\ disk[f].id \in Ids
      BY <1>1, <3>1 DEF Readable, Read, TypeOK, Files, Epochs
    <3>3. Open0(f, disk[f].id)
      BY <3>1, <3>2 DEF Open0, Read
    <3>4. ~Done(epoch'[p].id)
      BY <2>2, <3>1, <3>2, <3>3 DEF Once, Marked
    <3>5. ASSUME NEW q \in Runs, pc[q] \in Working PROVE epoch'[p].id # epoch[q].id
      <4>1. CASE May("publishById")
        <5>1. q \in Handlers /\ q # p /\ pc[q] # "idle"
          BY <1>1, <3>5 DEF Working
        <5> QED BY <1>1, <2>1, <4>1, <5>1 DEF InTurn
      <4>2. CASE ~May("publishById")
        BY <3>1, <3>2, <3>5, <4>2 DEF Once, Fresh, Readable
      <4> QED BY <4>1, <4>2
    <3> QED BY <3>4, <3>5
  <2> QED BY <1>8, <2>1, <2>2, <2>3 DEF Writes, Working
<1>11. CASE PublishFetchIndex(p)
  <2>1. /\ pc[p] = "fetchIndex" /\ pc'[p] = "send" /\ epoch'[p] = epoch[p]
        /\ index'[p] = TransactionIndex + 1
    BY <1>1, <1>11 DEF PublishFetchIndex, Goto, TypeOK
  <2>2. index'[p] # 0
    BY <2>1, IndexType
  <2>3. \A id : ~Recording(id)
    BY <1>7, <2>1 DEF Recording, Writes
  <2> QED BY <1>8, <2>1, <2>2, <2>3 DEF Once, Ready, Fresh, Working, Writes
<1>12. CASE PublishSend(p)
  <2>1. pc[p] = "send" /\ pc'[p] = "confirm" /\ epoch'[p] = epoch[p] /\ index'[p] = index[p]
    BY <1>1, <1>12 DEF PublishSend, Goto, TypeOK
  <2>2. \A id : ~Recording(id)
    BY <1>7, <2>1 DEF Recording, Writes
  <2> QED BY <1>8, <2>1, <2>2 DEF Once, Ready, Fresh, Working, Writes
<1>13. CASE PublishFails(p)
  <2>1. pc[p] \in {"fetchIndex", "send"} /\ pc'[p] = "idle"
    BY <1>1, <1>13 DEF PublishFails, Answer, Goto, TypeOK
  <2>2. \A id : ~Recording(id)
    BY <1>7, <2>1 DEF Recording, Writes
  <2> QED BY <1>8, <2>1, <2>2 DEF Working, Writes
<1>14. CASE PublishConfirm(p)
  <2>1. /\ pc[p] = "confirm" /\ pc'[p] = "openFile" /\ epoch[p] \in Epochs
        /\ epoch'[p] = [epoch[p] EXCEPT !.distributor = index[p]]
    BY <1>1, <1>14 DEF PublishConfirm, Goto, TypeOK, StepsOK, Working
  <2>2. epoch'[p].id = epoch[p].id /\ epoch'[p].distributor = index[p] /\ index[p] # 0
    BY <2>1 DEF Epochs, Once, Ready
  <2>3. \A id : Recording(id) => id = epoch[p].id
    BY <1>7, <2>1 DEF Recording, Writes
  <2> QED BY <1>8, <2>1, <2>2, <2>3 DEF Once, Fresh, Working, Writes
<1>15. CASE PublishConfirmFails(p)
  <2>1. pc[p] = "confirm" /\ pc'[p] = "idle" /\ OwnTx(p) \notin settled
    BY <1>1, <1>15 DEF PublishConfirmFails, Answer, Goto, TypeOK, May, Accounted
  <2>2. ~Done(epoch[p].id)
    BY <2>1 DEF Once, Ready
  <2>3. \A id : Recording(id) => id = epoch[p].id
    BY <1>7, <2>1 DEF Recording, Writes
  <2> QED BY <1>8, <2>1, <2>2, <2>3 DEF Working, Writes
<1>16. ~PublishSendLost(p)
  BY DEF PublishSendLost, May, Accounted
<1> QED BY <1>9, <1>10, <1>11, <1>12, <1>13, <1>14, <1>15, <1>16 DEF PublishStep, PublishGoesOn

\* The proposal that is executed is the epoch's first.
LEMMA OnceExecute ==
    ASSUME IInv, Consecutive, Single, Awaited, Once, NEW tx \in flying, Execute(tx)
    PROVE  Once'
<1> USE SentinelAssumption DEF IInv, Single
<1> DEFINE content == [id |-> tx[2].id, snapshot |-> tx[2].snapshot]
<1>1. PICK p \in Publishers : p = tx[1] /\ p \in Handlers
  BY DEF TypeOK, Handlers
<1>2. /\ tx[2] \in Proposals /\ pc[p] = "confirm"
      /\ tx[2].index = index[p] /\ tx[2].id = epoch[p].id
  BY <1>1 DEF TypeOK, Awaited, Waiting
<1>3. /\ UNCHANGED <<setting, disk, pc, epoch, index>>
      /\ flying' = flying \ {tx} /\ settled' = settled \cup {tx}
  BY DEF Execute, store
<1>4. flying' = {} /\ (OwnTx(p) \in settled)'
  BY <1>1, <1>2, <1>3, OneFlight, WaitingIsOwn DEF OwnTx, Awaited
<1>5. \A q \in Publishers : pc[q] # "idle" => q = p
  BY <1>2, OnePublisher
<1>6. PICK id0 \in Ids : id0 = epoch[p].id
  BY <1>2 DEF Proposals
<1>7. ~Done(id0)
  BY <1>2, <1>6 DEF Once, Ready
<1>9. ASSUME Unique', \A id : Done(id)' => Done(id) \/ id = id0
      PROVE  Once'
  <2>1. Named'
    BY <1>3 DEF Once, Named
  <2>2. Ready'
    <3>1. \A q \in Publishers : pc[q] \in {"send", "confirm", "fetchIndex"} \cup Writes => q = p
      BY <1>5 DEF Writes
    <3> QED BY <1>2, <1>3, <1>4, <3>1 DEF Once, Ready, Writes
  <2>3. Recording(id0)'
    BY <1>1, <1>2, <1>3, <1>6 DEF Recording
  <2>4. \A id \in Ids : Recording(id)' <=> Recording(id)
    BY <1>3 DEF Recording
  <2>5. Readable' = Readable /\ \A f, id : Open0(f, id)' <=> Open0(f, id)
    BY <1>3 DEF Readable, May, Open0
  <2>6. \A id \in Ids : Done(id)' => Recording(id)' \/ \A f \in Readable' : ~Open0(f, id)'
    BY <1>9, <2>3, <2>4, <2>5 DEF Once, Marked
  <2>7. Marked'
    BY <1>2, <1>3, <1>5, <2>6 DEF Marked
  <2>8. Fresh'
    <3>1. \A q \in Runs : pc[q] \in Working => epoch[q].id # id0
      BY <1>2, <1>6 DEF Once, Fresh, Working
    <3> QED BY <1>3, <1>9, <3>1 DEF Once, Fresh
  <2> QED BY <1>9, <2>1, <2>2, <2>7, <2>8 DEF Once
<1>10. CASE tx[2].index # TransactionIndex + 1
  <2>1. UNCHANGED squads
    BY <1>10 DEF Execute
  <2> QED BY <1>9, <2>1 DEF Once, Unique, Done
<1>11. CASE tx[2].index = TransactionIndex + 1
  <2> DEFINE n == TransactionIndex + 1
  <2>1. /\ DOMAIN squads' = DOMAIN squads \cup {n} /\ squads'[n] = content
        /\ n \notin DOMAIN squads
        /\ \A i \in DOMAIN squads : squads'[i] = squads[i]
    BY <1>11, AddGrows, NextIndex DEF Execute
  <2> HIDE DEF n
  <2>2. content.id = id0 /\ Foreign.id # id0
    BY <1>2, <1>6, BoundsAssumption DEF Foreign, Ids
  <2> HIDE DEF content
  <2>3. \A i \in DOMAIN squads : squads[i].id # id0
    <3> SUFFICES ASSUME NEW i \in DOMAIN squads PROVE squads[i].id # id0
      OBVIOUS
    <3> QED BY <1>7, <2>2 DEF Done
  <2>4. \A id : Done(id)' => Done(id) \/ id = id0
    BY <2>1, <2>2 DEF Done
  <2>5. Unique'
    BY <2>1, <2>2, <2>3 DEF Once, Unique
  <2> QED BY <1>9, <2>4, <2>5
<1> QED BY <1>10, <1>11

\* Expiry, other members and the clock propose no epoch.
LEMMA OnceElsewhere ==
    ASSUME IInv, Consecutive, Single, Awaited, Once,
           (\E tx \in flying : Expire(tx)) \/ OtherProposal \/ Tick \/ UNCHANGED vars
    PROVE  Once'
<1> USE DEF IInv, Single
<1>1. UNCHANGED <<setting, disk, pc, epoch, index, settled>> /\ flying' \subseteq flying
  BY DEF Expire, OtherProposal, Tick, vars, store, chain
<1>2. (\A id \in Ids : Done(id)' <=> Done(id)) /\ Unique'
  <2>1. CASE UNCHANGED squads
    BY <2>1 DEF Done, Once, Unique
  <2>2. CASE OtherProposal
    <3> DEFINE n == TransactionIndex + 1
    <3>1. /\ DOMAIN squads' = DOMAIN squads \cup {n} /\ squads'[n] = Foreign
          /\ n \notin DOMAIN squads
          /\ \A i \in DOMAIN squads : squads'[i] = squads[i]
      BY <2>2, AddGrows, NextIndex DEF OtherProposal
    <3> HIDE DEF n
    <3>2. \A i \in DOMAIN squads : squads[i] # Foreign => squads[i].id # Foreign.id
      <4>1. \A i \in DOMAIN squads : squads[i] # Foreign => squads[i].id \in Ids
        BY DEF TypeOK, Contents
      <4> QED BY <4>1, BoundsAssumption DEF Foreign, Ids
    <3>3. Unique'
      BY <3>1, <3>2 DEF Once, Unique
    <3>4. \A id \in Ids : Done(id)' <=> Done(id)
      BY <3>1 DEF Done
    <3> QED BY <3>3, <3>4
  <2>3. CASE Tick \/ UNCHANGED vars \/ \E tx \in flying : Expire(tx)
    <3>1. UNCHANGED squads
      BY <2>3 DEF Expire, Tick, vars, chain
    <3> QED BY <2>1, <3>1
  <2> QED BY <2>2, <2>3
<1>3. \A q \in Handlers : pc[q] \in Working => epoch[q].id \in Ids
  BY DEF StepsOK, TypeOK, Epochs
<1>4. Ready'
  BY <1>1, <1>2, <1>3 DEF Once, Ready, OwnTx, Working, Handlers
<1>5. Marked'
  <2>1. \A id \in Ids : Recording(id)' <=> Recording(id)
    BY <1>1 DEF Recording
  <2>2. Readable' = Readable /\ \A f, id : Open0(f, id)' <=> Open0(f, id)
    BY <1>1 DEF Readable, May, Open0
  <2>3. \A id \in Ids : Done(id)' => Recording(id)' \/ \A f \in Readable' : ~Open0(f, id)'
    BY <1>2, <2>1, <2>2 DEF Once, Marked
  <2> QED BY <1>1, <2>2, <2>3 DEF Once, Marked, May
<1>6. Fresh'
  BY <1>1, <1>2, <1>3 DEF Once, Fresh, Runs, Handlers
<1>7. Named'
  BY <1>1 DEF Once, Named
<1> QED BY <1>2, <1>4, <1>5, <1>6, <1>7 DEF Once

\* Nothing is proposed.
LEMMA OnceInit == Init => PInv
<1> USE SentinelAssumption, BoundsAssumption
<1> SUFFICES ASSUME Init PROVE PInv
  OBVIOUS
<1>1. IInv
  BY InitInv
<1>2. DOMAIN squads = 1..0 /\ DOMAIN squads = {}
  BY DEF Init
<1>3. Consecutive
  BY <1>2 DEF Consecutive
<1>4. Awaited
  BY DEF Init, Awaited
<1>5. \A p \in Handlers : pc[p] = "idle"
  BY DEF Init
<1>6. \A id : ~Done(id)
  BY <1>2 DEF Done
<1>7. Unique
  BY <1>2 DEF Unique
<1>8. Ready /\ Marked /\ Fresh
  BY <1>5, <1>6 DEF Ready, Marked, Fresh, Handlers, Runs, Writes, Working
<1>9. Named
  BY DEF Init, Named, Files
<1> QED BY <1>1, <1>3, <1>4, <1>7, <1>8, <1>9 DEF PInv, Once

\* Every step keeps that epochs are proposed once.
LEMMA OnceStep == PInv /\ [Next]_vars => PInv'
<1> SUFFICES ASSUME PInv, [Next]_vars PROVE PInv'
  OBVIOUS
<1>1. IInv' /\ UNCHANGED setting
  BY Step, SettingStays DEF PInv, IInv
<1>2. Consecutive'
  BY ConsecutiveStep DEF PInv, IInv
<1>3. Accounted => Awaited'
  BY AwaitedStep DEF PInv, IInv
<1>4. ASSUME Single PROVE Once'
  <2> USE <1>4 DEF PInv
  <2>1. Accounted /\ Awaited
    BY DEF Single
  <2>2. \A procs : ~Crash(procs)
    BY DEF Crash, May, Accounted, Single
  <2>3. ASSUME NEW tx \in flying, Execute(tx) PROVE Once'
    BY <2>1, <2>3, OnceExecute
  <2>4. ASSUME NEW p \in Handlers, Write(p) PROVE Once'
    BY <2>4, OnceWrite
  <2>5. ASSUME NEW p \in Publishers, PublishStep(p) PROVE Once'
    BY <2>1, <2>5, OncePublish
  <2>6. ASSUME NEW p \in Runs, RunStep(p) PROVE Once'
    BY <2>6, OnceRun
  <2>7. CASE (\E tx \in flying : Expire(tx)) \/ OtherProposal \/ Tick \/ UNCHANGED vars
    BY <2>1, <2>7, OnceElsewhere
  <2> QED BY <2>2, <2>3, <2>4, <2>5, <2>6, <2>7 DEF Next, Runs
<1>5. (Accounted' <=> Accounted) /\ (Single' <=> Single)
  BY <1>1 DEF Accounted, Single, OneRun, May
<1> QED BY <1>1, <1>2, <1>3, <1>4, <1>5 DEF PInv

\* So it always holds.
LEMMA OnceInvariance == Spec => []PInv
  BY OnceInit, OnceStep, PTL DEF Spec

\* No epoch is proposed to the multisig, and so funded, twice, as long as every
\* proposal is accounted for and what overlaps is one run and one publication of the
\* latest epoch, whatever other members of the multisig do.
THEOREM ProposedOnceHolds == Spec => []ProposedOnce
<1>1. PInv => ProposedOnce
  BY DEF PInv, ProposedOnce, Single, Once, Unique
<1> QED BY <1>1, OnceInvariance, PTL
-----------------------------------------------------------------------------
(* Every request is answered.  That the steps named by the fairness can be   *)
(* taken wherever NeverStuck says so is a hypothesis here: the provers know  *)
(* nothing of ENABLED, and TLC checks NeverStuck.                            *)

\* The steps that follow one another; any of them may also end the request.
Follows(s) ==
    CASE s = "check" -> "sample" [] s = "sample" -> "openFile"
      [] s = "read" -> "fetchIndex" [] s = "fetchIndex" -> "send"
      [] s = "send" -> "confirm" [] s = "confirm" -> "openFile"
      [] s = "openFile" -> "fillFile" [] s = "fillFile" -> "openLatest"
      [] s = "openLatest" -> "fillLatest" [] OTHER -> "idle"

\* A request's own step takes it to the next one, or answers it.
LEMMA OwnStep ==
    ASSUME IInv, NEW p \in Handlers,
           (p \in Runs /\ RunGoesOn(p)) \/ (p \in Publishers /\ PublishGoesOn(p)) \/ Write(p)
    PROVE  pc'[p] \in {Follows(pc[p]), "idle"}
<1> USE DEF IInv, TypeOK, Goto, Follows
<1>1. CASE p \in Runs /\ RunGoesOn(p)
  BY <1>1 DEF RunGoesOn, RunCheck, RunFails, RunNumber
<1>2. CASE p \in Publishers /\ PublishGoesOn(p)
  <2>1. CASE PublishRead(p)
    BY <2>1 DEF PublishRead
  <2>2. CASE PublishFails(p) \/ PublishSendLost(p) \/ PublishConfirmFails(p)
    BY <2>2 DEF PublishFails, PublishSendLost, PublishConfirmFails, Answer
  <2>3. CASE PublishFetchIndex(p) \/ PublishSend(p) \/ PublishConfirm(p)
    BY <2>3 DEF PublishFetchIndex, PublishSend, PublishConfirm
  <2> QED BY <1>2, <2>1, <2>2, <2>3 DEF PublishGoesOn
<1>3. CASE Write(p)
  BY <1>3 DEF Write, OpenFile, FillFile, OpenLatest, FillLatest, Open, Fill
<1> QED BY <1>1, <1>2, <1>3

\* Nobody else's step moves it, but for a crash, which ends it; nor does another's
\* step touch what it holds or send its transaction again.
LEMMA OthersStep ==
    ASSUME IInv, NEW p \in Handlers, pc[p] # "idle", [Next]_vars,
           ~(p \in Runs /\ RunGoesOn(p)), ~(p \in Publishers /\ PublishGoesOn(p)), ~Write(p)
    PROVE  \/ pc'[p] = "idle"
           \/ /\ UNCHANGED <<pc[p], epoch[p]>>
              /\ p \in Publishers => UNCHANGED index[p]
              /\ p \in Publishers /\ OwnTx(p) \notin flying => OwnTx(p) \notin flying'
<1> USE DEF IInv, TypeOK, Goto
<1>1. ASSUME NEW q \in Runs, RunStep(q)
      PROVE  UNCHANGED <<pc[p], epoch[p], index, flying>>
  <2>1. q \in Handlers /\ UNCHANGED <<index, flying>>
    BY <1>1 DEF RunStep, RunGoesOn, StartRun, RunCheck, RunFails, RunNumber, chain, Runs, Handlers
  <2>2. p # q
    BY <1>1 DEF RunStep, StartRun, MayStart
  <2> QED BY <1>1, <2>1, <2>2 DEF RunStep, RunGoesOn, StartRun, RunCheck, RunFails, RunNumber
<1>2. ASSUME NEW q \in Publishers, PublishStep(q)
      PROVE  /\ UNCHANGED <<pc[p], epoch[p]>>
             /\ p \in Publishers => UNCHANGED index[p]
             /\ flying' \subseteq flying \cup {OwnTx(q)} /\ p # q
  <2>1. q \in Handlers
    BY DEF Handlers
  <2>2. p # q
    BY <1>2 DEF PublishStep, StartPublish, MayStart
  <2>3. flying' \subseteq flying \cup {OwnTx(q)}
    BY <1>2 DEF PublishStep, PublishGoesOn, StartPublish, PublishRead, PublishFetchIndex,
       PublishSend, PublishFails, PublishSendLost, PublishConfirm, PublishConfirmFails, chain
  <2>4. UNCHANGED <<pc[p], epoch[p]>>
    BY <1>2, <2>1, <2>2 DEF PublishStep, PublishGoesOn, StartPublish, PublishRead,
       PublishFetchIndex, PublishSend, PublishFails, PublishSendLost, PublishConfirm,
       PublishConfirmFails, Answer
  <2>5. p \in Publishers => UNCHANGED index[p]
    BY <1>2, <2>2 DEF PublishStep, PublishGoesOn, StartPublish, PublishRead,
       PublishFetchIndex, PublishSend, PublishFails, PublishSendLost, PublishConfirm,
       PublishConfirmFails, Answer
  <2> QED BY <2>2, <2>3, <2>4, <2>5
<1>3. ASSUME NEW q \in Handlers, Write(q)
      PROVE  /\ UNCHANGED <<pc[p], epoch[p], flying>>
             /\ p \in Publishers => UNCHANGED index[p]
  <2>1. p # q
    BY <1>3
  <2>2. UNCHANGED <<pc[p], epoch[p], flying>>
    BY <1>3, <2>1, WriteEffect DEF chain
  <2>3. p \in Publishers => UNCHANGED index[p]
    BY <1>3, <2>1 DEF Write, OpenFile, FillFile, OpenLatest, FillLatest, Open
  <2> QED BY <2>2, <2>3
<1>4. CASE UNCHANGED vars \/ OtherProposal \/ Tick \/ \E tx \in flying : Execute(tx) \/ Expire(tx)
  BY <1>4 DEF vars, store, chain, OtherProposal, Tick, Execute, Expire
<1>5. ASSUME NEW procs, Crash(procs)
      PROVE  \/ pc'[p] = "idle"
             \/ /\ UNCHANGED <<pc[p], epoch[p], flying>>
                /\ p \in Publishers => UNCHANGED index[p]
  BY <1>5 DEF Crash, chain
<1>6. ASSUME NEW q \in Publishers, p \in Publishers, p # q
      PROVE  OwnTx(p) # OwnTx(q)
  BY <1>6 DEF OwnTx
<1> QED BY <1>1, <1>2, <1>3, <1>4, <1>5, <1>6 DEF Next, Runs

\* So a request stays where it is, goes on to the next step, or is answered.
LEMMA Moves ==
    ASSUME IInv, NEW p \in Handlers, pc[p] # "idle", [Next]_vars
    PROVE  pc'[p] \in {pc[p], Follows(pc[p]), "idle"}
  BY OwnStep, OthersStep

\* A request that writes is answered.
LEMMA WritesEnd ==
    ASSUME NEW p \in Handlers
    PROVE  Spec /\ []NeverStuck => (pc[p] \in Writes ~> pc[p] = "idle")
<1> DEFINE At(s) == pc[p] = s
<1>1. /\ IInv /\ At("openFile") /\ [Next]_vars => At("openFile")' \/ At("fillFile")' \/ At("idle")'
      /\ IInv /\ At("fillFile") /\ [Next]_vars => At("fillFile")' \/ At("openLatest")' \/ At("idle")'
      /\ IInv /\ At("openLatest") /\ [Next]_vars => At("openLatest")' \/ At("fillLatest")' \/ At("idle")'
      /\ IInv /\ At("fillLatest") /\ [Next]_vars => At("fillLatest")' \/ At("idle")'
  BY Moves DEF Follows
<1>2. /\ IInv /\ At("openFile") /\ <<Write(p)>>_vars => At("fillFile")' \/ At("idle")'
      /\ IInv /\ At("fillFile") /\ <<Write(p)>>_vars => At("openLatest")' \/ At("idle")'
      /\ IInv /\ At("openLatest") /\ <<Write(p)>>_vars => At("fillLatest")' \/ At("idle")'
      /\ IInv /\ At("fillLatest") /\ <<Write(p)>>_vars => At("idle")'
  BY OwnStep DEF Follows
<1>3. NeverStuck => (pc[p] \in Writes => ENABLED <<Write(p)>>_vars)
  BY DEF NeverStuck, Writes
<1>4. pc[p] \in Writes <=> At("openFile") \/ At("fillFile") \/ At("openLatest") \/ At("fillLatest")
  BY DEF Writes
<1>5. Spec => WriteFair(p)
  BY DEF Spec, Fairness
<1> QED BY <1>1, <1>2, <1>3, <1>4, <1>5, Invariance, PTL DEF Spec, WriteFair

\* A request that runs an epoch is answered, or comes to write it.
LEMMA RunsEnd ==
    ASSUME NEW p \in Runs
    PROVE  Spec /\ []NeverStuck =>
               (pc[p] \in {"check", "sample"} ~> pc[p] \in Writes \/ pc[p] = "idle")
<1> DEFINE At(s) == pc[p] = s
<1> DEFINE Ended == pc[p] \in Writes \/ pc[p] = "idle"
<1>1. /\ IInv /\ At("check") /\ [Next]_vars => At("check")' \/ At("sample")' \/ Ended'
      /\ IInv /\ At("sample") /\ [Next]_vars => At("sample")' \/ Ended'
  BY Moves DEF Follows, Runs, Handlers, Writes
<1>2. /\ IInv /\ At("check") /\ <<RunGoesOn(p)>>_vars => At("sample")' \/ Ended'
      /\ IInv /\ At("sample") /\ <<RunGoesOn(p)>>_vars => Ended'
  BY OwnStep DEF Follows, Runs, Handlers, Writes
<1>3. NeverStuck => (pc[p] \in {"check", "sample"} => ENABLED <<RunGoesOn(p)>>_vars)
  BY DEF NeverStuck, Runs
<1>4. pc[p] \in {"check", "sample"} <=> At("check") \/ At("sample")
  OBVIOUS
<1>5. Spec => RunFair(p)
  BY DEF Spec, Fairness, Runs
<1> QED BY <1>1, <1>2, <1>3, <1>4, <1>5, Invariance, PTL DEF Spec, RunFair

\* So is or does a request that publishes one: while its transaction is in flight the
\* chain settles it, and then the confirmation returns or throws.
LEMMA PublishesEnd ==
    ASSUME NEW p \in Publishers
    PROVE  Spec /\ []NeverStuck =>
               (pc[p] \in {"read", "fetchIndex", "send", "confirm"}
                   ~> pc[p] \in Writes \/ pc[p] = "idle")
<1> DEFINE At(s) == pc[p] = s
<1> DEFINE Ended == pc[p] \in Writes \/ pc[p] = "idle"
<1> DEFINE Flies == OwnTx(p) \in flying
<1>1. p \in Handlers
  BY DEF Handlers
<1>2. /\ IInv /\ At("read") /\ [Next]_vars => At("read")' \/ At("fetchIndex")' \/ Ended'
      /\ IInv /\ At("fetchIndex") /\ [Next]_vars => At("fetchIndex")' \/ At("send")' \/ Ended'
      /\ IInv /\ At("send") /\ [Next]_vars => At("send")' \/ At("confirm")' \/ Ended'
      /\ IInv /\ At("confirm") /\ [Next]_vars => At("confirm")' \/ Ended'
  BY <1>1, Moves DEF Follows, Writes
<1>3. IInv /\ At("confirm") /\ ~Flies /\ [Next]_vars => (At("confirm") /\ ~Flies)' \/ Ended'
  <2> SUFFICES ASSUME IInv, At("confirm"), ~Flies, [Next]_vars, ~Ended'
               PROVE  (At("confirm") /\ ~Flies)'
    OBVIOUS
  <2>1. ~PublishGoesOn(p) /\ ~(p \in Runs /\ RunGoesOn(p)) /\ ~Write(p)
    BY <1>1, OwnStep DEF Follows, Writes
  <2> QED BY <1>1, <2>1, OthersStep DEF OwnTx
<1>4. /\ IInv /\ At("read") /\ <<PublishGoesOn(p)>>_vars => At("fetchIndex")' \/ Ended'
      /\ IInv /\ At("fetchIndex") /\ <<PublishGoesOn(p)>>_vars => At("send")' \/ Ended'
      /\ IInv /\ At("send") /\ <<PublishGoesOn(p)>>_vars => At("confirm")' \/ Ended'
      /\ IInv /\ At("confirm") /\ <<PublishGoesOn(p)>>_vars => Ended'
  BY <1>1, OwnStep DEF Follows, Writes
<1>5. IInv /\ At("confirm") /\ <<OwnTxSettles(p)>>_vars => (At("confirm") /\ ~Flies)'
  BY DEF OwnTxSettles, Execute, Expire, OwnTx, store
<1>6. /\ NeverStuck /\ (At("read") \/ At("fetchIndex") \/ At("send"))
            => ENABLED <<PublishGoesOn(p)>>_vars
      /\ NeverStuck /\ At("confirm") /\ Flies => ENABLED <<OwnTxSettles(p)>>_vars
      /\ NeverStuck /\ At("confirm") /\ ~Flies => ENABLED <<PublishGoesOn(p)>>_vars
  BY DEF NeverStuck
<1>7. pc[p] \in {"read", "fetchIndex", "send", "confirm"}
          <=> At("read") \/ At("fetchIndex") \/ At("send") \/ At("confirm")
  OBVIOUS
<1>8. Spec => PublishFair(p)
  BY DEF Spec, Fairness
<1> QED BY <1>2, <1>3, <1>4, <1>5, <1>6, <1>7, <1>8, Invariance, PTL DEF Spec, PublishFair

\* Every request is answered, whatever crashes, overlaps and gets lost, given that
\* none is ever stuck.
THEOREM AnsweredHolds == Spec /\ []NeverStuck => Answered
<1>1. Spec /\ []NeverStuck => \A p \in Handlers : (pc[p] # "idle" ~> pc[p] = "idle")
  <2> SUFFICES ASSUME NEW p \in Handlers
               PROVE  Spec /\ []NeverStuck => (pc[p] # "idle" ~> pc[p] = "idle")
    OBVIOUS
  <2>1. CASE p \in Runs
    <3>1. IInv /\ pc[p] # "idle" => pc[p] \in {"check", "sample"} \/ pc[p] \in Writes
      BY <2>1, SentinelAssumption DEF IInv, TypeOK, Steps, StepsOK, Writes, Runs
    <3> QED BY <2>1, <3>1, RunsEnd, WritesEnd, Invariance, PTL
  <2>2. CASE p \in Publishers
    <3>1. IInv /\ pc[p] # "idle" =>
              pc[p] \in {"read", "fetchIndex", "send", "confirm"} \/ pc[p] \in Writes
      BY <2>2, SentinelAssumption DEF IInv, TypeOK, Steps, StepsOK, Writes, Runs
    <3> QED BY <2>2, <3>1, PublishesEnd, WritesEnd, Invariance, PTL
  <2> QED BY <2>1, <2>2 DEF Handlers, Runs
<1> QED BY <1>1, PTL DEF Answered
=============================================================================
