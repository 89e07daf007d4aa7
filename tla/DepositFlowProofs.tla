------------------------- MODULE DepositFlowProofs -------------------------
(***************************************************************************)
(* What a user is told about a deposit, for any number of attempts, any    *)
(* keys, venues and funds, and whatever the admin, the clock and the       *)
(* optimizer do meanwhile; and that the user is told, in the end.          *)
(***************************************************************************)
EXTENDS DepositFlow, TLAPS

-----------------------------------------------------------------------------
(* Types. *)

\* No step leaves the types; an execution spends a deposit only if one is left.
LEMMA TypesStep ==
  ASSUME TypeOK, [Next]_vars
  PROVE  TypeOK'
<1> USE NumbersAssumption
<1>1. ASSUME NEW a \in Attempts, Confirm(a)
      PROVE  TypeOK'
  BY <1>1 DEF TypeOK, Confirm, Goto, Steps, Stages, chain, transaction
<1>2. ASSUME NEW a \in Attempts, Attest(a)
      PROVE  TypeOK'
  <2>1. PICK choice \in Choices :
            att' = [att EXCEPT ![a] = Answer(choice, SignAttestation(choice.venue, slot))]
    BY <1>2 DEF Attest
  <2>2. choice.venue \in Venues /\ choice.listed \in BOOLEAN
    BY DEF Choices
  <2>3. UNCHANGED <<slot, config, funds, signer, shown, stage, deadline, tx, valid, upset>>
    BY <1>2 DEF Attest, chain, transaction
  <2>4. Answer(choice, SignAttestation(choice.venue, slot)) \in Attestations
    BY <2>2 DEF Answer, SignAttestation, Attestations, TypeOK
  <2> QED BY <1>2, <2>1, <2>4, <2>3 DEF TypeOK, Attest, Goto, Steps
<1>3. ASSUME NEW a \in Attempts, Receive(a) \/ Prepare(a)
      PROVE  TypeOK'
  BY <1>3 DEF TypeOK, Receive, Prepare, Goto, Steps, chain, transaction
<1>4. ASSUME NEW a \in Attempts,
             \/ RequestFails(a) \/ NotReady(a) \/ PrepareFails(a) \/ Reject(a)
             \/ BlockhashFails(a) \/ Confirmed(a) \/ ConfirmExpires(a) \/ ConfirmFails(a)
      PROVE  TypeOK'
  <2>1. End(a, "error") \/ End(a, "done") \/ End(a, "expired")
    BY <1>4 DEF RequestFails, NotReady, PrepareFails, Reject, BlockhashFails, Confirmed,
                ConfirmExpires, ConfirmFails
  <2>2. UNCHANGED <<slot, config, funds, signer, att, shown, tx, valid, upset>>
    BY <1>4 DEF RequestFails, NotReady, PrepareFails, Reject, BlockhashFails, Confirmed,
                ConfirmExpires, ConfirmFails, chain, transaction
  <2> QED BY <2>1, <2>2 DEF TypeOK, End, Goto, Steps, Stages
<1>5. ASSUME NEW a \in Attempts, Send(a) \/ SendLost(a)
      PROVE  TypeOK'
  <2>1. Submit(a)
    BY <1>5 DEF Send, SendLost
  <2>2. PICK left \in 0..Lifetime : valid' = [valid EXCEPT ![a] = slot + left]
    BY <2>1 DEF Submit
  <2>3. valid' \in [Attempts -> Nat]
    BY <2>2 DEF TypeOK
  <2>4. /\ tx' = [tx EXCEPT ![a] = "flying"]
        /\ UNCHANGED <<slot, config, funds, signer, att, shown, upset>>
    BY <2>1 DEF Submit, chain
  <2>5. \/ Goto(a, "blockhash") /\ UNCHANGED <<stage, deadline>>
        \/ End(a, "error")
    BY <1>5 DEF Send, SendLost
  <2> QED BY <2>3, <2>4, <2>5 DEF TypeOK, End, Goto, Steps, Stages
<1>6. ASSUME NEW a \in Attempts, Blockhash(a)
      PROVE  TypeOK'
  BY <1>6 DEF TypeOK, Blockhash, Goto, Steps, chain, transaction
<1>7. ASSUME ChainMoves, slot' \in Nat, funds' \in 0..Funds,
             config' \in [attestor : Keys, paused : BOOLEAN],
             tx' \in [Attempts -> {"none", "flying", "landed", "failed"}]
      PROVE  TypeOK'
  <2>1. upset' \in [Attempts -> BOOLEAN]
    BY <1>7 DEF ChainMoves, Upsets, TypeOK
  <2>2. valid' \in [Attempts -> Nat]
    BY <1>7 DEF ChainMoves, TypeOK
  <2>3. UNCHANGED <<signer, pc, att, shown, stage, deadline>>
    BY <1>7 DEF ChainMoves
  <2> QED BY <1>7, <2>1, <2>2, <2>3 DEF TypeOK
<1>8. ASSUME NEW a \in Attempts, Execute(a)
      PROVE  TypeOK'
  <2>1. funds' \in 0..Funds
    BY <1>8 DEF TypeOK, Execute, Accepts
  <2>2. tx' \in [Attempts -> {"none", "flying", "landed", "failed"}]
    BY <1>8 DEF TypeOK, Execute
  <2> QED BY <1>7, <1>8, <2>1, <2>2 DEF TypeOK, Execute
<1>9. CASE Admin
  <2>1. config' \in [attestor : Keys, paused : BOOLEAN]
    BY <1>9 DEF Admin, TypeOK
  <2> QED BY <1>7, <1>9, <2>1 DEF TypeOK, Admin
<1>10. ASSUME NEW a \in Attempts, PassDeadline(a)
       PROVE  TypeOK'
  <2>1. slot' \in Nat
    BY <1>10 DEF PassDeadline, TypeOK
  <2> QED BY <1>7, <1>10, <2>1 DEF TypeOK, PassDeadline
<1>11. CASE Tick
  <2>1. slot' \in Nat
    BY <1>11 DEF Tick, TypeOK
  <2> QED BY <1>7, <1>11, <2>1 DEF TypeOK, Tick
<1>12. CASE Leave
  BY <1>12 DEF TypeOK, Leave, Stages, chain, transaction
<1>13. CASE \E key \in Keys : Restart(key)
  BY <1>13 DEF TypeOK, Restart, chain, transaction
<1>14. CASE UNCHANGED vars
  BY <1>14 DEF TypeOK, vars, chain, transaction
<1> QED
  BY <1>1, <1>2, <1>3, <1>4, <1>5, <1>6, <1>8, <1>9, <1>10, <1>11, <1>12, <1>13, <1>14
  DEF Next, Progress, Prompted

\* Attempts, attestations and transactions are well formed, and no more deposits
\* land than the wallet has funds for.
THEOREM DepositTypeCorrect == Spec => []TypeOK
<1>1. Init => TypeOK
  <2> SUFFICES ASSUME Init PROVE TypeOK
    OBVIOUS
  <2>1. funds \in 0..Funds /\ slot \in Nat /\ signer \in Keys
    BY NumbersAssumption DEF Init
  <2>2. config \in [attestor : Keys, paused : BOOLEAN]
    BY DEF Init
  <2> QED BY <2>1, <2>2 DEF Init, TypeOK, Steps, Stages
<1> QED
  BY <1>1, TypesStep, PTL DEF Spec

-----------------------------------------------------------------------------
(* What an attempt's transaction comes to, and what the user is told of it. *)

\* One that is in the air was simulated, so it succeeds unless it is upset.
Simulated(a) ==
    /\ pc[a] \notin {"blockhash", "confirm", "ended"} => tx[a] = "none"
    /\ tx[a] = "flying" /\ ~upset[a] => Accepts(a)
    /\ tx[a] = "failed" => upset[a]

\* The confirmation waits longer than the transaction can live: its blockhash is
\* the newer one.
WaitsItOut(a) ==
    /\ tx[a] = "flying" /\ pc[a] = "blockhash" => valid[a] <= slot + Lifetime
    /\ tx[a] = "flying" /\ pc[a] = "confirm" => valid[a] <= deadline[a]

\* A verdict is given at the end, and fits what became of the transaction.
ToldRight(a) ==
    /\ stage[a] # "working" => pc[a] = "ended"
    /\ stage[a] = "done" => tx[a] \in {"landed", "failed"}
    /\ stage[a] = "expired" /\ tx[a] = "flying" => slot > valid[a]

Outcome(a) == Simulated(a) /\ WaitsItOut(a) /\ ToldRight(a)
Outcomes == \A a \in Attempts : Outcome(a)

\* What the program accepts it accepts until something upsets it.
LEMMA StaysAccepted ==
  ASSUME NEW a \in Attempts, Accepts(a), att'[a] = att[a],
         ~config'.paused, config'.attestor = config.attestor, funds' > 0,
         Fresh(att[a].slot, Staleness, slot')
  PROVE  Accepts(a)'
BY DEF Accepts, TransactionOf, Verified, IsFirstEd25519, Ed25519Positions, Ed25519Ix,
       Ed25519Data, OtherIx

\* What the program accepts is fresh, and can be paid for.
LEMMA AcceptedIsFresh ==
  ASSUME NEW a \in Attempts, Accepts(a)
  PROVE  ~config.paused /\ funds > 0 /\ Fresh(att[a].slot, Staleness, slot)
BY DEF Accepts, Verified

\* A step that touches neither the chain nor this attempt changes nothing of it,
\* unless its view is left.
LEMMA OutcomeUntouched ==
  ASSUME TypeOK, NEW a \in Attempts, Outcome(a), UNCHANGED chain,
         UNCHANGED <<pc[a], att[a], deadline[a], tx[a], valid[a], upset[a]>>,
         stage'[a] = stage[a] \/ stage'[a] = "working"
  PROVE  Outcome(a)'
<1>1. Accepts(a) => Accepts(a)'
  BY StaysAccepted, AcceptedIsFresh DEF chain
<1> QED
  BY <1>1 DEF Outcome, Simulated, WaitsItOut, ToldRight, chain

\* What a step of the chain does to the attempts' transactions, given what it does
\* to each at the least: nothing, or its execution.
LEMMA OutcomeOfChainMove ==
  ASSUME TypeOK, TypeOK', NEW a \in Attempts, Outcome(a), ChainMoves, slot <= slot',
         \/ tx'[a] = tx[a]
         \/ tx[a] = "flying" /\ slot' = slot /\ tx'[a] = IF Accepts(a) THEN "landed" ELSE "failed"
  PROVE  Outcome(a)'
<1> USE NumbersAssumption
<1>1. UNCHANGED <<pc, att, stage, deadline>>
  BY DEF ChainMoves
<1>2. /\ upset'[a] = (tx'[a] # "landed" /\ (upset[a] \/ Upsets(a)))
      /\ valid'[a] = IF tx'[a] = "flying" THEN valid[a] ELSE 0
  BY DEF ChainMoves
<1>3. tx[a] # "none" <=> tx'[a] # "none"
  OBVIOUS
<1>4. tx'[a] = "flying" => tx[a] = "flying" /\ tx'[a] = tx[a]
  OBVIOUS
<1>5. ASSUME tx'[a] = "flying", ~upset'[a]
      PROVE  Accepts(a)'
  <2>1. Accepts(a) /\ ~Upsets(a)
    BY <1>2, <1>4, <1>5 DEF Outcome, Simulated
  <2>2. /\ ~config'.paused /\ config'.attestor = config.attestor
        /\ ~(funds' < funds)
        /\ Fresh(att[a].slot, Staleness, slot')
    BY <2>1, <1>5 DEF Upsets
  <2>3. funds > 0
    BY <2>1, AcceptedIsFresh
  <2>4. funds' > 0
    BY <2>2, <2>3 DEF TypeOK
  <2> QED BY <1>1, <2>1, <2>2, <2>4, StaysAccepted
<1>6. tx'[a] = "failed" => upset'[a]
  BY <1>2 DEF Outcome, Simulated
<1>7. Simulated(a)'
  BY <1>1, <1>3, <1>5, <1>6 DEF Outcome, Simulated
<1>8. WaitsItOut(a)'
  <2>1. slot \in Nat /\ slot' \in Nat /\ valid[a] \in Nat
    BY DEF TypeOK
  <2> QED BY <1>1, <1>2, <1>4, <2>1 DEF Outcome, WaitsItOut
<1>9. ToldRight(a)'
  <2>1. slot \in Nat /\ slot' \in Nat /\ valid[a] \in Nat
    BY DEF TypeOK
  <2> QED BY <1>1, <1>2, <1>4, <2>1 DEF Outcome, ToldRight
<1> QED BY <1>7, <1>8, <1>9 DEF Outcome

\* The inductive step.
LEMMA OutcomesStep ==
  ASSUME TypeOK, Outcomes, [Next]_vars
  PROVE  Outcomes'
<1> SUFFICES ASSUME NEW a \in Attempts
             PROVE  Outcome(a)'
  BY DEF Outcomes
<1> USE NumbersAssumption
<1>0. Outcome(a) /\ TypeOK'
  BY TypesStep DEF Outcomes
<1>1. ASSUME NEW b \in Attempts, Confirm(b)
      PROVE  Outcome(a)'
  <2>1. CASE b = a
    <3>1. UNCHANGED <<chain, tx>> /\ tx[a] = "none"
      BY <1>0, <1>1, <2>1 DEF Confirm, Outcome, Simulated, transaction
    <3> QED BY <1>1, <2>1, <3>1 DEF Confirm, Goto, TypeOK, Outcome, Simulated, WaitsItOut, ToldRight
  <2>2. CASE b # a
    BY <1>0, <1>1, <2>2, OutcomeUntouched DEF Confirm, Goto, TypeOK, transaction
  <2> QED BY <2>1, <2>2
<1>2. ASSUME NEW b \in Attempts, Attest(b) \/ Receive(b) \/ Prepare(b)
      PROVE  Outcome(a)'
  <2>0. /\ UNCHANGED <<chain, stage, deadline, tx, valid, upset>>
        /\ pc[b] \in {"attest", "receive", "prepare"}
        /\ \/ Goto(b, "receive") \/ Goto(b, "prepare") \/ Goto(b, "wallet")
           \/ Goto(b, "ended")
        /\ \A c \in Attempts : c # b => att'[c] = att[c]
    BY <1>2 DEF Attest, Receive, Prepare, transaction, TypeOK
  <2>1. CASE b = a
    <3>1. tx'[a] = "none"
      BY <1>0, <2>0, <2>1 DEF Outcome, Simulated
    <3>2. stage'[a] = "working"
      BY <1>0, <2>0, <2>1 DEF Outcome, ToldRight
    <3> QED BY <3>1, <3>2 DEF Outcome, Simulated, WaitsItOut, ToldRight
  <2>2. CASE b # a
    <3>1. UNCHANGED <<pc[a], att[a], deadline[a], tx[a], valid[a], upset[a], stage[a]>>
      BY <2>0, <2>2 DEF Goto, TypeOK
    <3> QED BY <1>0, <2>0, <3>1, OutcomeUntouched
  <2> QED BY <2>1, <2>2
<1>3. ASSUME NEW b \in Attempts,
             \/ RequestFails(b) \/ NotReady(b) \/ PrepareFails(b) \/ Reject(b)
             \/ BlockhashFails(b) \/ Confirmed(b) \/ ConfirmExpires(b) \/ ConfirmFails(b)
      PROVE  Outcome(a)'
  <2>1. UNCHANGED <<chain, signer, att, shown, tx, valid, upset>>
    BY <1>3 DEF RequestFails, NotReady, PrepareFails, Reject, BlockhashFails, Confirmed,
                ConfirmExpires, ConfirmFails, transaction
  <2>2. /\ \/ End(b, "error")
           \/ End(b, "done") /\ tx[b] \in {"landed", "failed"}
           \/ End(b, "expired") /\ pc[b] = "confirm" /\ slot > deadline[b]
        /\ pc[b] # "new"
    BY <1>3 DEF RequestFails, NotReady, PrepareFails, Reject, BlockhashFails, Confirmed,
                ConfirmExpires, ConfirmFails
  <2>3. CASE b = a
    <3>1. pc'[a] = "ended"
      BY <2>2, <2>3 DEF End, Goto, TypeOK
    <3>2. Accepts(a) => Accepts(a)'
      BY <2>1, StaysAccepted, AcceptedIsFresh DEF chain
    <3>3. Simulated(a)' /\ WaitsItOut(a)'
      BY <1>0, <2>1, <3>1, <3>2 DEF Outcome, Simulated, WaitsItOut
    <3>4. ASSUME stage'[a] = stage[a] \/ stage'[a] = "error"
          PROVE  ToldRight(a)'
      BY <1>0, <2>1, <3>1, <3>4 DEF Outcome, ToldRight, chain
    <3>5. ASSUME stage'[a] = "done" /\ tx[a] \in {"landed", "failed"}
          PROVE  ToldRight(a)'
      BY <2>1, <3>1, <3>5 DEF ToldRight
    <3>6. ASSUME stage'[a] = "expired" /\ pc[a] = "confirm" /\ slot > deadline[a]
          PROVE  ToldRight(a)'
      <4>1. tx[a] = "flying" => slot > valid[a]
        BY <1>0, <3>6 DEF Outcome, WaitsItOut, TypeOK
      <4> QED BY <2>1, <3>1, <3>6, <4>1 DEF ToldRight, chain
    <3>7. \/ stage'[a] = stage[a] \/ stage'[a] = "error"
          \/ stage'[a] = "done" /\ tx[a] \in {"landed", "failed"}
          \/ stage'[a] = "expired" /\ pc[a] = "confirm" /\ slot > deadline[a]
      BY <2>2, <2>3 DEF End, TypeOK
    <3> QED BY <3>3, <3>4, <3>5, <3>6, <3>7 DEF Outcome
  <2>4. CASE b # a
    <3>1. UNCHANGED <<pc[a], stage[a], deadline[a]>>
      BY <2>2, <2>4 DEF End, Goto, TypeOK
    <3> QED BY <1>0, <2>1, <3>1, OutcomeUntouched
  <2> QED BY <2>3, <2>4
<1>4. ASSUME NEW b \in Attempts, Send(b) \/ SendLost(b)
      PROVE  Outcome(a)'
  <2>1. /\ pc[b] = "wallet" /\ Accepts(b) /\ tx' = [tx EXCEPT ![b] = "flying"]
        /\ \E left \in 0..Lifetime : valid' = [valid EXCEPT ![b] = slot + left]
        /\ UNCHANGED <<slot, config, funds, att, upset>>
    BY <1>4 DEF Send, SendLost, Submit, chain
  <2>2. PICK left \in 0..Lifetime : valid' = [valid EXCEPT ![b] = slot + left]
    BY <2>1
  <2>3. \/ Goto(b, "blockhash") /\ UNCHANGED <<stage, deadline>>
        \/ End(b, "error")
    BY <1>4 DEF Send, SendLost
  <2>4. CASE b = a
    <3>1. /\ pc'[a] \in {"blockhash", "ended"} /\ tx'[a] = "flying" /\ valid'[a] = slot + left
          /\ pc[a] = "wallet" /\ Accepts(a)
      BY <2>1, <2>2, <2>3, <2>4 DEF End, Goto, TypeOK
    <3>2. Accepts(a)'
      BY <2>1, <3>1, StaysAccepted, AcceptedIsFresh
    <3>3. valid'[a] <= slot' + Lifetime
      BY <2>1, <3>1 DEF TypeOK
    <3>4. /\ stage'[a] \in {"working", "error"}
          /\ stage'[a] # "working" => pc'[a] = "ended"
      BY <1>0, <2>3, <2>4, <3>1 DEF End, Goto, TypeOK, Outcome, ToldRight
    <3> QED BY <3>1, <3>2, <3>3, <3>4 DEF Outcome, Simulated, WaitsItOut, ToldRight
  <2>5. CASE b # a
    <3>1. UNCHANGED <<pc[a], stage[a], deadline[a], tx[a], valid[a]>>
      BY <2>1, <2>2, <2>3, <2>5 DEF End, Goto, TypeOK
    <3> QED BY <1>0, <2>1, <3>1, OutcomeUntouched DEF chain
  <2> QED BY <2>4, <2>5
<1>5. ASSUME NEW b \in Attempts, Blockhash(b)
      PROVE  Outcome(a)'
  <2>1. UNCHANGED <<chain, att, stage, tx, valid, upset>>
    BY <1>5 DEF Blockhash, transaction
  <2>2. CASE b = a
    <3>1. /\ pc[a] = "blockhash" /\ pc'[a] = "confirm" /\ deadline'[a] = slot + Lifetime
      BY <1>5, <2>2 DEF Blockhash, Goto, TypeOK
    <3>2. Accepts(a) => Accepts(a)'
      BY <2>1, StaysAccepted, AcceptedIsFresh DEF chain
    <3> QED BY <1>0, <2>1, <3>1, <3>2 DEF Outcome, Simulated, WaitsItOut, ToldRight
  <2>3. CASE b # a
    <3>1. UNCHANGED <<pc[a], deadline[a]>>
      BY <1>5, <2>3 DEF Blockhash, Goto, TypeOK
    <3> QED BY <1>0, <2>1, <3>1, OutcomeUntouched
  <2> QED BY <2>2, <2>3
<1>6. ASSUME NEW b \in Attempts, Execute(b)
      PROVE  Outcome(a)'
  <2>1. /\ ChainMoves /\ slot' = slot
        /\ tx[b] = "flying" /\ tx' = [tx EXCEPT ![b] = IF Accepts(b) THEN "landed" ELSE "failed"]
    BY <1>6 DEF Execute
  <2>2. slot <= slot'
    BY <2>1 DEF TypeOK
  <2>3. CASE b = a
    BY <1>0, <2>1, <2>2, <2>3, OutcomeOfChainMove DEF TypeOK
  <2>4. CASE b # a
    BY <1>0, <2>1, <2>2, <2>4, OutcomeOfChainMove DEF TypeOK
  <2> QED BY <2>3, <2>4
<1>7. CASE Admin
  <2>1. ChainMoves /\ slot' = slot /\ tx' = tx
    BY <1>7 DEF Admin
  <2>2. slot <= slot'
    BY <2>1 DEF TypeOK
  <2> QED BY <1>0, <2>1, <2>2, OutcomeOfChainMove
<1>8. CASE Tick \/ \E b \in Attempts : PassDeadline(b)
  <2>1. ChainMoves /\ slot <= slot' /\ tx' = tx
    BY <1>8 DEF Tick, PassDeadline, TypeOK
  <2> QED BY <1>0, <2>1, OutcomeOfChainMove
<1>9. CASE Leave \/ UNCHANGED vars \/ \E key \in Keys : Restart(key)
  <2>1. /\ UNCHANGED <<chain, pc, att, deadline, tx, valid, upset>>
        /\ stage'[a] = stage[a] \/ stage'[a] = "working"
    BY <1>9 DEF Leave, Restart, vars, transaction
  <2> QED BY <1>0, <2>1, OutcomeUntouched
<1> QED
  BY <1>1, <1>2, <1>3, <1>4, <1>5, <1>6, <1>7, <1>8, <1>9 DEF Next, Progress, Prompted

\* In every state each attempt's outcome fits its transaction.
LEMMA OutcomesAlways == Spec => []Outcomes
<1>1. Init => Outcomes
  BY DEF Init, Outcomes, Outcome, Simulated, WaitsItOut, ToldRight
<1> QED
  BY <1>1, OutcomesStep, DepositTypeCorrect, PTL DEF Spec

\* A deposit that the view calls expired does not execute any more: the wait for
\* its confirmation is counted from after it was sent, its life from before.
THEOREM ExpiredIsSettledHolds == Spec => []ExpiredIsSettled
<1>1. Outcomes => ExpiredIsSettled
  BY DEF Outcomes, Outcome, ToldRight, ExpiredIsSettled
<1> QED
  BY <1>1, OutcomesAlways, PTL

\* "Deposit confirmed" is shown of a transaction that deposited, or that something
\* made to fail after its simulation: a pause, a rotation, another attempt, its age.
THEOREM DoneMeansDepositedHolds == Spec => []DoneMeansDeposited
<1>1. Outcomes => DoneMeansDeposited
  BY DEF Outcomes, Outcome, Simulated, ToldRight, DoneMeansDeposited
<1> QED
  BY <1>1, OutcomesAlways, PTL

-----------------------------------------------------------------------------
(* The venue an attestation names. *)

\* What is no more than a bound and natural stays so when it is capped.
LEMMA CappedIsNat ==
  ASSUME NEW x \in Nat, NEW max \in Nat
  PROVE  Capped(x, max) \in Nat
BY DEF Capped

\* A utilization is at most 75 percent away from the one the score likes best.
LEMMA DistanceIsSmall ==
  ASSUME NEW x \in 0..100
  PROVE  Distance(x, 75) \in 0..75
BY DEF Distance

\* A pool the feed does not list scores less than Kamino does, listed or not,
\* whatever the profile: it counts for nothing, and Kamino's signals are better.
LEMMA UnlistedIsWorse ==
  ASSUME NEW venue \in Venues, venue # Kamino, NEW profile \in Profiles,
         NEW s \in Snapshots
  PROVE  /\ ScoreVenue(venue, Unlisted, profile) < ScoreVenue(Kamino, s, profile)
         /\ ScoreVenue(venue, Unlisted, profile) \in Int
         /\ ScoreVenue(Kamino, s, profile) \in Int
<1> DEFINE apy == Capped(s.apy, 30)
           tvl == Capped(s.tvl, 100)
           off == Distance(s.util, 75)
<1>1. apy \in Nat /\ tvl \in Nat /\ off \in 0..75
  <2>1. s.apy \in Nat /\ s.tvl \in Nat /\ s.util \in 0..100
    BY DEF Snapshots
  <2> QED BY <2>1, CappedIsNat, DistanceIsSmall
<1>2. /\ Capped(Unlisted.apy, 30) = 0 /\ Capped(Unlisted.tvl, 100) = 0
      /\ Distance(Unlisted.util, 75) = 75
  BY DEF Capped, Distance, Unlisted
<1>3. /\ ScoreVenue(Kamino, s, profile)
           = WEIGHTS[profile].apy * 20 * apy + WEIGHTS[profile].tvl * 6 * tvl
             + WEIGHTS[profile].util * 6 * (100 - off)
             + WEIGHTS[profile].oracle * 5 * (120 - OracleAge[Kamino])
             + WEIGHTS[profile].audit * 6 * AuditScore[Kamino]
      /\ ScoreVenue(venue, Unlisted, profile)
           = WEIGHTS[profile].apy * 20 * 0 + WEIGHTS[profile].tvl * 6 * 0
             + WEIGHTS[profile].util * 6 * (100 - 75)
             + WEIGHTS[profile].oracle * 5 * (120 - OracleAge[venue])
             + WEIGHTS[profile].audit * 6 * AuditScore[venue]
  BY <1>2 DEF ScoreVenue
<1>4. OracleAge[Kamino] = 10 /\ AuditScore[Kamino] = 92
  BY DEF OracleAge, AuditScore, Venues, Kamino
<1>5. OracleAge[venue] \in {12, 15, 18} /\ AuditScore[venue] \in {89, 86, 80}
  BY DEF OracleAge, AuditScore, Venues, Kamino
<1> HIDE DEF apy, tvl, off
<1>6. CASE profile = "conservative"
  <2>1. WEIGHTS[profile] = [apy |-> 35, tvl |-> 25, util |-> 15, oracle |-> 10, audit |-> 15]
    BY <1>6 DEF WEIGHTS
  <2> QED BY <2>1, <1>1, <1>3, <1>4, <1>5
<1>7. CASE profile = "balanced"
  <2>1. WEIGHTS[profile] = [apy |-> 50, tvl |-> 20, util |-> 10, oracle |-> 10, audit |-> 10]
    BY <1>7 DEF WEIGHTS
  <2> QED BY <2>1, <1>1, <1>3, <1>4, <1>5
<1>8. CASE profile = "opportunistic"
  <2>1. WEIGHTS[profile] = [apy |-> 70, tvl |-> 10, util |-> 5, oracle |-> 5, audit |-> 10]
    BY <1>8 DEF WEIGHTS
  <2> QED BY <2>1, <1>1, <1>3, <1>4, <1>5
<1> QED
  BY <1>6, <1>7, <1>8 DEF Profiles

\* A choice of another venue than Kamino is one the feed lists.
LEMMA OtherChoicesAreListed ==
  ASSUME NEW choice \in Choices, choice.venue # Kamino
  PROVE  choice.listed
<1>1. PICK feed \in Feeds, profile \in Profiles :
          /\ Chooses(choice.venue, FetchSnapshots(feed), profile)
          /\ choice.listed = (choice.venue \in DOMAIN feed)
  BY DEF Choices
<1> DEFINE venue == choice.venue
<1> DEFINE snaps == FetchSnapshots(feed)
<1>2. SUFFICES ASSUME venue \notin DOMAIN feed PROVE FALSE
  BY <1>1
<1>3. venue \in Venues /\ Kamino \in Venues /\ Kamino < venue
  BY DEF Choices, Kamino, Venues
<1>4. snaps[venue] = Unlisted
  BY <1>2, <1>3 DEF FetchSnapshots
<1>5. snaps[Kamino] \in Snapshots
  <2>1. Unlisted \in Snapshots
    BY DEF Unlisted, Snapshots
  <2>2. Kamino \in DOMAIN feed => feed[Kamino] \in Snapshots
    BY FeedsAssumption
  <2> QED BY <1>3, <2>1, <2>2 DEF FetchSnapshots
<1>6. ScoreVenue(Kamino, snaps[Kamino], profile) < ScoreVenue(venue, snaps[venue], profile)
  BY <1>1, <1>3 DEF Chooses
<1>7. /\ ScoreVenue(venue, Unlisted, profile) < ScoreVenue(Kamino, snaps[Kamino], profile)
      /\ ScoreVenue(venue, Unlisted, profile) \in Int
      /\ ScoreVenue(Kamino, snaps[Kamino], profile) \in Int
  BY <1>5, <1>3, UnlistedIsWorse
<1> QED BY <1>4, <1>6, <1>7

\* The optimizer names another venue than Kamino only if the feed lists it,
\* for every feed whose utilizations are percentages and every profile.
THEOREM OtherVenueMeansListedHolds == Spec => []OtherVenueMeansListed
<1>1. Init => OtherVenueMeansListed
  BY DEF Init, OtherVenueMeansListed
<1>2. TypeOK /\ OtherVenueMeansListed /\ [Next]_vars => OtherVenueMeansListed'
  <2> SUFFICES ASSUME TypeOK, OtherVenueMeansListed, [Next]_vars
               PROVE  OtherVenueMeansListed'
    OBVIOUS
  <2>1. CASE \E a \in Attempts : Attest(a)
    <3>1. PICK a \in Attempts, choice \in Choices :
              att' = [att EXCEPT ![a] = Answer(choice, SignAttestation(choice.venue, slot))]
      BY <2>1 DEF Attest
    <3>2. choice.venue # Kamino => choice.listed
      BY OtherChoicesAreListed
    <3>3. /\ Answer(choice, SignAttestation(choice.venue, slot)).venue = choice.venue
          /\ Answer(choice, SignAttestation(choice.venue, slot)).listed = choice.listed
      BY DEF Answer, SignAttestation
    <3> QED BY <3>1, <3>2, <3>3 DEF TypeOK, OtherVenueMeansListed
  <2>2. CASE UNCHANGED att
    BY <2>2 DEF OtherVenueMeansListed
  <2>3. (\E a \in Attempts : Attest(a)) \/ UNCHANGED att
    BY DEF Next, Progress, Prompted, Confirm, Receive, RequestFails, NotReady, Prepare,
           PrepareFails, Blockhash, BlockhashFails, Confirmed, ConfirmExpires,
           ConfirmFails, Submit, Send, SendLost, Reject, Execute, PassDeadline, ChainMoves,
           Leave, Restart, Admin, Tick, vars
  <2> QED BY <2>1, <2>2, <2>3
<1> QED
  BY <1>1, <1>2, DepositTypeCorrect, PTL DEF Spec
-----------------------------------------------------------------------------
(* The outcome of an attempt is shown.  That the steps named by the fairness *)
(* can be taken wherever NeverStuck says so is a hypothesis here: the        *)
(* provers know nothing of ENABLED, and TLC checks NeverStuck.               *)

\* An attempt that is over is no longer "working" in a view that still shows it.
EndIsShown == \A a \in Attempts : pc[a] = "ended" => stage[a] # "working" \/ ~shown[a]

\* Only the attempt's own steps move it; another attempt's leave its verdict alone,
\* unless they take its place in the view.
LEMMA Moves ==
    ASSUME TypeOK, [Next]_vars, NEW a \in Attempts
    PROVE  \/ /\ UNCHANGED <<pc[a], deadline[a]>>
              /\ ~shown'[a] \/ (shown[a] /\ stage'[a] = stage[a])
           \/ Confirm(a) \/ Progress(a) \/ Prompted(a) \/ ConfirmFails(a)
<1> USE DEF TypeOK
<1>1. ASSUME NEW b \in Attempts, b # a, Confirm(b)
      PROVE  UNCHANGED <<pc[a], deadline[a]>> /\ ~shown'[a]
  BY <1>1 DEF Confirm, Goto
<1>2. ASSUME NEW b \in Attempts, b # a, Progress(b) \/ Prompted(b) \/ ConfirmFails(b)
      PROVE  UNCHANGED <<pc[a], stage[a], deadline[a], shown>>
  <2>1. CASE Attest(b) \/ Receive(b) \/ Prepare(b) \/ Blockhash(b)
    BY <1>2, <2>1 DEF Attest, Receive, Prepare, Blockhash, Goto
  <2>2. CASE \/ RequestFails(b) \/ NotReady(b) \/ PrepareFails(b) \/ BlockhashFails(b)
             \/ Confirmed(b) \/ ConfirmExpires(b)
    BY <1>2, <2>2 DEF RequestFails, NotReady, PrepareFails, BlockhashFails, Confirmed,
       ConfirmExpires, End, Goto
  <2>3. CASE Send(b) \/ SendLost(b) \/ Reject(b) \/ ConfirmFails(b)
    BY <1>2, <2>3 DEF Send, SendLost, Submit, Reject, ConfirmFails, End, Goto
  <2> QED BY <1>2, <2>1, <2>2, <2>3 DEF Progress, Prompted
<1>3. CASE ChainMoves
  BY <1>3 DEF ChainMoves
<1>4. CASE Leave
  BY <1>4 DEF Leave
<1>5. CASE UNCHANGED vars \/ \E key \in Keys : Restart(key)
  BY <1>5 DEF vars, Restart
<1>6. (Admin \/ Tick \/ \E b \in Attempts : Execute(b) \/ PassDeadline(b)) => ChainMoves
  BY DEF Admin, Tick, Execute, PassDeadline
<1> QED BY <1>1, <1>2, <1>3, <1>4, <1>5, <1>6 DEF Next

\* Where the attempt's own steps lead.
LEMMA ProgressEffect ==
    ASSUME TypeOK, NEW a \in Attempts, Progress(a)
    PROVE  \/ pc[a] = "attest" /\ pc'[a] = "receive"
           \/ pc[a] = "receive" /\ pc'[a] = "prepare"
           \/ pc[a] = "prepare" /\ pc'[a] = "wallet"
           \/ pc[a] = "blockhash" /\ pc'[a] = "confirm"
           \/ /\ pc[a] \in {"attest", "receive", "prepare", "blockhash", "confirm"}
              /\ pc'[a] = "ended" /\ (stage'[a] # "working" \/ ~shown'[a])
<1>1. CASE Attest(a) \/ Receive(a) \/ Prepare(a) \/ Blockhash(a)
  BY <1>1 DEF TypeOK, Attest, Receive, Prepare, Blockhash, Goto
<1>2. CASE \/ RequestFails(a) \/ NotReady(a) \/ PrepareFails(a) \/ BlockhashFails(a)
           \/ Confirmed(a) \/ ConfirmExpires(a)
  BY <1>2 DEF TypeOK, RequestFails, NotReady, PrepareFails, BlockhashFails, Confirmed,
     ConfirmExpires, End, Goto
<1> QED BY <1>1, <1>2 DEF Progress

\* Steps that fairness says nothing of: a click, the wallet's answers, and a
\* confirmation that throws before its time.
LEMMA OthersEffect ==
    ASSUME TypeOK, NEW a \in Attempts, Confirm(a) \/ Prompted(a) \/ ConfirmFails(a)
    PROVE  \/ pc[a] = "new" /\ pc'[a] = "attest"
           \/ pc[a] = "wallet" /\ pc'[a] = "blockhash"
           \/ /\ pc[a] \in {"wallet", "confirm"} /\ pc'[a] = "ended"
              /\ stage'[a] # "working" \/ ~shown'[a]
  BY DEF TypeOK, Confirm, Prompted, Send, SendLost, Submit, Reject, ConfirmFails, End, Goto

\* An attempt that is over has said so, if the page that shows it is still there.
LEMMA EndIsShownAlways == Spec => []EndIsShown
<1>1. Init => EndIsShown
  BY DEF Init, EndIsShown
<1>2. TypeOK /\ EndIsShown /\ [Next]_vars => EndIsShown'
  <2> SUFFICES ASSUME TypeOK, EndIsShown, [Next]_vars, NEW a \in Attempts, (pc[a] = "ended")'
               PROVE  (stage[a] # "working" \/ ~shown[a])'
    BY DEF EndIsShown
  <2>1. CASE UNCHANGED pc[a] /\ (~shown'[a] \/ (shown[a] /\ stage'[a] = stage[a]))
    BY <2>1 DEF EndIsShown, TypeOK
  <2> QED BY <2>1, Moves, ProgressEffect, OthersEffect
<1> QED BY <1>1, <1>2, DepositTypeCorrect, PTL DEF Spec

\* Slots only go by, so a deadline that is past stays past as long as it is waited for.
LEMMA StaysPast ==
    ASSUME TypeOK, TypeOK', [Next]_vars, NEW a \in Attempts, pc[a] = "confirm", slot > deadline[a]
    PROVE  pc'[a] = "ended" \/ (pc'[a] = "confirm" /\ slot' > deadline'[a])
<1>1. slot <= slot'
  <2>1. CASE \E b \in Attempts : Execute(b) \/ PassDeadline(b)
    BY <2>1 DEF Execute, PassDeadline, TypeOK
  <2>2. CASE Admin \/ Tick
    BY <2>2 DEF Admin, Tick, TypeOK
  <2>3. ASSUME NEW b \in Attempts, Confirm(b) \/ Progress(b) \/ Prompted(b) \/ ConfirmFails(b)
        PROVE  UNCHANGED chain
    BY <2>3 DEF Confirm, Progress, Prompted, ConfirmFails, Attest, Receive, Prepare, Blockhash,
       RequestFails, NotReady, PrepareFails, BlockhashFails, Confirmed, ConfirmExpires,
       Send, SendLost, Submit, Reject
  <2>4. CASE Leave \/ UNCHANGED vars \/ \E key \in Keys : Restart(key)
    BY <2>4 DEF Leave, vars, Restart, chain, TypeOK
  <2> QED BY <2>1, <2>2, <2>3, <2>4 DEF Next, chain, TypeOK
<1>2. CASE UNCHANGED <<pc[a], deadline[a]>>
  BY <1>1, <1>2 DEF TypeOK
<1> QED BY <1>2, Moves, ProgressEffect, OthersEffect

\* A view that stays open gets to an outcome, whatever the optimizer, the admin and
\* the chain do and whether or not answers get lost or the transaction executes,
\* given that no attempt is stuck.
THEOREM OutcomeShownHolds == Spec /\ []NeverStuck => OutcomeShown
<1>1. Spec /\ []NeverStuck =>
          \A a \in Attempts :
              (pc[a] \in Steps \ {"new", "wallet"} ~>
                   pc[a] = "wallet" \/ stage[a] # "working" \/ ~shown[a])
  <2> SUFFICES ASSUME NEW a \in Attempts
               PROVE  Spec /\ []NeverStuck =>
                          (pc[a] \in Steps \ {"new", "wallet"} ~>
                              pc[a] = "wallet" \/ stage[a] # "working" \/ ~shown[a])
    OBVIOUS
  <2> DEFINE At(s) == pc[a] = s
  <2> DEFINE Goal == pc[a] = "wallet" \/ stage[a] # "working" \/ ~shown[a]
  <2> DEFINE Past == slot > deadline[a]
  <2>1. /\ TypeOK /\ At("attest") /\ [Next]_vars => At("attest")' \/ At("receive")' \/ Goal'
        /\ TypeOK /\ At("receive") /\ [Next]_vars => At("receive")' \/ At("prepare")' \/ Goal'
        /\ TypeOK /\ At("prepare") /\ [Next]_vars => At("prepare")' \/ Goal'
        /\ TypeOK /\ At("blockhash") /\ [Next]_vars => At("blockhash")' \/ At("confirm")' \/ Goal'
        /\ TypeOK /\ At("confirm") /\ [Next]_vars => At("confirm")' \/ Goal'
    BY Moves, ProgressEffect, OthersEffect
  <2>2. /\ TypeOK /\ At("attest") /\ <<Progress(a)>>_vars => At("receive")' \/ Goal'
        /\ TypeOK /\ At("receive") /\ <<Progress(a)>>_vars => At("prepare")' \/ Goal'
        /\ TypeOK /\ At("prepare") /\ <<Progress(a)>>_vars => Goal'
        /\ TypeOK /\ At("blockhash") /\ <<Progress(a)>>_vars => At("confirm")' \/ Goal'
        /\ TypeOK /\ At("confirm") /\ <<Progress(a)>>_vars => Goal'
    BY ProgressEffect
  <2>3. TypeOK /\ TypeOK' /\ At("confirm") /\ Past /\ [Next]_vars => Past' \/ At("ended")'
    BY StaysPast
  <2>4. TypeOK /\ <<PassDeadline(a)>>_vars => Past'
    BY DEF TypeOK, PassDeadline, ChainMoves
  <2>5. /\ NeverStuck /\ (At("attest") \/ At("receive") \/ At("prepare") \/ At("blockhash"))
               => ENABLED <<Progress(a)>>_vars
        /\ NeverStuck /\ TypeOK /\ At("confirm") /\ ~Past => ENABLED <<PassDeadline(a)>>_vars
        /\ NeverStuck /\ TypeOK /\ At("confirm") /\ Past => ENABLED <<Progress(a)>>_vars
    <3>1. TypeOK => (Past <=> ~(slot <= deadline[a]))
      BY DEF TypeOK
    <3> QED BY <3>1 DEF NeverStuck
  <2>6. EndIsShown /\ TypeOK =>
            /\ At("ended") => Goal
            /\ pc[a] \in Steps \ {"new", "wallet"} =>
                   \/ At("attest") \/ At("receive") \/ At("prepare") \/ At("blockhash")
                   \/ At("confirm") \/ Goal
    BY DEF EndIsShown, Steps
  <2>7. Spec => Fair(a)
    BY DEF Spec, Fairness
  <2> QED BY <2>1, <2>2, <2>3, <2>4, <2>5, <2>6, <2>7, DepositTypeCorrect, EndIsShownAlways, PTL
          DEF Spec, Fair
<1> QED BY <1>1, PTL DEF OutcomeShown
=============================================================================
