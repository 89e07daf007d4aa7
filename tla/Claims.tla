------------------------------- MODULE Claims -------------------------------
(***************************************************************************)
(* The rewards card: the hook that asks the rewards indexer for a wallet's *)
(* claim and sends it to the Saber distributor, the indexer's GET          *)
(* /claim/:wallet, the multisig that puts an epoch on chain, and the chain *)
(* that pays.  The hook neither cancels nor checks what it awaited: an     *)
(* answer for the account used before is shown all the same, and so is the *)
(* end of a claim it started.  What bounds the damage is the guard of      *)
(* Session, which leaves the page when the account changes.                *)
(***************************************************************************)
EXTENDS Session

CONSTANTS
    MaxEpoch,    \* bound on the epochs published
    MaxFetches,  \* bound on the requests to the indexer
    MaxCalls     \* bound on the claims clicked

ASSUME BoundAssumption == MaxEpoch \in Nat /\ MaxFetches \in Nat /\ MaxCalls \in Nat

VARIABLES
    view,     \* the hook's ClaimState, and whose claim of which epoch it is about
    fetches,  \* requests to the indexer and their answers
    calls,    \* runs of the hook's claim(); `short` (a ghost): has its wallet's SOL been
              \* moved since it was simulated?
    raced,    \* ghost: did the account change under a request or a claim of this view?
    latest,   \* the epoch in latest.json, 0 while there is none
    torn,     \* is latest.json being rewritten?
    owed,     \* who has a claim in each epoch
    recorded, \* epochs recorded with a saberDistributor
    live,     \* epochs whose distributor is on chain and funded
    paid      \* claims paid

hook == <<view, fetches, calls, raced>>
indexer == <<latest, torn, owed, recorded>>
vars == <<session, hook, indexer, live, paid>>

Epochs == 1..MaxEpoch
Kinds == {"connect", "loading", "none", "awaiting", "ready", "claiming", "claimed", "error"}
View(kind, of, epoch) == [kind |-> kind, of |-> of, epoch |-> epoch]

NoFetch == [step |-> "unused", of |-> NoWallet, epoch |-> 0]
NoCall == [step |-> "unused", of |-> NoWallet, proofOf |-> NoWallet, epoch |-> 0,
           tx |-> "none", short |-> FALSE, shown |-> FALSE]

TypeOK ==
    /\ SessionTypeOK /\ raced \in BOOLEAN
    /\ view \in [kind : Kinds, of : Owners, epoch : 0..MaxEpoch]
    /\ fetches \in [1..MaxFetches ->
         [step : {"unused", "asked", "none", "awaiting", "ready", "over"},
          of : Owners, epoch : 0..MaxEpoch]]
    /\ calls \in [1..MaxCalls ->
         [step : {"unused", "signing", "confirming", "over"}, of : Owners, proofOf : Owners,
          epoch : 0..MaxEpoch, tx : {"none", "sent", "executed", "expired"},
          short : BOOLEAN, shown : BOOLEAN]]
    /\ latest \in 0..MaxEpoch /\ torn \in BOOLEAN
    /\ owed \in [Epochs -> SUBSET Wallets]
    /\ recorded \subseteq 1..latest /\ live \subseteq recorded
    /\ \A c \in paid : c[1] \in live /\ c[2] \in owed[c[1]]

Init ==
    /\ SessionInit /\ raced = FALSE
    /\ view = View("connect", NoWallet, 0)
    /\ fetches = [i \in 1..MaxFetches |-> NoFetch]
    /\ calls = [j \in 1..MaxCalls |-> NoCall]
    /\ latest = 0 /\ torn = FALSE
    /\ owed = [e \in Epochs |-> {}]
    /\ recorded = {} /\ live = {} /\ paid = {}

-----------------------------------------------------------------------------
(* Asking the indexer. *)

FetchPending == \E i \in 1..MaxFetches : fetches[i].step \notin {"unused", "over"}
CallPending == \E j \in 1..MaxCalls : calls[j].shown /\ calls[j].step # "over"

\* refetch(), with `old` the requests so far: nothing is asked without a wallet.
Refetch(w, old) ==
    IF w = NoWallet
    THEN view' = View("connect", NoWallet, 0) /\ fetches' = old
    ELSE /\ view' = View("loading", w, 0)
         /\ \E i \in 1..MaxFetches :
              /\ old[i].step = "unused" /\ \A k \in 1..(i - 1) : old[k].step # "unused"
              /\ fetches' = [old EXCEPT ![i] = [NoFetch EXCEPT !.step = "asked", !.of = w]]

\* A new instance of the hook, which what the old one awaits cannot reach.
Mount(w) ==
    /\ raced' = FALSE
    /\ calls' = [j \in 1..MaxCalls |-> [calls[j] EXCEPT !.shown = FALSE]]
    /\ Refetch(w, [i \in 1..MaxFetches |->
         IF fetches[i].step = "unused" THEN NoFetch ELSE [NoFetch EXCEPT !.step = "over"]])

\* The card is left and opened again.
Reopen ==
    /\ page = "dashboard" /\ Mount(wallet)
    /\ UNCHANGED <<session, indexer, live, paid>>

CardOf(p, w) == IF p = "dashboard" THEN w ELSE NoWallet

\* The account of the same instance changes: its effect asks again.
AccountChanges(w) ==
    /\ raced' = (raced \/ FetchPending \/ CallPending)
    /\ Refetch(w, fetches)
    /\ UNCHANGED calls

\* What a step of the session does to the card.  The gate around the dashboard
\* puts it into another place of the tree when the wallet connects or
\* disconnects, which mounts it anew.
Follow ==
    /\ UNCHANGED <<indexer, live, paid>>
    /\ LET now == CardOf(page, wallet)  next == CardOf(page', wallet')
       IN  \/ now = next /\ UNCHANGED hook
           \/ now # next /\ NoWallet \in {now, next} /\ Mount(next)
           \/ now # next /\ NoWallet \notin {now, next} /\ AccountChanges(next)

\* The hard navigation unmounts the card.
Leave == Navigate /\ Follow

\* GET /claim/:wallet.  A latest.json caught while it is rewritten does not
\* parse, and is answered like a missing one.
ClaimOf(w) ==
    IF torn \/ latest = 0 \/ w \notin owed[latest] THEN "none"
    ELSE IF latest \in recorded THEN "ready" ELSE "awaiting"

IndexerAnswers(i) ==
    /\ fetches[i].step = "asked"
    /\ fetches' = [fetches EXCEPT ![i].step = ClaimOf(fetches[i].of), ![i].epoch = latest]
    /\ UNCHANGED <<session, view, calls, raced, indexer, live, paid>>

Over(i) == fetches' = [fetches EXCEPT ![i] = [NoFetch EXCEPT !.step = "over"]]

\* Ten seconds pass, or the indexer answers with an error.
FetchFails(i) ==
    /\ fetches[i].step = "asked"
    /\ Over(i)
    /\ view' = View("error", fetches[i].of, 0)
    /\ UNCHANGED <<session, calls, raced, indexer, live, paid>>

\* The answer reaches the hook, which shows it whatever it shows now.
Receive(i) ==
    /\ fetches[i].step \in {"none", "awaiting", "ready"}
    /\ Over(i)
    /\ view' = View(fetches[i].step, fetches[i].of,
                    IF fetches[i].step = "none" THEN 0 ELSE fetches[i].epoch)
    /\ UNCHANGED <<session, calls, raced, indexer, live, paid>>

-----------------------------------------------------------------------------
(* Claiming. *)

\* What the card says of a state, and whether it has the button.
Card ==
    CASE view.kind = "ready" -> "payout is on-chain"
      [] view.kind = "claiming" -> "submitting"
      [] view.kind = "claimed" -> "funds transferred"
      [] view.kind = "error" -> "message"
      [] OTHER -> "how to earn"

\* claim() starts: the claim shown, with the connected wallet as the claimant.
\* Mutant: the state stays ready until the transaction is sent.
ClickStaysReady ==
    /\ Card = "payout is on-chain" /\ CardOf(page, wallet) # NoWallet
    /\ \E j \in 1..MaxCalls :
         /\ calls[j].step = "unused" /\ \A k \in 1..(j - 1) : calls[k].step # "unused"
         /\ calls' = [calls EXCEPT ![j] = [step |-> "signing", of |-> wallet,
              proofOf |-> view.of, epoch |-> view.epoch, tx |-> "none", short |-> FALSE,
              shown |-> TRUE]]
    /\ UNCHANGED <<session, view, fetches, raced, indexer, live, paid>>

Click ==
    /\ Card = "payout is on-chain" /\ CardOf(page, wallet) # NoWallet
    /\ \E j \in 1..MaxCalls :
         /\ calls[j].step = "unused" /\ \A k \in 1..(j - 1) : calls[k].step # "unused"
         /\ calls' = [calls EXCEPT ![j] = [step |-> "signing", of |-> wallet,
              proofOf |-> view.of, epoch |-> view.epoch, tx |-> "none", short |-> FALSE,
              shown |-> TRUE]]
    /\ view' = View("claiming", wallet, view.epoch)
    /\ UNCHANGED <<session, fetches, raced, indexer, live, paid>>

\* The distributor pays each leaf once, to its claimant.
Payable(c) ==
    /\ c.epoch \in live /\ c.proofOf = c.of /\ c.of \in owed[c.epoch]
    /\ <<c.epoch, c.of>> \notin paid

Show(j, kind) ==
    view' = IF calls[j].shown THEN View(kind, calls[j].of, calls[j].epoch) ELSE view

\* The wallet signs, and what passes its simulation is sent.
\* Mutant: it is sent without one.
SignAny(j) ==
    /\ calls[j].step = "signing"
    /\ wallet = calls[j].of /\ ext = wallet
    /\ UNCHANGED <<session, fetches, raced, indexer, live, paid>>

Sign(j) ==
    /\ calls[j].step = "signing"
    /\ wallet = calls[j].of /\ ext = wallet /\ Payable(calls[j])
    /\ UNCHANGED <<session, fetches, raced, indexer, live, paid>>

Send(j) ==
    /\ Sign(j)
    /\ calls' = [calls EXCEPT ![j].step = "confirming", ![j].tx = "sent"]
    /\ UNCHANGED view

\* It is sent, and the answer with its signature is lost.
SendLost(j) ==
    /\ Sign(j)
    /\ calls' = [calls EXCEPT ![j].step = "over", ![j].tx = "sent"]
    /\ Show(j, "error")

\* The user rejects it, the simulation fails, or the claimant is not connected.
SendFails(j) ==
    /\ calls[j].step = "signing"
    /\ calls' = [calls EXCEPT ![j].step = "over"]
    /\ Show(j, "error")
    /\ UNCHANGED <<session, fetches, raced, indexer, live, paid>>

\* confirmTransaction returns: the transaction was executed.  The result,
\* which says whether it failed, is not looked at.
Confirmed(j) ==
    /\ calls[j].step = "confirming" /\ calls[j].tx = "executed"
    /\ calls' = [calls EXCEPT ![j].step = "over"]
    /\ Show(j, "claimed")
    /\ UNCHANGED <<session, fetches, raced, indexer, live, paid>>

\* Mutant: what the confirmation throws is not caught.
ConfirmThrows(j) ==
    /\ calls[j].step = "confirming"
    /\ calls' = [calls EXCEPT ![j].step = "over"]
    /\ UNCHANGED <<session, view, fetches, raced, indexer, live, paid>>

\* The confirmation's time is up, or it or getLatestBlockhash fails; the
\* transaction may land all the same.
ConfirmFails(j) ==
    /\ calls[j].step = "confirming"
    /\ calls' = [calls EXCEPT ![j].step = "over"]
    /\ Show(j, "error")
    /\ UNCHANGED <<session, fetches, raced, indexer, live, paid>>

-----------------------------------------------------------------------------
(* The chain, the indexer and the multisig. *)

\* A sent claim is executed: it pays, or it fails because the leaf was claimed
\* meanwhile, or the wallet is short of SOL for the fee and the rent.
Execute(j) ==
    /\ calls[j].tx = "sent"
    /\ \/ /\ Payable(calls[j]) /\ paid' = paid \cup {<<calls[j].epoch, calls[j].of>>}
          /\ calls' = [calls EXCEPT ![j].tx = "executed", ![j].short = FALSE]
       \/ /\ ~Payable(calls[j]) \/ calls[j].short
          /\ calls' = [calls EXCEPT ![j].tx = "executed"]
          /\ UNCHANGED paid
    /\ UNCHANGED <<session, view, fetches, raced, indexer, live>>

\* The user moves SOL out of the wallet.
MoveSol(w) ==
    /\ calls' = [j \in 1..MaxCalls |->
         IF calls[j].of = w /\ calls[j].tx = "sent" THEN [calls[j] EXCEPT !.short = TRUE]
         ELSE calls[j]]
    /\ UNCHANGED <<session, view, fetches, raced, indexer, live, paid>>

Expire(j) ==
    /\ calls[j].tx = "sent"
    /\ calls' = [calls EXCEPT ![j].tx = "expired"]
    /\ UNCHANGED <<session, view, fetches, raced, indexer, live, paid>>

\* storage.write empties latest.json and then fills it.
OpenLatest ==
    /\ ~torn /\ torn' = TRUE
    /\ UNCHANGED <<session, hook, latest, owed, recorded, live, paid>>

NewEpoch ==
    /\ torn /\ latest < MaxEpoch   \* bound
    /\ torn' = FALSE /\ latest' = latest + 1
    /\ \E who \in SUBSET Wallets : owed' = [owed EXCEPT ![latest + 1] = who]
    /\ UNCHANGED <<session, hook, recorded, live, paid>>

\* publishEpochToSaber records the distributor once the multisig has a proposal.
Record ==
    /\ torn /\ latest > 0
    /\ torn' = FALSE /\ recorded' = recorded \cup {latest}
    /\ UNCHANGED <<session, hook, latest, owed, live, paid>>

\* The members of the multisig approve the proposal and execute it.
ExecuteProposal(e) ==
    /\ e \in recorded \ live /\ live' = live \cup {e}
    /\ UNCHANGED <<session, hook, indexer, paid>>

FetchMoves(i) == IndexerAnswers(i) \/ FetchFails(i) \/ Receive(i)
Prompted(j) == Send(j) \/ SendLost(j) \/ SendFails(j)
ClaimEnds(j) == Confirmed(j) \/ ConfirmFails(j)
ClaimLands(j) == Execute(j) \/ Expire(j)

HookStep ==
    \/ \E i \in 1..MaxFetches : FetchMoves(i)
    \/ \E j \in 1..MaxCalls : Prompted(j) \/ ClaimEnds(j)
    \/ Reopen \/ Click

ChainStep ==
    \/ \E j \in 1..MaxCalls : ClaimLands(j)
    \/ \E w \in Wallets : MoveSol(w)
    \/ OpenLatest \/ NewEpoch \/ Record
    \/ \E e \in Epochs : ExecuteProposal(e)

Next == (SessionNext /\ Follow) \/ HookStep \/ ChainStep

\* The guard's timer fires and a navigation that was started ends; requests time
\* out after ten seconds, the user answers the wallet's prompt, and a transaction
\* lands or its blockhash expires.  The extension's events may get lost, and the
\* user need not do anything else.
GuardFair == WF_vars(Poll /\ Follow) /\ WF_vars(Leave)
FetchFair(i) == WF_vars(FetchMoves(i))
CallFair(j) == WF_vars(Prompted(j)) /\ WF_vars(ClaimEnds(j)) /\ WF_vars(ClaimLands(j))
Fairness ==
    /\ GuardFair
    /\ \A i \in 1..MaxFetches : FetchFair(i)
    /\ \A j \in 1..MaxCalls : CallFair(j)

Spec == Init /\ [][Next]_vars /\ Fairness

-----------------------------------------------------------------------------
(* Properties. *)

\* "Funds transferred to your wallet" is shown of a claim that is paid, by this
\* transaction or another, or that passed its simulation and failed all the same,
\* because the user moved the SOL it needed out of the wallet meanwhile.
ClaimedMeansPaid ==
    view.kind = "claimed" =>
        \/ <<view.epoch, view.of>> \in paid
        \/ \E j \in 1..MaxCalls :
              /\ calls[j].of = view.of /\ calls[j].epoch = view.epoch
              /\ calls[j].tx = "executed" /\ calls[j].short

\* As long as the account did not change under a request or a claim, the card is
\* about the account that is connected.
ShownIsCurrent == ~raced => view.of = CardOf(page, wallet)

\* And then the card says "submitting" exactly while a claim it started is not
\* over: a second one cannot be started beside it.
OneClaimAtATime ==
    ~raced => /\ (Card = "submitting") <=> CallPending
              /\ Cardinality({j \in 1..MaxCalls : calls[j].shown /\ calls[j].step # "over"}) <= 1

\* What the hook awaits can always come to an end.
AwaitsEnd ==
    /\ \A i \in 1..MaxFetches :
          fetches[i].step \notin {"unused", "over"} => ENABLED <<FetchMoves(i)>>_vars
    /\ \A j \in 1..MaxCalls :
          /\ calls[j].step = "signing" => ENABLED <<Prompted(j)>>_vars
          /\ calls[j].step = "confirming" => ENABLED <<ClaimEnds(j)>>_vars

\* The card is never stuck loading or submitting, whatever becomes of the
\* requests, the claims and the indexer, if the user answers the wallet's prompt.
CardSettles ==
    /\ []AwaitsEnd
    /\ view.kind \in {"loading", "claiming"} ~> view.kind \notin {"loading", "claiming"}

\* Nothing on the page can hold up a navigation that was started.
LeavingEnds == leaving => ENABLED <<Leave>>_vars

\* A card that may be about another account than the one connected does not stay:
\* the guard leaves the page.
MixUpEnds == []LeavingEnds /\ (raced ~> ~raced)
=============================================================================
