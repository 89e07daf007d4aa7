# A TLA+ development of Yieldfy

Yieldfy takes wXRP on Solana and gives back yXRP, 1:1.  A small on-chain
program holds the wXRP; an off-chain optimizer chooses and signs the venue each
deposit is routed to; a rewards indexer computes weekly distributions and
proposes them to a Squads multisig; a dashboard and an SDK put transactions
together; scripts set the program up and watch it.

This directory models the parts of that system whose correctness depends on
order, interleaving, failure or arithmetic limits, checks them with TLC on small
instances, and proves their properties for all instances with TLAPS: the safety of
all of them, and liveness from fairness.

    tlc -config MCYieldfyProgram.cfg MCYieldfyProgram      check a run
    tlapm YieldfyProgramProofs.tla                         check a proof module

`PROJECT.json` lists the runs, which source lines each definition models, the
mutants that show each property can fail, and the hazards.

## 1. Inventory

| component | state | operations | hard parts |
|---|---|---|---|
| On-chain program, `programs/yieldfy/src` | Config, one Position per user, the vault's wXRP, the yXRP mint | initialize, deposit, withdraw, rebalance, set_paused, set_cap, rotate_attestor, rotate_authority | yXRP moves without the program's knowledge; saturating arithmetic; the pause and rotations against transactions in flight |
| Attestation verification, `attest.rs` | none (one call) | scan for the ed25519 instruction, five checks | the 16-instruction limit; slots near the end of u64; stale or foreign signatures |
| Venue adapters, `venues/` | none | Kamino supply and redeem | stubs today |
| Rewards indexer: epochs and publishing, `services/rewards-indexer` | `epoch-N.json`, `latest.json`, the multisig | run-epoch, publish-epoch, `cli.ts run`, GET routes | awaits between check and use; two files per write; torn files after a crash; transactions that land although they were reported lost |
| its inputs: `snapshot.ts`, `oracle.ts`, `epoch.ts`, `merkle.ts`, `saber-bundle.ts` | one epoch in the making | price, read holders and positions, join, build the tree and the distributor | two reads at different moments; rounding and caps |
| SDK: scoring, client, distributor, `packages/sdk` | none | score and split; deposit, withdraw, fetchConfig, readPosition; claim | gates and floors; ignored confirmation errors |
| Optimizer: attestations, `services/optimizer` | attestor key | /choose, /attest | a pool missing from the feed; restart with another key |
| Optimizer: webhooks | subscriptions in memory or redis | POST and DELETE /webhooks, dispatch, deliveries | a two-key store, retries and delivery ids, restart |
| wXRP supply indexer, `services/wxrp-indexer` | last snapshot, counters | poll every N s | overlapping polls |
| Dashboard: deposit flow | amount field, step, stage, balance cache | type, MAX, review, confirm, retry, leave | rewriting of text; stale renders; Retry after a timeout |
| Dashboard: claim flow | the card, its requests and claims | fetch, claim, confirm | answers for another account; double claims |
| Dashboard: wallet session | guard's snapshot, adapter's account, localStorage | connect, disconnect, switch, poll | lost events; disconnect and autoConnect |
| Dashboard: hooks and providers | notifications, network, risk profile | load, push, mark read, dismiss, switch | several tabs on one localStorage; timers |
| Dashboard: pages and UI kit | none | layout | none |
| Operations: bootstrap, `init-mainnet.ts`, `init-devnet.ts` | key files, the chain | create mints, initialize, rotate, hand over | stop and re-run at any await |
| Operations: watcher, smoke tests, drill | the chain | read and compare; deposit and compare; pause and unpause | non-atomic reads; an error half-way |
| Tests, template, CI | none | | |

The components meet in these places.  The optimizer's signature and the client's
transaction layout are inputs of the program (`Transactions` in
`YieldfyProgram`); `DepositFlow` composes optimizer, client, wallet and chain,
and `DepositForm` is the form around it.  The bootstrap hands the yXRP mint to
the program (`Bootstrap`; `HandOverMint` in `YieldfyProgram`).  `EpochInputs`
computes what `RewardsIndexer` numbers, stores and proposes; `Claims` starts
where an epoch is published, and composes indexer, hook, wallet and chain with
`Session`, the guard that leaves the page when the account changes.  The wXRP
indexer and the operators' scripts only look at the chain, except the smoke test
and the drill, which also use it.

What makes each correct:

* program: the vault covers the supply and all receipts; receipts change only
  1:1 with tokens; exits are always open; the pause stops what it says; time
  never makes an attestation valid;
* verification: it accepts exactly an ed25519 instruction with the attestor's key,
  this venue and this fresh slot at the places it reads, which is the attestor's
  signature of them as clients lay them out; and it names the first thing wrong;
* epochs and publishing: an epoch id means one snapshot; epochs keep their
  distance; the recorded distributor is the one proposed; nothing is funded
  twice; every request is answered;
* an epoch's inputs: claims stay within the pool, every claim verifies and can be
  paid in any order, and goes to someone who met both minimums; who holds more
  gets no less;
* optimizer: a venue it does not know the yield of is never preferred to the
  default one;
* webhooks: a confirmed subscription gets its events, a removed one gets none,
  through half-failed calls and restarts; every delivery ends;
* wXRP indexer: the counters add up to the supply shown, count only what
  happened, and catch up after any failure;
* deposit: what is sent is what was reviewed; what the user is told agrees with
  the chain, and he is told; the balance shown afterwards includes the deposit;
* claim and session: nobody works on in the dashboard with an account he did not
  enter with; a claim shown as paid is paid; one claim at a time;
* tabs: lists stay in order and lose nothing on a reload; the badge clears;
* bootstrap: no mint's key is lost; "complete" means program, mint and
  multisig belong together; re-running gets there;
* scripts: a verdict means what it says when nothing moved; a lasting loss rings.

## 2. Modules

| module | what it is |
|---|---|
| `AttestVerify` | what `attest::verify` accepts, declaratively, and the saturating u64 operators |
| `AttestScan` | `attest::verify` as it runs: one step per loop iteration and per check |
| `YieldfyProgram` | the on-chain program and the token holders around it |
| `OneToOneWrapper` | the abstract promise of the program: a covered 1:1 wrapper with a switch |
| `Totals` | sums over finite sets of accounts, without recursion |
| `RewardsIndexer` | epoch store, requests, cron, crashes, multisig |
| `EpochInputs` | one epoch from the prices to the claims: snapshot, scores, tree, distributor |
| `VenueScore` | the optimizer's feed, score and choice, as operators |
| `DepositFlow` | a deposit from the click to the message: view, client, optimizer, wallet, chain |
| `DepositForm` | the form around it: amount field, steps, risk profile, balance cache, cluster |
| `Session` | a tab, the guard, wallet-adapter and the extension |
| `Claims` | `Session` composed with the rewards card, the indexer and the chain |
| `Tabs` | notifications and network in several tabs over one localStorage |
| `Webhooks` | subscription store, dispatch, deliveries, receivers, restarts |
| `WxrpIndexer` | polls, metrics, restarts, and the mint they look at |
| `Bootstrap` | both init scripts, their key files, and transactions in flight |
| `OpsScripts` | watcher, smoke test and drill beside users and admins |
| `YieldfyProgramProofs` | proofs about `YieldfyProgram`, `OneToOneWrapper`, `Totals` and `AttestScan` |
| `RewardsIndexerProofs`, `EpochInputsProofs`, `DepositFlowProofs` | proofs about the module named |
| `ServicesProofs` | proofs about `Webhooks` and `WxrpIndexer` |
| `DashboardProofs` | proofs about `Session` and `Claims`, `DepositForm`, `Tabs` |
| `ScriptsProofs` | proofs about `Bootstrap` and `OpsScripts` |
| `SumTheorems` | lemmas: induction over the numbers and over finite sets, functions defined by recursion, sums |
| `MC...` | instances for TLC; the other runs check the module as it is |

### AttestVerify and AttestScan

A transaction is the sequence of its instructions.  An ed25519 precompile
instruction (`Ed25519Data`) is a record of the fields verify reads at fixed places:
key, venue byte, slot, and whether the data is long enough; and of `signed`, what
the precompile verified, which is what the offsets in the data point at.  The code
compares the former and never looks at the latter.  They agree in the instruction
that clients build, `Ed25519Ix`, and `OfClients` says that they do.  The other
modules use `Ed25519Ix` alone.  The scan limit (16) and the
largest u64 are constants.  `AttestScan` keeps the loop index, the instruction
found and the next check; each `require!` is an action with its own error.

### YieldfyProgram

`config`, `position` and the balances are the accounts of the same name; `slot`
is the Clock.  A Solana transaction is atomic, so a handler is one action whose
guards are its `require!`s, account constraints and the checks the SPL Token
calls make (balance, u64 overflow); a failing one is simply not enabled.
`position[u].open` says the PDA exists (`init_if_needed`).  Deposit and withdraw
let the caller name the yXRP or wXRP account on the far side, as the account
constraints do.  Around the instructions, holders send, burn and donate tokens,
and slots go by.  Token delegation is left out, as are events, PDA bumps, rent
and `last_update`.  The Kamino calls are stubs in the code and have no effect in
the model.

`U64Max` stands for 2^64 - 1.  With a small one TLC reaches every overflow and
saturation branch; the proofs hold for any value.

### RewardsIndexer

Every request is a process with a program counter; a step runs from one `await` to
the next.  `writeFile` truncates and then fills, so each file passes through
`Torn`, which readers take for missing while the directory listing still counts
it; two writers with the same file open may leave it torn.  A proposal sent is
`flying` until the chain executes it (it fails if its index is taken) or its
blockhash expires; the answer of the send may be lost, as that of the
confirmation.  An epoch keeps the snapshot it was computed from, whether it is
empty, and the multisig index its distributor is derived from; prices, scores and
proofs are behind `snapshot`.  GET routes and metrics only read; `OnDisk` and
`LatestIsNewest` speak of what the two epoch routes answer.

`setting`, chosen once from `Settings`, says what may happen in a behaviour:
requests overlapping, crashes, other members' proposals, answers lost,
publishing by id.  The properties do not all hold in all of them; each names the
settings it is claimed for.

### EpochInputs

The steps of runEpoch: sample the prices, start both reads, let each arrive at a
moment of its own, compute, publish.  Holders trade, deposit and withdraw in
between.  The scores, the split and the two floors are the code's in integers;
the exponents are 1 and a hash is the tree of what was hashed.  The distributor
then pays claims as the Saber program does: it checks the proof and its two caps,
and marks the claim.

### VenueScore and DepositFlow

An attempt is one run of the view's `onConfirm`, with a step for every await.
`shown` is the view's mounted flag (`cancelled` in the code): leaving the view
does not stop the attempt, it only silences it, except that an attempt which has
not yet received its attestation stops there.  The optimizer answers /attest with
the best venue by some answer of the yield feed, and signs the slot it reads with
the key of the running process; a restart may change the key.  The wallet
simulates before it sends, so a transaction is accepted once when sent and again
when executed, by the same `Accepts`, built on `AttestVerify`; in between the
Config, the slot and the balance may have changed.  Amounts are one unit; `funds`
is how many deposits the wallet can still pay for.

A transaction is good until the slot `valid`, which depends on a blockhash that the
wallet fetched at some time before it sent: any number of slots up to `Lifetime`
are left.  The client asks for the latest blockhash once it has sent, and the
confirmation waits until that one has expired, at `deadline`.  Every call may lose
its answer: the send (`SendLost`), getLatestBlockhash (`BlockhashFails`), the
confirmation for a reason of its own (`ConfirmFails`).  The attempt then shows an
error, and its transaction stays in the air.  When the deadline passes the view
shows `expired`, the error whose message says so, also when the transaction has
landed and only the news of it has not come.  `upset`, a ghost, marks a transaction
in the air under which something changed that makes it fail.  A fetch without a
timeout is taken to fail at last when the network does.

`VenueScore` keeps the code's weights and tables and replaces doubles by integers
of one common scale.  Utilization is taken to lie between 0 and 1.

### DepositForm

A text is a sequence of characters, a character a number: 0 to 9 the digits, then
the dot, then whatever else a keyboard has.  `Sanitize` rewrites the field at each
keystroke or paste; like the code it empties it when the whole part is so long
that JavaScript's Number overflows, which is from `Infinite` on.  `Text` is what
String makes of a whole number, `Number` what Number or BigInt makes of digits.
The steps 1 to 3, MAX, Back, Retry, leaving the view and switching the cluster are
actions.  `reviewed` and `sent` remember what was on the review and what the
attempt deposits.  The balance comes from a cache of one key, as the code's, with
one query in flight, a stale flag, and the number of deposits each answer
includes.  A refetch replaces the query in flight once a balance is cached, and
joins it until then, as react-query does; `joined` marks what such a query finds.
The form can get there: while there is no balance, an amount is not held against
it (DepositView.tsx:97).  The inside of an attempt is one step that ends;
`DepositFlow` follows it.  An attempt left behind by its form counts there as
spending elsewhere.

### Session and Claims

`ext` is the extension's account and `wallet` wallet-adapter's; an event carries
a change over, or gets lost, and then only the poll of once a second notices.
`initial` and `handled` are the guard's refs, `leaving` the navigation it has
begun, `auto` wallet-adapter's key in localStorage.  `ClearAndRedirect` is the
function of the same name; the menu's disconnect is `DisconnectWallet`.

`Claims` adds the card's `ClaimState` with whose claim it is, every request to
the indexer, and every run of `claim()`; an answer sets the state whoever the
account is by then.  The indexer serves `latest.json`, which may be torn; a
distributor recorded is live when the multisig's transaction has executed.  A
claim in flight executes or expires; its blockhash is fetched after it is sent,
so the confirmation may fail while the claim lands, and the answer of the send may
be lost.  An executed claim pays, or fails: the leaf was claimed meanwhile, or its
wallet is short of SOL, which it can only be if SOL left it after the simulation
(`MoveSol`, with the ghost `short`).

### Tabs

A value is stored per key; each tab holds its own copy, read at its load, and
`dirty` the keys whose effect has yet to write them.  A note is its number, which
is its age, and a read flag.  The bell's 400 ms timers outlive their popover.

### Webhooks

`kind` is the store wired at boot.  With redis a subscription is two keys, the
set `ids` and the entry in `bodies`; a call writes its two commands back to back
on the process's only connection, so a call that succeeds is one step, and one
that fails may have applied any part.  `client` is what the owner was told, and
`known[e]` keeps it as it was when event `e` was attested, for the properties to
compare with.  A dispatch reads the ids, then the bodies, then starts one
delivery per match.  A delivery posts, awaits an answer or its 5 s abort, and
retries or ends; an aborted POST is still under way and may arrive at any time.
Receivers act upon a POST or turn it down.  The id of a POST is its attempt
number, since every attempt draws a new one.  `Restart` is any end of the process
followed by a start.  `ListFails` is one too: nobody catches the rejection of
`dispatchEvent`, and Node's default for that is to end the process.  The
validation of the body of POST /webhooks, signatures and metrics are left out;
3xx answers, which fetch follows, are too.

### WxrpIndexer

A poll reads the mint, and is applied as a whole when its answer is handled;
`overlap` says whether an answer may take longer than the timer's period.  A
snapshot carries what was issued and redeemed up to its moment, in place of its
slot.  A restart forgets snapshot and counters, as Prometheus expects.

### Bootstrap

One model for both scripts: `net` selects the row of steps.  A step looks at the
chain, skips or sends, and waits.  A run may stop at any await; what it had sent
stays in `flying` and may execute during the next run.  Key files pass through
`Torn`; `ops/artifacts` is not in git, so a file may also go missing, and `lost`
says so.

### OpsScripts

The watcher is one read per step; an error in `getAccount` for the vault is taken
for zero, as the code's catch does, any other ends the round.  The smoke test
(mainnet) and the deposit script (devnet) share the deposit.  The drill
pauses, tries a deposit, and unpauses.  Users and admins move in between.  The
program is reduced to what these scripts read; `YieldfyProgram` justifies that
principal and receipts move together.

## 3. Runs

| run | instance | what it shows |
|---|---|---|
| `program` | 2 users with 1 unit each, `U64Max` 2, 2 admins, 2 attestors, 2 venues, 3 slots | all program properties, and that it implements `OneToOneWrapper`, under every interleaving |
| `attest_scan` | scan limit 2, every list of up to 3 instructions over 2 keys, 2 venues, 2 slots, a truncated one and one that carries other bytes than were signed | the scan agrees with `Verified`, and with what was signed for the layout of clients |
| `rewards` | 4 settings: one request at a time; a run and a publication overlapping; a cron run and a publication with every fault; two publications and cron. Up to 3 epochs | latest.json is the newest epoch, an id means one snapshot, epochs are spaced, recorded distributors were proposed, once; requests are answered |
| `epoch_inputs` | 3 wallets, one with 2 token accounts, every balance up to 1 and position up to 2, 2 moves; also every tree of up to 6 leaves | claims are within the pool, verify, and can all be paid in any order; both minimums were met by whoever earns, unless something moved between the reads; more earns no less |
| `deposit_flow` | 2 attempts, 2 keys, 2 answers of the feed, staleness 1, blockhashes good for 1 slot, 1 slot besides those of the deadlines, funds for one deposit | of an expired attempt nothing more comes, a finished one deposited or was upset in the air, a venue other than Kamino was listed; the view never hangs |
| `deposit_form` | 2 characters and 3 texts to paste, cap 2, overflow at 100, 1 decimal, 2 clusters, 2 profiles, 1 deposit on each | amounts are always payable, what is sent is what was reviewed, the balance shown includes the deposit unless the first query was joined, MAX is everything |
| `claims` | 2 accounts, 1 epoch, 2 requests, 2 claims | a changed account leaves the page and is not attached again; one claim at a time; a claim shown as paid is paid or its wallet ran short; the card settles |
| `tabs` | 2 tabs, lists of up to 2 of 3 notes, 1 timer per tab | lists stay in order without duplicates, a reload loses nothing the tab wrote last; the badge clears |
| `webhooks` | 1 event, a subscription that matches it and one that does not, 3 attempts, either store | confirmed subscriptions get events, removed ones none; dispatches and deliveries end |
| `wxrp_indexer` | 2 polls, supply up to 2, 3 changes, 1 error, 1 restart, with and without overlap | counters add up to the gauge, count only real moves without overlap, and the gauge catches up |
| `bootstrap` | 4 keys, 2 faults, both networks | no mint loses its key, completion means program, mint and multisig belong together; re-running completes |
| `ops_scripts` | deployer and one user, 2 moves, vault up to 3, 1 failed call, both networks | what verdicts mean; a drill without faults restores the program; a lasting mismatch rings |

Bounds.  The whole supply of wXRP is 2 and `U64Max` is 2 in `program`, so the sums
that could overflow sit exactly at the limit, and two users are enough for
transfers of receipts, deposits to another's account and exits competing for the
vault.  Two authorities and attestors allow every rotation and return.  Three
slots with staleness 0 to 2 put an attestation before, at and past its window.  A
scan of 2 with lists of 3 has an attestation before, at and beyond the limit;
nothing in the loop depends on the 16.  In `rewards` two epochs are the smallest
number at which ids, latest.json and old publications can disagree, a third leaves
room for a crash in between; two publications are enough to write the same file at
once.  In `epoch_inputs` three claims give an odd layer of the tree and shares
that floor (a pool of 7 over a price of 2), two moves are a transfer seen from
both sides of the reads.  In `deposit_flow` two attempts with funds for one make a
background attempt and its successor compete; with deadlines waited out, slots go
to about five, past the end of every blockhash and of every attestation, while a
transaction is in the air; a feed that lists no pool and one in which marginfi
wins are the two cases the property tells apart.  In `deposit_form` funds of 0.5
and 2.5 with a cap of 2 put the balance on either side of the cap, one decimal
makes every cut visible, and one of the texts overflows.  In `claims` two requests
and two claims are what a race needs; a second epoch would differ from the first
only in its number.  In `tabs` three notes overflow a list of two.  In the
webhooks, deliveries of different events share nothing but the store, so one event
and the order of its attestation, listing and deliveries against each call of an
owner are enough; three attempts are the program's own number.  In `wxrp_indexer`
two polls swap; three changes let the supply leave a value and return to it.  In
`bootstrap` two faults are a stop and a late transaction, and four keys feed two
mints twice.  In `ops_scripts` two moves can cancel out and so hide a mismatch.

Deadlock is checked except in four runs, where a system may rest: a call that
has returned (`attest_scan`), an epoch paid out (`epoch_inputs`), and users who
need not click (`claims`, `tabs`).

Fairness.

| module | fairness | why |
|---|---|---|
| `AttestScan` | WF of Next | an instruction runs to its end |
| `RewardsIndexer` | WF of every await's continuation, of file writes, and of the chain settling or dropping the transaction a publisher waits for | Node runs every ready callback; a fetch, an RPC call or a write answers or fails; blockhashes expire |
| `DepositFlow` | WF of each attempt's awaits, and of a deadline passing; none of the wallet's popup, nor of a transaction's execution | the same, and slots go by; the popup waits for the user, and a transaction may never execute |
| `Claims` | WF of the guard's poll and of a navigation begun, of each request, of each claim's prompt, confirmation and transaction | timers fire, requests time out after 10 s, blockhashes expire; `CardSettles` is about users who answer the prompt. None of the extension's events |
| `Webhooks` | WF of each dispatch's awaits, of the backoff timers, of the end of each attempt | a redis command answers or fails, the abort timer is always armed. None of receivers |
| `WxrpIndexer` | WF of the timer and of each poll's answer | setInterval; an RPC call answers or fails |
| `Bootstrap` | WF of the script and of the fate of the transaction it waits for, SF of deleting a torn file | "Safe to re-run": the operator starts it until it completes; the script refuses a torn file each time until it is deleted |
| `OpsScripts` | WF of the watcher, alerting included | cron starts it every ten minutes |
| `Tabs` | WF of each tab's effects and timers | the browser runs them |

No fairness is assumed of requests arriving, of users, of other multisig members,
of the clock, of admins or of crashes.  `YieldfyProgram`, `EpochInputs` and
`DepositForm` need none: their properties are safety.

A liveness property of a run has two parts: that what fairness is about can be
taken whenever it is awaited, as an invariant with ENABLED (`NeverStuck`,
`AwaitsEnd`, `LeavingEnds`, `WorkGoesOn`, `PollingGoesOn`, `BootstrapGoesOn`,
`WatcherGoesOn`, `TimersRun`), and what must come about.  The second part follows
from the first for any constants; section 4 says how.

## 4. Proofs

Everything below is proved for every value of the constants, from the ASSUMEs in
the modules.

* `YieldfyProgramProofs`, about `YieldfyProgram`: the parts of `Consistent`
  (`TypeOK`, `Lockstep`, `TokensConserved`) and of `Covered` (`Backing`,
  `ReceiptsCovered`), `PauseFreezes`, `OneToOne`, and the refinement
  `ImplementsWrapper`.  None of the interesting invariants is inductive alone.  A
  withdrawal keeps `Backing` only because burning and paying out match, but
  `saturating_add` keeps `OneToOne` only because it never saturates, which needs
  the total of the receipts to be at most the vault, which is at most the conserved
  total of wXRP.  The inductive invariant is the conjunction of the type invariant,
  the two coverage facts, lockstep, conservation and a closed position having no
  receipt.  `ExitOpenHolds` states `ExitAlwaysOpen` with the guards of the
  withdrawal written out, since ENABLED is outside the prover; that they are the
  guards of `Withdraw` is what TLC checks with ENABLED in the run `program`.
  `OnlyAdminRevives` rests on slots only passing: as long as the Config stays, an
  attestation only gets older.  `Totals` defines the total of u64 amounts as the
  cardinality of the set of units they make up; the first lemmas show what a single
  change and a move do to it.
* About `AttestScan`, in the same module: `VerifyTypeOK`, `AcceptsExactly` and
  `ErrorNamesFirstFailure`.  `AcceptsExactly` is about the bytes verify reads, and
  about the signature only where the instruction is `OfClients`.  The loop
  invariant is that no instruction before `i` is an ed25519 one, and that once
  found, `edIx` is the first; the remaining checks follow the program counter.
* `RewardsIndexerProofs`: `TypeOK`, `StoreInvariant` with its parts
  `OneSnapshotPerEpoch` and `EpochsSpaced`, `LatestIsNewest`,
  `RecordedIsProposed`, `ProposedOnce`, and `Answered`.  Three invariants on top
  of the types, each under its own condition.  That an id means one snapshot needs
  that whatever is known of an epoch, in a file, a request, a transaction or the
  multisig, has a file, torn or not, so the next number is a new one; the
  exception is a run that has numbered its epoch and not yet opened its file, and
  there is one at most.  `LatestIsNewest` needs that the epoch a request works on
  is the newest listed; `EpochsSpaced` that a run past the check has waited since
  every epoch known.  `RecordedIsProposed` and `ProposedOnce` follow a proposal:
  the transaction in flight is that of the publisher that waits, a settled one
  never has its index, and a proposed epoch is being recorded or is marked in
  every file a publisher may read.  The greatest number of a set, which
  `NextEpochId` chooses, exists because the naturals are well-founded.
* `EpochInputsProofs`: `EpochInvariant` and `MoreEarnsMore`, for any wallets, token
  accounts, balances, prices, minimums and claims, and two facts about claim trees
  of any size: by its proof every entry verifies against the root, odd layers
  included (`ProofsVerify`), and whatever hashes are offered as a proof, only a
  listed entry does (`OnlyListedVerify`).  `EpochInv` says what each of the two
  reads is still worth once things have moved (`ReadsAreTrue`), what the epoch is in
  terms of what was read, and how much the distributor keeps.  Claims can be paid in
  any order because funds and what was claimed always add up to the epoch's total.
  They stay within the pool, by less than a lamport per claim, because the shares
  add up to their total before the floors, and each floor loses less than one.
* `DepositFlowProofs`: `TypeOK`, `ExpiredIsSettled`, `DoneMeansDeposited` and
  `OtherVenueMeansListed`.  The invariant says of each attempt that its transaction,
  while in the air and not upset, would still be accepted (`Simulated`): what the
  simulation found can only change by a step that marks it.  It says that the
  deadline is not before the end of the transaction's own blockhash
  (`WaitsItOut`), because the client asks for its blockhash after the wallet did; so
  that once the deadline is past the transaction can execute no more; and that what
  the view tells stays true (`ToldRight`).  None of the three is inductive without
  the others.  That a venue other than Kamino was listed follows from a lemma on the
  score alone: a pool that the feed lacks scores less than Kamino, listed or not,
  whatever the profile.
* `ServicesProofs`, about `Webhooks`: `TypeOK`, `SubscribersAreTargets`, and
  `OkMeansProcessed`.  The invariant says that what owners were told is true of the
  store, that the list a dispatch has read is right about every owner who was told
  something before the event, and that an event leaves no trace before its
  dispatch.  It must also say that an owner told something is not told nothing
  later, without which a subscription could be confirmed after the fact.
* About `WxrpIndexer`, in the same module: `PollTypeOK`, `CountersBalance`,
  `MovesAreReal`.  The counters balance by themselves.  For `MovesAreReal` a
  snapshot has to be dated: `PollerInv` adds that none is dated later than now, that
  its supply is what was issued less what was redeemed by then, and that without
  overlap there is one poll in flight, whose snapshot is not older than `last`.
* `DashboardProofs`, about `Session` and `Claims`: `TypeOK`, `DriftIsCaught`,
  `NoReattach`, `ClaimedMeansPaid`, `ShownIsCurrent`, `OneClaimAtATime`.  The
  session's part of the invariant says that the guard's snapshot is the account the
  page was entered with, that a handled drift leaves the page, and that autoConnect
  is off once the user is gone; the hook's part that, until the account changes
  under something awaited, every request and claim is about the account connected.
  For `ClaimedMeansPaid` each claim that has been sent was owed by a live
  distributor, which stays so, so that it can fail only because it is paid already
  or was marked (`PaidInv`).
* About `DepositForm`: `FormInvariant`, `SentIsReviewed`, `DepositIsSeen` and
  `MaxIsAll`, for any cap, number of decimals and overflow, and whatever is typed,
  deleted or pasted.  Behind them are facts about numerals: `Text` and `Number` are
  inverse (`TextNumber`), what `Sanitize` makes of any text is an amount
  (`SanitizeMakesAmounts`), it leaves amounts as they are (`AmountsAreFine`), and
  what `Shown` writes of a number of base units, `Parse` reads as that number
  (`ShownIsRead`), which is `MaxIsAll`.  `FormInv` adds that from the review on the
  amount, the cluster and the profile are those reviewed, until the attempt ends,
  and that a query in flight includes every deposit on its cluster unless it is one
  that a refetch joined: `DepositIsSeen` is about the moment none is in flight, and
  holds only because a deposit replaces the query asked before it once a balance is
  cached, and is marked as joined until then.
* About `Tabs`: `TabsInvariant`, for any number of tabs, notes and timers.
  `TabsInv` adds that no id in a list is beyond the last one made, without which a
  new note might not be the newest, and that what a tab was the last to write is
  what it shows, key by key, also while another key of it is still dirty; and that
  nothing is left to do for a tab that is closed.
* `ScriptsProofs`, about `Bootstrap`: `TypeOK`, `KeysAreKept`, `CompleteMeansBound`.
  The invariant says that a transaction that creates a mint is sent only once its
  key is in the file, which must hold of the run's own copy of the keys too, and
  that what `step` has passed is true of the chain and stays true under late
  transactions.
* About `OpsScripts`, in the same module: `Verdicts` and `DrillRestores`, for any
  users, moves and failed calls.  In the midst of a round the watcher has added up
  some of the positions: as long as nothing moved, its sum and the principals it
  has yet to read are all principals (`Reading`).  That receipts and positions never
  exceed the vault (`Funded`) bounds what it adds up.

Induction over data.  The library's induction theorems take a predicate as a
parameter, which the provers cannot instantiate.  `SumTheorems` therefore proves
inductions over a set instead: a set of numbers that has zero and every successor
has all numbers, and likewise for the subsets of a finite set.  The set for which
a claim holds is then written out.  By them a recursive function on the numbers
(`Tens`, `Text`, a tree's layers, the digits kept of a text) exists and is what its
equation says (`Recursion`), and `SumFunctionOnSet` of the community modules is
what a sum should be.

Liveness.  The provers cannot look into ENABLED, and so cannot derive from WF that
a step is taken.  Each liveness theorem therefore has the ENABLED part of its
property as a hypothesis (`Spec /\ []NeverStuck => Answered`): the run checks it,
on its instance, and the theorem derives from it, from the fairness of the
specification and from the inductive invariants above that what must come about
does, for every value of the constants.  The proofs follow one process or
transaction at a time.  A lemma of plain logic says where a step takes it
(`Moves`, `AwaitingGoesOn`, `DeliverySteps`, `KeyMoves` and `StepMoves`,
`WatchMoves`), one that its own fair step takes it on, and the temporal step
chains them.  Quantified processes are proved about one by one, for PTL sees no
quantifiers.

| theorem | further hypotheses |
|---|---|
| `AnsweredHolds`, `OutcomeShownHolds`, `MixUpEndsHolds`, `BadgeClearsHolds` | none |
| `DispatchSettlesHolds` | at most three attempts, as many as webhooks.ts has delays for: an attempt more is a step more of the chain |
| `CardSettlesHolds` | in the end the hook asks the indexer no more: each account change and each refetch starts the wait anew |
| `EventuallyCurrentHolds` | in the end supply, errors and restarts are still; where polls overlap, in the end every answer read before has been applied |
| `CompletesHolds` | in the end no fault occurs |
| `AlarmRingsHolds` | in the end nothing moves under the watcher and no call fails; every round gets past the positions |

Behaviours of the models satisfy all of these, for faults, moves, requests and
positions are bounded: that a number which only falls is changed a bounded number
of times, or a finite set is used up, is an induction that cannot be done inside
temporal logic here.  A round that goes on for ever over more and more users is the
one case `AlarmRings` names as its own condition (`PositionsEnd`).
`AwaitingGoesOn` rests on what was hard in `Claims`: a card that loads or claims
always has a request or a claim of its own under way (`Awaited`), although an
account change mounts it anew.  `CompletesHolds` rests on what a run has passed
staying done (`DoneTo`), although what an earlier run sent may still land.
`AlarmRingsHolds` uses `Verdicts`: a round that nothing moved under does not take a
program out of order for healthy.

Only model-checked: `ExitAlwaysOpen` as such, and the ENABLED parts of the
liveness properties.  Every other property of every run is a theorem.

## 5. Properties and hazards

`PROJECT.json` lists every hazard with the line it bites at and the properties
that would catch it.  Where a property is claimed only under a condition (no
overlap, no lost confirmation, nothing failed), the condition is in the property
itself and what happens outside it is told in section 6.  One hazard has no
property: the balance cache does not know its cluster, which the model shows and
section 6 tells.

Several invariants are conjunctions of named parts: `Consistent`, `Covered`,
`StoreInvariant`, `EpochInvariant`, `FormInvariant`, `TabsInvariant`, `Verdicts`
and `SubscribersAreTargets`.  Each part has its own comment.

## 6. Where documents and code differ

What the models showed, or reading the code for them settled.  The properties
hold under the conditions they name; this is what happens outside them.

Rewards indexer.

* services/rewards-indexer/README.md:22 says run-epoch rejects an epoch less than
  `EPOCH_HOURS` after the last.  The check comes before a long await: two requests
  at once both pass it (`EpochsSpaced` is about requests in order), and both may
  number the same id, the second overwriting the first (`OneSnapshotPerEpoch` is
  about one run at a time).  `cli.ts run` does not check at all.
* A crash between `epoch-N.json` and `latest.json` leaves GET /epoch/latest at the
  epoch before, or at 404 if `latest.json` was torn, and then the next run-epoch is
  not refused whenever it comes.  Publishing an older epoch by its id moves
  `latest.json` back to it, and the interval is measured from there.
* saber-publisher.ts:2 turns "one EpochResult" into a distributor, and
  storage.ts:36 says the distributor is recorded "after the Squads tx confirms".  A
  confirmation that is lost, or a crash while waiting for it, leaves the epoch
  unmarked although its proposal may land: publishing again proposes and funds it
  twice.  So do two publications at once, two runs that shared a number, and a
  publication by id that overlaps a run.  The index is read several awaits before
  it is used, and confirmTransaction's result is not looked at: when another
  member takes the index first, the transaction fails on chain and the distributor
  derived from that index is recorded all the same (`RecordedIsProposed` is about
  a multisig nobody else uses meanwhile).
* packages/sdk/src/rewards.ts:5-6 and snapshot.ts:3 speak of holding wXRP and a
  position at one time; they are two reads at two moments, so a transfer in between
  counts twice or not at all.
* epoch.ts:67 keeps claims above zero before the floor to lamports at :72, so a
  claim of zero can be published.
* oracle.ts:34-49, the rolling mean that packages/sdk/src/rewards.ts:74 calls for
  ("Rolling 7-day mean"), is called by nothing.
* GET /claim/:wallet/:epochId omits the distributor and is called by nothing.
  The dashboard asks for the latest epoch only, so an older claim not yet made is
  no longer offered; and it offers a claim as soon as the distributor is recorded,
  before the multisig has executed it (OverviewView.tsx:70, useRewardsClaim.ts:37).

Deposits.

* client.ts:116 promises the signature "once confirmed", the view says "Deposit
  confirmed", and client.ts:200-204 ignores the result of confirmTransaction: a
  deposit that passed the simulation and failed on chain, because of a pause, a
  rotation, its age or another spend of the wXRP, is shown as confirmed.
  `DoneMeansDeposited` names this exception.
* An attempt shown as failed may have deposited, or may still do so, and a Retry
  then deposits a second time (DepositView.tsx:111).  It is so when the answer of
  the send, of getLatestBlockhash or of the confirmation is lost (client.ts:198-203).
  A message that the deposit has expired is better: nothing comes of it any more
  (`ExpiredIsSettled`), but it may have landed before, without the news of it, for
  confirmTransaction does not look again when its time is up.
* A deposit made while the balance is not known, which the form allows
  (DepositView.tsx:97), is not held against it; and the refetch after it
  (:140) joins the first query if that is still in flight.  What it finds may be the
  balance before the deposit, kept as fresh for 15 s and asked for again only when
  the window gets the focus or the view is opened (useWxrpBalance.ts:32-34).
  `DepositIsSeen` names this exception.
* A Retry or Confirm does nothing, without a word, once the balance has fallen
  below the amount (DepositView.tsx:112).  The attestation is asked for with the
  profile of the moment, which may have changed since the review, also in another
  tab (useRiskProfile.ts:19-27).  The stage "confirming" is never shown
  (DepositView.tsx:135-137), and the position is not refetched after a deposit.
* client.ts:110-112: any error in readPosition reads as "no position", so a failed
  RPC call shows "No positions yet".
* The balance and position caches are keyed by wallet and mint, not by cluster
  (useWxrpBalance.ts:32, useYieldfyPosition.ts:10-14), and SolanaWalletProvider.tsx
  12-13 switches the cluster below them: the other cluster's balance is shown until
  it is refetched.
* The pool ids the optimizer asks the feed for are placeholders, so Kamino always
  wins.  Once the feed lists them, another venue may win, and then the program,
  which knows only Kamino, refuses every deposit.  The banner "No live wXRP markets"
  does not look at the utilization that the optimizer scores.  VenuesView hides
  what it has when a refetch fails.
* deposit_ix.rs:126 sets the position's venue to Kamino, also after a rebalance
  moved it.  lib.rs:38 accepts zero caps, which `set_cap` refuses.

Claims, webhooks, notifications, wallet.

* OverviewView.tsx:91 says "Funds transferred to your wallet" when the transaction
  was executed; useRewardsClaim.ts:165-170 does not look whether it failed.
  `ClaimedMeansPaid` names what can make it fail once its simulation has passed: SOL
  that left the wallet meanwhile.  A claim somebody made already is paid all the
  same.  An answer lost, of the send or of the confirmation, shows an error while the
  claim lands; claiming again then fails in the simulation, for a leaf pays once.

* docs/webhooks.md:19 calls the delivery UUID safe to deduplicate by; each attempt
  has its own (webhooks.ts:119), so a retry of an attempt that was acted upon is
  acted upon again.  docs/webhooks.md:85 says "No retries in v1" and there are three
  attempts.
* Each tab writes its whole list of notifications (NotificationsProvider.tsx:56-62):
  the last to write wins, and the other's are gone on a reload.  The timer that
  marks all read 400 ms after the popover opens also marks a note that comes after
  it closed (NotificationsBell.tsx:39).
* consumeDisconnectMessage (useWalletGuard.ts:233) is called by nothing: the reason
  for leaving is stored and never shown.

Scripts.

* watch-mainnet.ts:14-17 compares state read at different moments, so a transaction
  in between makes a failing verdict of a program in order.  An RPC error of its own
  alerts nobody (:183-186).  Its checks are equalities (:155, :163): wXRP
  donated to the vault, or yXRP burned by a holder, breaks one for good without
  anything lost, and it rings every ten minutes from then on, though :14-17 reads a
  drift as a loss, or as the new equation of Phase C.  The program promises no
  equality but cover (`Covered`).
* lib.rs:119 lets whoever comes first initialize the program.  A Config that is there
  is skipped over (init-mainnet.ts:135), and one with an authority that is neither
  the deployer nor the vault stops the script (:162).
* circuit-breaker-dryrun.ts:11 and :15 promise to restore the program always; there
  is no `finally` around :131-175, so an error in between, or an optimizer that names
  another venue (:71-75), leaves it paused.  Its header's "[5/6] attempt the same
  deposit" is skipped (:189-192).

Documents.

* AUDIT.md:39 wants a deposit gated by an ed25519 instruction "signed by
  `Config.attestor`", and attest.rs:52 says that `num_signatures` "must be 1".
  verify compares the bytes at 16..48 and 112..121 of the instruction's data
  (:59-60) and checks neither that number nor the offsets at 4..16, by which the
  precompile finds the key and the message it verifies.  What it accepts is signed
  by the attestor if the offsets point at those bytes, as in every instruction the
  SDK builds; of other layouts it ensures the bytes only (`AcceptsExactly`).
  AUDIT.md:50 lists this reading at fixed positions among the points to examine.
* AUDIT.md:39 and client.ts:154 also want the attestation at instruction index 0;
  verify takes the first ed25519 instruction among the first 16.  AUDIT.md:46 says the
  authority never changes after initialize; `rotate_authority` changes it.
  AUDIT.md:52 calls rebalance authority-only; the position's owner signs it.
* README.md:140 says staleness "prevents replay"; within the window an attestation
  can be used again, by design.  README.md:139 speaks of per-day caps; `Config` has
  none.  The landing page calls yXRP "withdrawable any time"; only the wallet that
  deposited has a position to withdraw from.

## 7. Not modelled

Abstractions inside the models.  `VenueScore` and `EpochInputs` use integers and
fractions for doubles; the exponents of the score are 1; a hash is the tree of what
was hashed, so there are no collisions.  The inside of an attempt is one step in
`DepositForm` and followed in `DepositFlow`.  Token delegation, events, PDA bumps,
rent and compute limits are left out of the program.  An RPC node is taken to
answer with the current state, in simulations too, and its latest blockhash never to
be older than one it gave before.  In `Bootstrap` only the deployer initializes.  In
`OpsScripts` the watcher's `ALERT_WEBHOOK` is set and `PAUSED_OK` is not
(watch-mainnet.ts:51, :91).  In `WxrpIndexer` a supply is a number; the code turns
its bigints into doubles for the metrics (server.ts:42, :46, :57), which is exact
below 2^53.  setItem is taken to succeed in `Tabs`, disconnect() to settle in
`Session`.

Left out altogether: the venue adapters, which are stubs that move nothing;
instruction encoding and PDA derivation, which keep no state; the sidebar, pages,
landing page and vendored UI kit (`use-toast` and its reducer included, which
nothing uses), and the view hooks that only fetch and show (VenuesView,
PositionsView); health probes, logging, metrics of the optimizer and the rewards
indexer, and signatures of webhooks; `cli.ts list` and `show`; the rolling mean;
tests, template and CI.

What could follow: the venue adapters, once they move tokens, as a refinement of
the vault in `YieldfyProgram`.

