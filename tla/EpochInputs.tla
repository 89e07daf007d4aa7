---------------------------- MODULE EpochInputs ----------------------------
(***************************************************************************)
(* One epoch of SOL rewards, from the chain and back to it: runEpoch reads *)
(* prices, $YIELDFY holders and vault positions (rewards-indexer: oracle,  *)
(* snapshot, epoch), scores them (sdk: rewards), builds the claim tree     *)
(* (merkle), and publishes it as a Saber distributor (saber-bundle), which *)
(* the claimants draw on.  Holders trade, deposit and withdraw meanwhile;  *)
(* the two account lists are read concurrently, each at its own moment.    *)
(*                                                                         *)
(* Abstracted: a hash is the tree of what was hashed (no collisions); the  *)
(* powers of the score are 1; money is in fractions, not in floats.        *)
(* Numbering, storing and proposing the epoch is RewardsIndexer.           *)
(***************************************************************************)
EXTENDS Naturals, Sequences, FiniteSets, Functions

CONSTANTS
    Wallets, Accounts,   \* wallets; token accounts of $YIELDFY
    OwnerOf,             \* account -> wallet
    MaxHeld, MaxVault,   \* bounds on a token account and on a position
    Prices, SolPrices,   \* prices of wXRP and of SOL in USD
    Caps, Rate,          \* market caps of $YIELDFY, 0 before its launch; the
                         \* distribution rate, times the lamports of a SOL
    MinYieldfy, MinVaultUsd, \* RewardParams
    MaxMoves,            \* bound on what holders do
    None

\* What sampleMarket returns: the price of wXRP, the market cap of $YIELDFY and
\* the price of SOL.
Markets == [price : Prices, cap : Caps, sol : SolPrices]

ASSUME EpochAssumption ==
    /\ OwnerOf \in [Accounts -> Wallets] /\ IsFiniteSet(Wallets) /\ IsFiniteSet(Accounts)
    /\ {MaxHeld, MaxVault, MaxMoves} \subseteq Nat
    /\ Prices \subseteq Nat /\ Caps \subseteq Nat /\ SolPrices \subseteq Nat \ {0} /\ Rate \in Nat
    /\ MinYieldfy \in Nat \ {0} /\ MinVaultUsd \in Nat \ {0}
    /\ None \notin Markets

VARIABLES
    yieldfy, principal,   \* on chain: $YIELDFY per account, wXRP per position
    moves,
    pc,                   \* runEpoch: off, sample, read, computed, published
    market,               \* one of Markets once sampled
    holdings, positions,  \* what the two reads returned
    epoch,                \* the EpochResult
    distributor,          \* the Saber distributor, once the proposal executed
    claimed,              \* the claims paid (ClaimStatus accounts)
    skewed,               \* ghost: something moved between the two reads
    both                  \* ghost: who met both minimums at once, since sampling

chain == <<yieldfy, principal, moves>>
reads == <<market, holdings, positions>>
vars == <<chain, pc, reads, epoch, distributor, claimed, skewed, both>>

-----------------------------------------------------------------------------
(* Snapshot and scores. *)

\* Mutant: of several accounts of one owner, one is taken.
HeldByOne(y, w) == IF \E a \in Accounts : OwnerOf[a] = w
                   THEN y[CHOOSE a \in Accounts : OwnerOf[a] = w] ELSE 0

\* Balances summed per owner; buildParticipants gives 0 to who has none.
HeldBy(y, w) == SumFunctionOnSet(y, {a \in Accounts : OwnerOf[a] = w})

\* computeScore: both minimums, then held^alpha * vaultUsd^beta.
Score(h, v) == IF h < MinYieldfy \/ v < MinVaultUsd THEN 0 ELSE h * v

Scores(h, p, price) == [w \in Wallets |-> Score(h[w], p[w] * price)]

\* The pool is a share of the market cap, and the epoch names its whole lamports.
EpochUsdPool(m) == Rate * m.cap
EpochSolPool(m) == EpochUsdPool(m) \div m.sol

\* solReward is the pro-rata share of the pool, not of its whole lamports; a
\* claim is the whole lamports of that.
Lamports(score, total, m) == (EpochUsdPool(m) * score) \div (m.sol * total)

\* distributeEpoch and the claimable entries, in some order of the wallets.
Claimable(h, p, m) ==
    LET scores == Scores(h, p, m.price)
        total == SumFunction(scores)
        paid == {w \in Wallets : scores[w] > 0 /\ EpochUsdPool(m) > 0}
    IN  {[i \in DOMAIN order |->
            [index |-> i - 1, wallet |-> order[i],
             lamports |-> Lamports(scores[order[i]], total, m)]] :
           order \in Bijection(1..Cardinality(paid), paid)}

-----------------------------------------------------------------------------
(* The claim tree. *)

Leaf(entry) == [leaf |-> <<entry>>, pair |-> {}]

\* Pairs are hashed in sorted order, so a node knows its children as a set.
Hash(a, b) == [leaf |-> <<>>, pair |-> {a, b}]

\* The next layer; an odd node at its end moves up as it is.
Layer(s) ==
    [i \in 1..((Len(s) + 1) \div 2) |->
        IF 2 * i <= Len(s) THEN Hash(s[2 * i - 1], s[2 * i]) ELSE s[2 * i - 1]]

Layers(leaves) ==
    LET layer[k \in 0..Len(leaves)] ==
            IF k = 0 THEN leaves ELSE Layer(layer[k - 1])
    IN  layer

Root(leaves) == Layers(leaves)[Len(leaves)][1]

\* The sibling of node i of a layer, where there is one.
Sibling(s, i) ==
    LET j == IF i % 2 = 1 THEN i + 1 ELSE i - 1
    IN  IF j \in DOMAIN s THEN <<s[j]>> ELSE <<>>

\* The way up from leaf i: where it is in each layer, and the siblings it met.
Climb(leaves, i) ==
    LET climb[k \in 0..Len(leaves)] ==
            IF k = 0 THEN [at |-> i, proof |-> <<>>]
            ELSE [at |-> (climb[k - 1].at + 1) \div 2,
                  proof |-> climb[k - 1].proof \o Sibling(Layers(leaves)[k - 1], climb[k - 1].at)]
    IN  climb

Proof(leaves, i) == Climb(leaves, i)[Len(leaves)].proof

\* The leaf of an entry hashed with each sibling of a proof in turn.
HashUp(entry, proof) ==
    LET hash[k \in 0..Len(proof)] ==
            IF k = 0 THEN Leaf(entry) ELSE Hash(hash[k - 1], proof[k])
    IN  hash

Verify(entry, proof, root) == HashUp(entry, proof)[Len(proof)] = root

\* The epoch: its claims with their proofs, the root, and the total.
EpochOf(entries) ==
    LET leaves == [i \in DOMAIN entries |-> Leaf(entries[i])]
    IN  [claims |-> {[entry |-> entries[i], proof |-> Proof(leaves, i)] : i \in DOMAIN entries},
         root |-> IF entries = <<>> THEN None ELSE Root(leaves),
         total |-> SumFunction([i \in DOMAIN entries |-> entries[i].lamports])]

\* Nothing computed yet; nothing published yet.
NoEpoch == [claims |-> {}, root |-> None, total |-> 0]
NoDistributor == [root |-> None, maxTotalClaim |-> 0, maxNumNodes |-> 0, funds |-> 0]

-----------------------------------------------------------------------------

TypeOK ==
    /\ yieldfy \in [Accounts -> 0..MaxHeld] /\ principal \in [Wallets -> 0..MaxVault]
    /\ moves \in 0..MaxMoves
    /\ pc \in {"off", "sample", "read", "computed", "published"}
    /\ market \in Markets \cup {None}
    /\ holdings = None \/ holdings \in [Wallets -> Nat]
    /\ positions = None \/ positions \in [Wallets -> 0..MaxVault]
    /\ pc \notin {"computed", "published"} => epoch = NoEpoch
    /\ pc # "published" => distributor = NoDistributor /\ claimed = {}
    /\ pc = "published" => distributor.funds \in 0..epoch.total /\ distributor.maxNumNodes > 0
    /\ skewed \in BOOLEAN /\ both \subseteq Wallets

Init ==
    /\ yieldfy \in [Accounts -> 0..MaxHeld] /\ principal \in [Wallets -> 0..MaxVault]
    /\ moves = 0 /\ pc = "off"
    /\ market = None /\ holdings = None /\ positions = None /\ epoch = NoEpoch
    /\ distributor = NoDistributor /\ claimed = {}
    /\ skewed = FALSE /\ both = {}

\* Who meets both minimums with these balances, at the sampled price.
Held(y, w) == SumFunctionOnSet(y, {a \in Accounts : OwnerOf[a] = w})
Qualified(y, p, price) ==
    {w \in Wallets : Held(y, w) >= MinYieldfy /\ p[w] * price >= MinVaultUsd}

\* A trade of $YIELDFY, a deposit or a withdrawal.
Move ==
    /\ pc \in {"sample", "read"} /\ moves < MaxMoves
    /\ moves' = moves + 1
    /\ \/ /\ \E a \in Accounts, n \in 0..MaxHeld : yieldfy' = [yieldfy EXCEPT ![a] = n]
          /\ UNCHANGED principal
       \/ /\ \E w \in Wallets, n \in 0..MaxVault : principal' = [principal EXCEPT ![w] = n]
          /\ UNCHANGED yieldfy
    /\ skewed' = (skewed \/ (holdings = None) # (positions = None))
    /\ both' = IF market = None THEN both ELSE both \cup Qualified(yieldfy', principal', market.price)
    /\ UNCHANGED <<pc, reads, epoch, distributor, claimed>>

RunEpoch ==
    /\ pc = "off" /\ pc' = "sample"
    /\ UNCHANGED <<chain, reads, epoch, distributor, claimed, skewed, both>>

\* The three prices, then the slot.
SampleMarket ==
    /\ pc = "sample" /\ pc' = "read"
    /\ market' \in Markets
    /\ both' = Qualified(yieldfy, principal, market'.price)
    /\ UNCHANGED <<chain, holdings, positions, epoch, distributor, claimed, skewed>>

FetchTokenHoldings ==
    /\ pc = "read" /\ holdings = None
    /\ holdings' = [w \in Wallets |-> HeldBy(yieldfy, w)]
    /\ UNCHANGED <<chain, pc, market, positions, epoch, distributor, claimed, skewed, both>>

FetchVaultPositions ==
    /\ pc = "read" /\ positions = None
    /\ positions' = principal
    /\ UNCHANGED <<chain, pc, market, holdings, epoch, distributor, claimed, skewed, both>>

\* No price, or an RPC error: runEpoch throws and nothing is written.
RunFails ==
    /\ pc \in {"sample", "read"}
    /\ pc' = "off" /\ market' = None /\ holdings' = None /\ positions' = None
    /\ skewed' = FALSE /\ both' = {}
    /\ UNCHANGED <<chain, epoch, distributor, claimed>>

Compute ==
    /\ pc = "read" /\ holdings # None /\ positions # None
    /\ pc' = "computed"
    /\ \E entries \in Claimable(holdings, positions, market) : epoch' = EpochOf(entries)
    /\ UNCHANGED <<chain, reads, distributor, claimed, skewed, both>>

\* Mutant: the number of nodes is the highest index.
NodesOfLast(e) == Cardinality(e.claims) - 1

NumNodes(e) == Cardinality(e.claims)

\* new_distributor, for a token account that holds `funds`.
NewDistributor(root, maxTotalClaim, maxNumNodes, funds) ==
    [root |-> root, maxTotalClaim |-> maxTotalClaim, maxNumNodes |-> maxNumNodes, funds |-> funds]

\* The bundle: fund the distributor with the total and create it with its caps.
Publish ==
    /\ pc = "computed" /\ epoch.total # 0 /\ epoch.claims # {}
    /\ pc' = "published"
    /\ distributor' = NewDistributor(epoch.root, epoch.total, NumNodes(epoch), epoch.total)
    /\ UNCHANGED <<chain, reads, epoch, claimed, skewed, both>>

\* The ClaimStatus accounts there are: one per index.
ClaimStatuses == {d.entry.index : d \in claimed}

\* Saber's claim: not yet claimed, proof good, within both caps and the funds.
Payable(c) ==
    /\ c.entry.index \notin ClaimStatuses
    /\ Verify(c.entry, c.proof, distributor.root)
    /\ SumFunction([d \in claimed |-> d.entry.lamports]) + c.entry.lamports <= distributor.maxTotalClaim
    /\ Cardinality(claimed) < distributor.maxNumNodes
    /\ c.entry.lamports <= distributor.funds

Claim(c) ==
    /\ Payable(c)
    /\ claimed' = claimed \cup {c}
    /\ distributor' = [distributor EXCEPT !.funds = @ - c.entry.lamports]
    /\ UNCHANGED <<chain, pc, reads, epoch, skewed, both>>

Next ==
    \/ Move \/ RunEpoch \/ SampleMarket \/ FetchTokenHoldings \/ FetchVaultPositions
    \/ RunFails \/ Compute \/ Publish
    \/ (pc = "published" /\ \E c \in epoch.claims : Claim(c))

Spec == Init /\ [][Next]_vars

-----------------------------------------------------------------------------
(* Properties. *)

Claims == epoch.claims
Amount(w) ==
    SumFunctionOnSet([c \in Claims |-> c.entry.lamports], {c \in Claims : c.entry.wallet = w})

\* Whatever others have claimed, and in whatever order, every claim of a
\* published epoch that is not yet paid can be paid: its proof verifies, and
\* neither the caps nor the funds of the distributor are in its way.
EveryoneCanBePaid ==
    pc = "published" => \A c \in Claims \ claimed : Payable(c)

\* The claims never add up to more than the pool, and fall short of it by less
\* than a lamport a claimant.
WithinPool ==
    Claims # {} => /\ epoch.total <= EpochSolPool(market)
                   /\ EpochSolPool(market) < epoch.total + Cardinality(Claims)

\* No wallet has two entries, and if nobody moved, one that had at least as much
\* on both sides gets at least as much: no entry is another wallet's.
MoreEarnsMore ==
    /\ \A c, d \in Claims : c.entry.wallet = d.entry.wallet => c = d
    /\ (pc \in {"computed", "published"} /\ moves = 0) =>
          \A v, w \in Wallets :
              Held(yieldfy, v) <= Held(yieldfy, w) /\ principal[v] <= principal[w]
              => Amount(v) <= Amount(w)

\* If nothing moved between the two reads, who gets a reward met both minimums
\* at one moment of the run ("Both sides are required").
EarnedAtOnce == ~skewed => {c.entry.wallet : c \in Claims} \subseteq both

\* What holds of an epoch: its types, a total within the pool, claims that can all
\* be paid, and claimants who had earned them.
EpochInvariant == TypeOK /\ WithinPool /\ EveryoneCanBePaid /\ EarnedAtOnce
=============================================================================
