--------------------------- MODULE YieldfyProgram ---------------------------
(***************************************************************************)
(* The on-chain program (programs/yieldfy/src): its Config and Position    *)
(* accounts, the wXRP vault and the yXRP mint it controls, and every       *)
(* instruction.  A transaction is atomic: an instruction whose checks or   *)
(* token calls fail leaves no trace, so a failure is an action that is not *)
(* enabled.  Around it, the SPL Token program lets holders move, burn and  *)
(* donate tokens without asking Yieldfy, and slots go by.                  *)
(***************************************************************************)
EXTENDS AttestVerify, Totals

CONSTANTS
    Users,        \* wallets that hold wXRP and yXRP
    Authorities,  \* wallets that may be Config.authority
    Attestors,    \* ed25519 keys that may be Config.attestor
    Venues,       \* venue codes; 0 is Kamino
    Vault,        \* the wXRP token account owned by the Config PDA
    NoConfig,     \* the Config PDA before initialize
    InitialWxrp,  \* wXRP each wallet starts with
    MaxSlot       \* bound on the slots explored

Kamino == 0
U64 == 0..U64Max
Holders == Users \cup {Vault}
Configs ==
    [authority : Authorities, attestor : Attestors, max_single_deposit : U64,
     staleness_slots : U64, paused : BOOLEAN]

ASSUME UsersAssumption == IsFiniteSet(Users) /\ Vault \notin Users
ASSUME VenuesAssumption == Kamino \in Venues
ASSUME NoConfigAssumption == NoConfig \notin Configs
\* wXRP's own mint has a u64 supply.
ASSUME InitialWxrpAssumption ==
    /\ InitialWxrp \in [Users -> U64]
    /\ Total(InitialWxrp, Users, U64Max) <= U64Max
ASSUME MaxSlotAssumption == MaxSlot \in Nat

VARIABLES
    config,         \* the Config account, or NoConfig
    position,       \* each user's Position account
    wxrp,           \* wXRP balances, the vault's among them
    yxrp,           \* yXRP balances
    yxrpSupply,     \* supply field of the yXRP mint
    mintAuthority,  \* who may mint yXRP
    slot            \* Clock::slot

vars == <<config, position, wxrp, yxrp, yxrpSupply, mintAuthority, slot>>
tokens == <<wxrp, yxrp, yxrpSupply, mintAuthority>>

Positions ==
    [open : BOOLEAN, venue : Venues, principal : U64, receipt_supply : U64]

TypeOK ==
    /\ config \in Configs \cup {NoConfig}
    /\ position \in [Users -> Positions]
    /\ wxrp \in [Holders -> U64]
    /\ yxrp \in [Users -> U64]
    /\ yxrpSupply \in U64
    /\ mintAuthority \in {"deployer", "config"}
    /\ slot \in Nat

\* The mints exist, yXRP has no supply yet, and nothing is initialized.
Init ==
    /\ config = NoConfig
    /\ position = [u \in Users |->
           [open |-> FALSE, venue |-> Kamino, principal |-> 0, receipt_supply |-> 0]]
    /\ wxrp = [h \in Holders |-> IF h = Vault THEN 0 ELSE InitialWxrp[h]]
    /\ yxrp = [u \in Users |-> 0]
    /\ yxrpSupply = 0
    /\ mintAuthority = "deployer"
    /\ slot = 0

-----------------------------------------------------------------------------
(* SPL Token: transfers, mints and burns are checked in u64 and revert the *)
(* transaction when they do not fit.                                       *)

\* A transfer to itself is accepted and leaves the account as it was.
Moved(balance, from, to, amount) ==
    IF from = to THEN balance
    ELSE [balance EXCEPT ![from] = @ - amount, ![to] = @ + amount]

Transfer(from, to, amount) ==
    /\ wxrp[from] >= amount
    /\ from # to => wxrp[to] + amount <= U64Max
    /\ wxrp' = Moved(wxrp, from, to, amount)

MintTo(to, amount) ==
    /\ mintAuthority = "config"
    /\ yxrpSupply + amount <= U64Max
    /\ yxrp[to] + amount <= U64Max
    /\ yxrpSupply' = yxrpSupply + amount
    /\ yxrp' = [yxrp EXCEPT ![to] = @ + amount]

Burn(from, amount) ==
    /\ amount <= yxrp[from]
    /\ amount <= yxrpSupply
    /\ yxrpSupply' = yxrpSupply - amount
    /\ yxrp' = [yxrp EXCEPT ![from] = @ - amount]

-----------------------------------------------------------------------------
(* The instructions. *)

Initialize(authority, attestor, maxDeposit, staleness) ==
    /\ config = NoConfig
    /\ config' = [authority |-> authority, attestor |-> attestor,
                  max_single_deposit |-> maxDeposit,
                  staleness_slots |-> staleness, paused |-> FALSE]
    /\ UNCHANGED <<position, tokens, slot>>

\* The transaction `ixs` carries an attestation of this venue and slot.
Attested(ixs, venue, attSlot) ==
    Verified(ixs, config.attestor, venue, attSlot, config.staleness_slots, slot)

\* Mutants: the pause is not checked; init_if_needed resets the position.
DepositIgnoresPause(u, to, amount, venue, attSlot, ixs) ==
    /\ config # NoConfig
    /\ amount <= config.max_single_deposit
    /\ venue = Kamino
    /\ Attested(ixs, venue, attSlot)
    /\ Transfer(u, Vault, amount)
    /\ MintTo(to, amount)
    /\ position' = [position EXCEPT ![u] =
           [open |-> TRUE, venue |-> Kamino,
            principal |-> SatAdd(@.principal, amount),
            receipt_supply |-> SatAdd(@.receipt_supply, amount)]]
    /\ UNCHANGED <<config, mintAuthority, slot>>

\* `to` owns the yXRP account passed: the accounts check its mint only.
Deposit(u, to, amount, venue, attSlot, ixs) ==
    /\ config # NoConfig
    /\ ~config.paused
    /\ amount <= config.max_single_deposit
    /\ venue = Kamino
    /\ Attested(ixs, venue, attSlot)
    /\ Transfer(u, Vault, amount)
    /\ MintTo(to, amount)
    /\ position' = [position EXCEPT ![u] =
           [open |-> TRUE, venue |-> Kamino,
            principal |-> SatAdd(@.principal, amount),
            receipt_supply |-> SatAdd(@.receipt_supply, amount)]]
    /\ UNCHANGED <<config, mintAuthority, slot>>

\* Mutants of Withdraw: only while not paused; the burn is forgotten; the position
\* keeps the principal.
WithdrawWhenRunning(u, to, amount) ==
    /\ config # NoConfig
    /\ ~config.paused
    /\ position[u].open
    /\ amount <= position[u].receipt_supply
    /\ Burn(u, amount)
    /\ Transfer(Vault, to, amount)
    /\ position' = [position EXCEPT
           ![u].principal = SatSub(@, amount),
           ![u].receipt_supply = SatSub(@, amount)]
    /\ UNCHANGED <<config, mintAuthority, slot>>

WithdrawWithoutBurn(u, to, amount) ==
    /\ config # NoConfig
    /\ position[u].open
    /\ amount <= position[u].receipt_supply
    /\ Transfer(Vault, to, amount)
    /\ position' = [position EXCEPT
           ![u].principal = SatSub(@, amount),
           ![u].receipt_supply = SatSub(@, amount)]
    /\ UNCHANGED <<config, mintAuthority, slot, yxrp, yxrpSupply>>

WithdrawKeepsPrincipal(u, to, amount) ==
    /\ config # NoConfig
    /\ position[u].open
    /\ amount <= position[u].receipt_supply
    /\ Burn(u, amount)
    /\ Transfer(Vault, to, amount)
    /\ position' = [position EXCEPT ![u].receipt_supply = SatSub(@, amount)]
    /\ UNCHANGED <<config, mintAuthority, slot>>

\* No check of config.paused: withdraw is never blocked.  The wXRP goes to any
\* wXRP account the user names, the yXRP burnt is the user's own.
Withdraw(u, to, amount) ==
    /\ config # NoConfig
    /\ position[u].open
    /\ amount <= position[u].receipt_supply
    /\ Burn(u, amount)
    /\ Transfer(Vault, to, amount)
    /\ position' = [position EXCEPT
           ![u].principal = SatSub(@, amount),
           ![u].receipt_supply = SatSub(@, amount)]
    /\ UNCHANGED <<config, mintAuthority, slot>>

Rebalance(u, venue, attSlot, ixs) ==
    /\ config # NoConfig
    /\ position[u].open
    /\ ~config.paused
    /\ venue # position[u].venue
    /\ Attested(ixs, venue, attSlot)
    /\ position' = [position EXCEPT ![u].venue = venue]
    /\ UNCHANGED <<config, tokens, slot>>

\* AdminOnly: the signer is the authority the Config holds now.
Admin(signer) == config # NoConfig /\ config.authority = signer

SetPaused(signer, paused) ==
    /\ Admin(signer)
    /\ config' = [config EXCEPT !.paused = paused]
    /\ UNCHANGED <<position, tokens, slot>>

SetCap(signer, maxDeposit, staleness) ==
    /\ Admin(signer)
    /\ maxDeposit > 0
    /\ staleness > 0
    /\ config' = [config EXCEPT !.max_single_deposit = maxDeposit,
                                !.staleness_slots = staleness]
    /\ UNCHANGED <<position, tokens, slot>>

RotateAttestor(signer, newAttestor) ==
    /\ Admin(signer)
    /\ config' = [config EXCEPT !.attestor = newAttestor]
    /\ UNCHANGED <<position, tokens, slot>>

RotateAuthority(signer, newAuthority) ==
    /\ Admin(signer)
    /\ config' = [config EXCEPT !.authority = newAuthority]
    /\ UNCHANGED <<position, tokens, slot>>

-----------------------------------------------------------------------------
(* What happens around the program. *)

\* spl-token authorize, run once by the deployer after initialize.
HandOverMint ==
    /\ config # NoConfig
    /\ mintAuthority = "deployer"
    /\ mintAuthority' = "config"
    /\ UNCHANGED <<config, position, wxrp, yxrp, yxrpSupply, slot>>

\* A plain token transfer; into the vault it is a donation.
SendWxrp(u, to, amount) ==
    /\ to = Vault => config # NoConfig    \* initialize creates the account
    /\ Transfer(u, to, amount)
    /\ UNCHANGED <<config, position, yxrp, yxrpSupply, mintAuthority, slot>>

SendYxrp(u, to, amount) ==
    /\ yxrp[u] >= amount
    /\ u # to => yxrp[to] + amount <= U64Max
    /\ yxrp' = Moved(yxrp, u, to, amount)
    /\ UNCHANGED <<config, position, wxrp, yxrpSupply, mintAuthority, slot>>

BurnYxrp(u, amount) ==
    /\ Burn(u, amount)
    /\ UNCHANGED <<config, position, wxrp, mintAuthority, slot>>

Tick ==
    /\ slot < MaxSlot
    /\ slot' = slot + 1
    /\ UNCHANGED <<config, position, tokens>>

-----------------------------------------------------------------------------
\* An optimizer key signs [venue, slot] for a slot it has read; the transaction
\* built around it, possibly much later, puts other instructions in front.  It is
\* laid out as clients lay it out: of another layout verify sees the same fields.
Transactions(venue, attSlot) ==
    {<<OtherIx("spl-associated-token"), Ed25519Ix(k, venue, attSlot)>> : k \in Attestors}

UserStep ==
    \E u \in Users :
        \/ \E to \in Users, amount \in U64, venue \in Venues, s \in 0..slot :
             \E ixs \in Transactions(venue, s) : Deposit(u, to, amount, venue, s, ixs)
        \/ \E to \in Holders, amount \in U64 : Withdraw(u, to, amount)
        \/ \E venue \in Venues, s \in 0..slot :
             \E ixs \in Transactions(venue, s) : Rebalance(u, venue, s, ixs)

AdminStep ==
    \E k \in Authorities :
        \/ \E a \in Attestors, m \in U64, s \in U64 : Initialize(k, a, m, s)
        \/ \E p \in BOOLEAN : SetPaused(k, p)
        \/ \E m \in U64, s \in U64 : SetCap(k, m, s)
        \/ \E a \in Attestors : RotateAttestor(k, a)
        \/ \E n \in Authorities : RotateAuthority(k, n)

TokenStep ==
    \/ HandOverMint
    \/ \E u \in Users :
        \/ \E to \in Holders, amount \in U64 : SendWxrp(u, to, amount)
        \/ \E to \in Users, amount \in U64 : SendYxrp(u, to, amount)
        \/ \E amount \in U64 : BurnYxrp(u, amount)

Next == UserStep \/ AdminStep \/ TokenStep \/ Tick

Spec == Init /\ [][Next]_vars

-----------------------------------------------------------------------------
(* Properties. *)

VaultBalance == wxrp[Vault]
Paused == config # NoConfig /\ config.paused

Receipts == [u \in Users |-> position[u].receipt_supply]
TotalReceipts == Total(Receipts, Users, U64Max)

\* Every yXRP in existence can be redeemed: the vault holds at least the supply
\* (AUDIT.md invariant 5), whatever holders send, burn or donate meanwhile.
Backing == yxrpSupply <= VaultBalance

\* principal and receipt_supply of a position never drift apart (AUDIT.md 5,
\* DEPLOY.md's alarm on I5), although each saturates on its own.
Lockstep ==
    \A u \in Users : position[u].principal = position[u].receipt_supply

\* All receipts recorded in all positions could be claimed at once.  This is
\* also why saturating_add in deposit never saturates.
ReceiptsCovered == TotalReceipts <= VaultBalance

\* The vault covers what may be claimed from it on either side: the yXRP in
\* anybody's wallet, and the receipts of all positions.
Covered == Backing /\ ReceiptsCovered

\* Whatever the program and the holders do, no wXRP is created or lost and the
\* yXRP in wallets is the supply of its mint.
TokensConserved ==
    /\ Total(wxrp, Holders, U64Max) = Total(InitialWxrp, Users, U64Max)
    /\ Total(yxrp, Users, U64Max) = yxrpSupply

\* The accounts agree with each other: balances, caps and receipts are u64s of
\* their types, principal and receipt are in lockstep, and tokens are conserved.
Consistent == TypeOK /\ Lockstep /\ TokensConserved

\* The withdrawal the SDK builds: the user's own position and token accounts.
Exit(u, amount) == Withdraw(u, u, amount)

\* A user who holds yXRP against a recorded receipt can exit, in any amount up
\* to both and in every state, paused or not (AUDIT.md 4): no check, no token
\* call and no overflow reverts the withdrawal.
ExitAlwaysOpen ==
    \A u \in Users, amount \in U64 :
        /\ config # NoConfig
        /\ position[u].open
        /\ amount <= position[u].receipt_supply
        /\ amount <= yxrp[u]
        => ENABLED Exit(u, amount)

FrozenStep ==
    /\ yxrpSupply' <= yxrpSupply
    /\ \A u \in Users :
         /\ position'[u].receipt_supply <= position[u].receipt_supply
         /\ position'[u].venue = position[u].venue

\* While paused no position gains a receipt or changes venue and no yXRP is
\* minted (lib.rs: "every deposit and rebalance" reverts), except in the step
\* that is itself an unpause.
PauseFreezes == [][Paused => FrozenStep]_vars

OneToOneStep ==
    \A u \in Users :
        LET was == position[u].receipt_supply
            is  == position'[u].receipt_supply
        IN  /\ is > was => /\ yxrpSupply' = yxrpSupply + (is - was)
                           /\ VaultBalance' = VaultBalance + (is - was)
            /\ is < was => /\ yxrpSupply = yxrpSupply' + (was - is)
                           /\ VaultBalance <= VaultBalance' + (was - is)

\* A receipt recorded is a yXRP minted and a wXRP received, exactly; a receipt
\* struck off is a yXRP burnt, and at most that much wXRP leaves the vault
\* (less when the user names the vault itself).  A deposit never resets an
\* existing position, nor saturates (AUDIT.md 5, 7 and "Precision and overflow").
OneToOne == [][OneToOneStep]_vars

\* The program, as it is now, takes this attestation.
Accepted(key, venue, attSlot) ==
    /\ config # NoConfig
    /\ Attested(<<Ed25519Ix(key, venue, attSlot)>>, venue, attSlot)

\* An attestation the program refuses now is accepted later only if an admin
\* instruction changed the Config: time alone never makes one valid again.
OnlyAdminRevives ==
    [][\A key \in Attestors, venue \in Venues, s \in 0..slot :
         ~Accepted(key, venue, s) /\ Accepted(key, venue, s)' => config' # config]_vars

\* The program as a whole is a 1:1 wrapper.
Wrapper ==
    INSTANCE OneToOneWrapper
    WITH supply <- yxrpSupply, reserve <- wxrp[Vault], halted <- Paused

\* Every step of the program, the token holders and the admin is one the
\* abstract wrapper allows, or changes nothing it can see.
ImplementsWrapper == Wrapper!Spec
=============================================================================
