------------------------------ MODULE Session ------------------------------
(***************************************************************************)
(* A tab of the dashboard and the wallet it is connected to: the accounts  *)
(* of the extension and of wallet-adapter, the gate around the dashboard,  *)
(* and the guard that leaves the page when the account changes.  The       *)
(* extension announces a change with an event, which may get lost; the     *)
(* guard also looks once a second.  Claims composes this with a view that  *)
(* works for the account, and gives the fairness.                          *)
(***************************************************************************)
EXTENDS Naturals, FiniteSets

CONSTANTS
    Wallets,     \* the user's accounts
    NoWallet     \* none connected, or none concerned

ASSUME WalletAssumption == NoWallet \notin Wallets

VARIABLES
    page,     \* the route shown
    ext,      \* the account the extension gives to the site
    wallet,   \* wallet-adapter's account
    initial,  \* the guard's snapshot: the account first seen on this mount
    handled,  \* the guard's handledRef
    leaving,  \* does a hard navigation to the landing page follow?
    auto,     \* localStorage walletName: autoConnect attaches on the next load
    entered,  \* ghost: the account the user entered the dashboard with
    left      \* ghost: disconnected for good, and not connected by hand since?

session == <<page, ext, wallet, initial, handled, leaving, auto, entered, left>>

Owners == Wallets \cup {NoWallet}

SessionTypeOK ==
    /\ page \in {"landing", "dashboard"}
    /\ {ext, wallet, initial, entered} \subseteq Owners
    /\ {handled, leaving, auto, left} \subseteq BOOLEAN

SessionInit ==
    /\ page = "landing"
    /\ ext = NoWallet /\ wallet = NoWallet /\ initial = NoWallet /\ entered = NoWallet
    /\ handled = FALSE /\ leaving = FALSE /\ auto = FALSE
    /\ left = FALSE

\* clearAndRedirect, once: autoConnect is switched off before the adapter
\* disconnects and the page is left.  Until then, the adapter would attach by
\* itself if `on`, and the user is gone for good if `gone`.
\* Mutants: autoConnect stays on; the page is not left.
ClearAndRedirectAttached(on, gone) ==
    /\ handled' = TRUE
    /\ leaving' = (leaving \/ ~handled)
    /\ auto' = on /\ left' = (gone \/ ~handled)

ClearAndRedirectStays(on, gone) ==
    /\ handled' = TRUE
    /\ auto' = (on /\ handled) /\ left' = (gone \/ ~handled)
    /\ UNCHANGED leaving

ClearAndRedirect(on, gone) ==
    /\ handled' = TRUE
    /\ leaving' = (leaving \/ ~handled)
    /\ auto' = (on /\ handled) /\ left' = (gone \/ ~handled)

\* The guard's first effect, when wallet-adapter shows account w on the
\* dashboard and the snapshot is s: it takes the snapshot, or finds a drift.
Seen(w, s, on, gone) ==
    IF w = NoWallet \/ page' = "landing" \/ s = w
    THEN /\ initial' = s /\ auto' = on /\ left' = gone
         /\ UNCHANGED <<handled, leaving>>
    ELSE IF s = NoWallet
    THEN /\ initial' = w /\ handled' = FALSE /\ auto' = on /\ left' = gone
         /\ UNCHANGED leaving
    ELSE initial' = s /\ ClearAndRedirect(on, gone)

Enters(w) == entered' = IF page' = "dashboard" /\ entered = NoWallet THEN w ELSE entered

\* The user connects in wallet-adapter's dialog.
Connect(w) ==
    /\ wallet = NoWallet /\ UNCHANGED page
    /\ ext' = w /\ wallet' = w /\ Enters(w)
    /\ Seen(w, initial, TRUE, FALSE)

\* The provider attaches by itself to the wallet it remembers.
AutoConnect ==
    /\ auto /\ wallet = NoWallet /\ ext # NoWallet /\ UNCHANGED <<page, ext>>
    /\ wallet' = ext /\ Enters(ext)
    /\ Seen(ext, initial, auto, left)

\* wallet-adapter loses the connection for a moment: the snapshot is kept.
\* Mutant: it is taken anew with the next connection.
DropResets ==
    /\ wallet # NoWallet /\ wallet' = NoWallet /\ initial' = NoWallet
    /\ UNCHANGED <<page, ext, handled, leaving, auto, entered, left>>

Drop ==
    /\ wallet # NoWallet /\ wallet' = NoWallet
    /\ UNCHANGED <<page, ext, initial, handled, leaving, auto, entered, left>>

\* The user switches to another account in the extension, or disconnects there.
ExtensionChanges(w) ==
    /\ ext # NoWallet /\ w # ext /\ ext' = w
    /\ UNCHANGED <<page, wallet, initial, handled, leaving, auto, entered, left>>

\* Does the guard listen and poll?  Its effects run while connected.
Watching == page = "dashboard" /\ wallet # NoWallet

\* The extension's event reaches wallet-adapter, and the guard if it listens.
Event ==
    /\ wallet # NoWallet /\ ext # wallet /\ wallet' = ext
    /\ UNCHANGED <<page, ext, entered, initial>>
    /\ IF Watching THEN ClearAndRedirect(auto, left) ELSE UNCHANGED <<handled, leaving, auto, left>>

\* Once a second the guard compares the extension with wallet-adapter.
Poll ==
    /\ Watching /\ ext # wallet
    /\ ClearAndRedirect(auto, left)
    /\ UNCHANGED <<page, ext, wallet, initial, entered>>

\* What useDisconnectWallet returns, for buttons: it leaves without the guard.
DisconnectWallet == leaving' = TRUE /\ auto' = FALSE /\ left' = TRUE

\* The wallet menu, which is there while a wallet is: its Disconnect.
ClickDisconnect ==
    /\ Watching /\ DisconnectWallet
    /\ UNCHANGED <<page, ext, wallet, initial, handled, entered>>

\* disconnect(): the extension lets go and says so, to a guard that listens too.
Disconnect ==
    /\ leaving /\ wallet # NoWallet
    /\ ext' = NoWallet /\ wallet' = NoWallet
    /\ UNCHANGED <<page, initial, entered>>
    /\ IF Watching THEN ClearAndRedirect(auto, left) ELSE UNCHANGED <<handled, leaving, auto, left>>

\* A guard begins with its refs empty, and looks at the account already there.
Fresh(p, w) ==
    /\ initial' = IF p = "dashboard" THEN w ELSE NoWallet
    /\ entered' = initial' /\ handled' = FALSE

\* disconnect() has returned or thrown: window.location.assign("/").
Navigate ==
    /\ leaving /\ leaving' = FALSE
    /\ page' = "landing" /\ wallet' = NoWallet
    /\ Fresh("landing", NoWallet)
    /\ UNCHANGED <<ext, auto, left>>

\* The user reloads the tab.
Reload ==
    /\ ~leaving /\ wallet' = NoWallet
    /\ Fresh(page, NoWallet)
    /\ UNCHANGED <<page, ext, leaving, auto, left>>

\* The user switches the cluster: the wallet's providers are mounted anew with
\* all they contain.
SwitchNetwork ==
    /\ Watching /\ wallet' = NoWallet
    /\ Fresh(page, NoWallet)
    /\ UNCHANGED <<page, ext, leaving, auto, left>>

\* The user follows a link between the pages, which loads nothing anew.
Visit(p) ==
    /\ page # p /\ page' = p
    /\ Fresh(p, wallet)
    /\ UNCHANGED <<ext, wallet, leaving, auto, left>>

SessionNext ==
    \/ \E w \in Wallets : Connect(w)
    \/ AutoConnect \/ Drop
    \/ \E w \in Owners : ExtensionChanges(w)
    \/ Event \/ Poll
    \/ ClickDisconnect \/ Disconnect
    \/ Navigate \/ Reload \/ SwitchNetwork
    \/ \E p \in {"landing", "dashboard"} : Visit(p)

-----------------------------------------------------------------------------
(* Properties. *)

\* The dashboard works for the account the user entered it with: with another
\* one it is being left, whatever the connection went through in between.
DriftIsCaught ==
    page = "dashboard" /\ wallet # NoWallet /\ wallet # entered => leaving

\* Once the guard or the menu has disconnected the user, no connection is made
\* that the user did not ask for.
NoReattach == [][AutoConnect => ~left]_session
=============================================================================
