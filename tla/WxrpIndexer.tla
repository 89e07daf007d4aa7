---------------------------- MODULE WxrpIndexer ----------------------------
(***************************************************************************)
(* The wXRP supply indexer (services/wxrp-indexer/src): a process that     *)
(* polls the supply of the wXRP mint and turns the differences into a      *)
(* mint and a burn counter.  start() waits for one poll, then a timer      *)
(* starts further ones whether or not the previous one has come back, so   *)
(* polls may overlap: each reads the mint at a moment of its own and is    *)
(* applied, as a whole, at a later one.                                    *)
(***************************************************************************)
EXTENDS Integers

CONSTANTS
    Polls,       \* slots for polls in flight
    MaxSupply,   \* bound on the supply
    MaxChanges,  \* bound on mints and burns of wXRP by its issuer
    MaxErrors,   \* bound on failed polls
    MaxRestarts, \* bound on restarts of the process
    Idle, Waiting, \* a poll slot not in use; a poll the RPC has not answered
    None

ASSUME BoundsAssumption ==
    {MaxSupply, MaxChanges, MaxErrors, MaxRestarts} \subseteq Nat

VARIABLES
    overlap,   \* whether an RPC answer may take longer than POLL_MS
    supply,    \* supply of the mint on chain
    issued, redeemed, \* all wXRP ever minted and burned on chain
    poll,      \* each poll: not running, waiting for the RPC, or its snapshot
    last,      \* the snapshot applied last (`last`), None before the first
    gauge, minted, burned, errors, \* the Prometheus metrics
    phase,     \* new; starting, in its first poll; running (timer set, listening)
    base,      \* ghost: the first snapshot applied since the process started
    changes, restarts

chain == <<supply, issued, redeemed, changes>>
metrics == <<last, gauge, minted, burned, errors, base>>
pollVars == <<overlap, chain, poll, metrics, phase, restarts>>

\* A SupplySnapshot; issued and redeemed date it, in place of its slot.
Snapshots == [supply : 0..MaxSupply, issued : Nat, redeemed : Nat]

ASSUME SlotAssumption ==
    Idle # Waiting /\ \A s \in {Idle, Waiting, None} : s \notin Snapshots

PollTypeOK ==
    /\ overlap \in BOOLEAN /\ supply \in 0..MaxSupply
    /\ issued \in Nat /\ redeemed \in Nat
    /\ poll \in [Polls -> Snapshots \cup {Idle, Waiting}]
    /\ last \in Snapshots \cup {None} /\ base \in Snapshots \cup {None}
    /\ gauge \in 0..MaxSupply
    /\ minted \in Nat /\ burned \in Nat /\ errors \in 0..MaxErrors
    /\ phase \in {"new", "starting", "running"}
    /\ changes \in 0..MaxChanges /\ restarts \in 0..MaxRestarts

\* `last` and the metrics of a process that has polled nothing yet.
NothingPolled ==
    /\ last = None /\ base = None /\ gauge = 0
    /\ minted = 0 /\ burned = 0 /\ errors = 0

PollerInit ==
    /\ overlap \in BOOLEAN /\ supply \in 0..MaxSupply
    /\ issued = supply /\ redeemed = 0
    /\ changes = 0 /\ restarts = 0
    /\ poll = [p \in Polls |-> Idle] /\ phase = "new"
    /\ NothingPolled

-----------------------------------------------------------------------------
(* The mint on chain. *)

Mint(n) ==
    /\ changes < MaxChanges /\ supply + n <= MaxSupply
    /\ changes' = changes + 1
    /\ supply' = supply + n /\ issued' = issued + n
    /\ UNCHANGED <<overlap, redeemed, poll, metrics, phase, restarts>>

Burn(n) ==
    /\ changes < MaxChanges /\ n <= supply
    /\ changes' = changes + 1
    /\ supply' = supply - n /\ redeemed' = redeemed + n
    /\ UNCHANGED <<overlap, issued, poll, metrics, phase, restarts>>

-----------------------------------------------------------------------------
(* The indexer. *)

InFlight == {p \in Polls : poll[p] # Idle}

\* start() makes one poll and waits for it; after that, setInterval.
StartPoll(p) ==
    /\ poll[p] = Idle
    /\ \/ phase = "new" /\ phase' = "starting"
       \/ phase = "running" /\ (overlap \/ InFlight = {}) /\ UNCHANGED phase
    /\ poll' = [poll EXCEPT ![p] = Waiting]
    /\ UNCHANGED <<overlap, chain, metrics, restarts>>

\* The RPC node reads the mint for readSupply.
ReadSupply(p) ==
    /\ poll[p] = Waiting
    /\ poll' = [poll EXCEPT ![p] =
                  [supply |-> supply, issued |-> issued, redeemed |-> redeemed]]
    /\ UNCHANGED <<overlap, chain, metrics, phase, restarts>>

Ends(p) ==
    /\ poll' = [poll EXCEPT ![p] = Idle]
    /\ phase' = "running"

\* Mutant: the difference to the first snapshot of the process.
DiffToBase(snap) == IF last = None THEN 0 ELSE snap.supply - base.supply

\* diff(last, snap), once there is a snapshot to compare with.
Diff(snap) == IF last = None THEN 0 ELSE snap.supply - last.supply

\* Mutant: burns are counted as mints.
Change(d) == IF d > 0 THEN d ELSE 0 - d

MintOf(d) == IF d > 0 THEN d ELSE 0

BurnOf(d) == IF d < 0 THEN 0 - d ELSE 0

\* Mutant: the gauge is set only along with a counter.
GaugeOfChange(snap) == IF Diff(snap) = 0 THEN gauge ELSE snap.supply

GaugeOf(snap) == snap.supply

\* tick after its await: gauge, then the counter of the difference to `last`.
Tick(p) ==
    /\ poll[p] \in Snapshots
    /\ gauge' = GaugeOf(poll[p])
    /\ minted' = minted + MintOf(Diff(poll[p]))
    /\ burned' = burned + BurnOf(Diff(poll[p]))
    /\ last' = poll[p]
    /\ base' = IF last = None THEN poll[p] ELSE base
    /\ Ends(p)
    /\ UNCHANGED <<overlap, chain, errors, restarts>>

\* Either RPC call of readSupply fails; the catch counts it.
TickFails(p) ==
    /\ poll[p] # Idle /\ errors < MaxErrors
    /\ errors' = errors + 1
    /\ Ends(p)
    /\ UNCHANGED <<overlap, chain, last, gauge, minted, burned, base, restarts>>

\* The process ends (shutdown, or the machine) and a new one starts from nothing.
PollerRestart ==
    /\ restarts < MaxRestarts
    /\ restarts' = restarts + 1
    /\ poll' = [p \in Polls |-> Idle] /\ phase' = "new"
    /\ last' = None /\ base' = None /\ gauge' = 0
    /\ minted' = 0 /\ burned' = 0 /\ errors' = 0
    /\ UNCHANGED <<overlap, chain>>

PollStep(p) == StartPoll(p) \/ ReadSupply(p) \/ Tick(p) \/ TickFails(p)
PollerNext ==
    \/ \E n \in 1..MaxSupply : Mint(n) \/ Burn(n)
    \/ \E p \in Polls : PollStep(p)
    \/ PollerRestart

\* The timer fires and the RPC answers.
TimerFires == \E p \in Polls : StartPoll(p)
Answered(p) == ReadSupply(p) \/ Tick(p)

TimerFair == WF_pollVars(TimerFires)
AnswerFair(p) == WF_pollVars(Answered(p))
PollerFairness == TimerFair /\ \A p \in Polls : AnswerFair(p)
PollerSpec == PollerInit /\ [][PollerNext]_pollVars /\ PollerFairness

\* GET /supply.
Served == IF last = None THEN [ready |-> FALSE] ELSE [ready |-> TRUE, supply |-> last.supply]

-----------------------------------------------------------------------------
(* Properties. *)

\* The two counters account for the supply reported, since the process started,
\* whatever polls overlapped, came back out of order or failed: no difference
\* is counted twice or lost (README of the service: "cumulative deltas since
\* process start").
CountersBalance ==
    last # None => base.supply + minted = last.supply + burned

\* If the RPC answers within POLL_MS, no mint and no burn is reported that the
\* chain did not see between the first snapshot and the last.  With answers
\* slower than that a late snapshot is counted as a burn or a mint.
MovesAreReal ==
    (~overlap /\ last # None) =>
        /\ minted <= last.issued - base.issued
        /\ burned <= last.redeemed - base.redeemed

\* While no poll is in flight the timer starts one, and the RPC can answer each.
PollingGoesOn ==
    /\ InFlight = {} => ENABLED <<TimerFires>>_pollVars
    /\ \A p \in InFlight : ENABLED <<Answered(p)>>_pollVars

\* What /metrics and /supply report is the supply of the chain.
Current == gauge = supply /\ Served = [ready |-> TRUE, supply |-> supply]

\* Once the supply and the RPC node settle, /supply and the gauge come to show
\* the supply of the chain and stay there, also after a failed first poll.
EventuallyCurrent == []PollingGoesOn /\ <>[]Current
=============================================================================
