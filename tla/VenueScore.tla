---------------------------- MODULE VenueScore ----------------------------
(***************************************************************************)
(* How the optimizer chooses a venue: the feed of yields, the static       *)
(* signals, the score and the choice.  Fractions are integers here: apy    *)
(* and utilization in percent, TVL in units of five million dollars,       *)
(* weights and audit scores in percent; a score is 60000 times the code's. *)
(* A negative apy or TVL counts as zero in the code, and is left out.      *)
(***************************************************************************)
EXTENDS Integers

\* VENUE_CODE: kamino, marginfi, drift, meteora.
Kamino == 0
Venues == 0..3

Profiles == {"conservative", "balanced", "opportunistic"}

WEIGHTS ==
    [conservative  |-> [apy |-> 35, tvl |-> 25, util |-> 15, oracle |-> 10, audit |-> 15],
     balanced      |-> [apy |-> 50, tvl |-> 20, util |-> 10, oracle |-> 10, audit |-> 10],
     opportunistic |-> [apy |-> 70, tvl |-> 10, util |-> 5, oracle |-> 5, audit |-> 10]]

OracleAge == [v \in Venues |-> CASE v = 0 -> 10 [] v = 1 -> 12 [] v = 2 -> 15 [] v = 3 -> 18]
AuditScore == [v \in Venues |-> CASE v = 0 -> 92 [] v = 1 -> 89 [] v = 2 -> 86 [] v = 3 -> 80]

-----------------------------------------------------------------------------

\* What the feed may say of a pool it lists, and what stands in for one it
\* does not: a feed is a function on the venues it lists.
Snapshots == [apy : Nat, tvl : Nat, util : 0..100]
Unlisted == [apy |-> 0, tvl |-> 0, util |-> 0]

FetchSnapshots(feed) ==
    [v \in Venues |-> IF v \in DOMAIN feed THEN feed[v] ELSE Unlisted]

Capped(x, max) == IF x < max THEN x ELSE max
Distance(x, y) == IF x < y THEN y - x ELSE x - y

\* The ages known are below the 120 seconds from which they count for nothing.
ScoreVenue(venue, s, profile) ==
    LET w == WEIGHTS[profile]
    IN  w.apy * 20 * Capped(s.apy, 30)
        + w.tvl * 6 * Capped(s.tvl, 100)
        + w.util * 6 * (100 - Distance(s.util, 75))
        + w.oracle * 5 * (120 - OracleAge[venue])
        + w.audit * 6 * AuditScore[venue]

\* The first of the best, as the sort is stable.
\* Mutant: the sort ascends.
ChoosesWorst(venue, snaps, profile) ==
    \A u \in Venues : ScoreVenue(venue, snaps[venue], profile)
                         <= ScoreVenue(u, snaps[u], profile)

Chooses(venue, snaps, profile) ==
    LET score(v) == ScoreVenue(v, snaps[v], profile)
    IN  \A u \in Venues : IF u < venue THEN score(u) < score(venue)
                                       ELSE score(u) <= score(venue)
=============================================================================
