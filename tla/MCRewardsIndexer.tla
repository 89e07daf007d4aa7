-------------------------- MODULE MCRewardsIndexer --------------------------
(* RewardsIndexer in four environments: requests served one at a time, a run that
   overlaps with a publication, two publications that overlap with each other and
   with cron, and everything that can go wrong. *)
EXTENDS RewardsIndexer

CONSTANTS r1, c1, p1, p2

Serial == [may |-> {"otherProposals"}, handlers |-> {r1, p1},
           epochs |-> 2, indices |-> 2, time |-> 5]
Overlap == [may |-> {"overlap"}, handlers |-> {r1, p1},
            epochs |-> 2, indices |-> 3, time |-> 2]
Faults == [may |-> SituationNames, handlers |-> {c1, p1},
           epochs |-> 1, indices |-> 1, time |-> 0]
Rivals == [may |-> {"overlap", "publishById"}, handlers |-> {c1, p1, p2},
           epochs |-> 1, indices |-> 2, time |-> 0]
MCSettings == {Serial, Overlap, Faults, Rivals}
=============================================================================
