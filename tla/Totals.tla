------------------------------- MODULE Totals -------------------------------
(***************************************************************************)
(* The total of a bounded function of naturals, as a cardinality: one      *)
(* element per unit.  (A recursive sum would say the same to TLC, but      *)
(* facts about it need an induction the provers cannot do; facts about a   *)
(* cardinality follow from the theorems on finite sets, see                *)
(* YieldfyProgramProofs.)                                                  *)
(***************************************************************************)
EXTENDS Naturals, FiniteSets

\* f \in [S -> 0..max]
UnitsOf(f, S, max) == {p \in S \X (1..max) : p[2] <= f[p[1]]}

Total(f, S, max) == Cardinality(UnitsOf(f, S, max))
=============================================================================
