---------------------------- MODULE MCComponents ----------------------------
(* A small instance of every component, for TLC. *)
EXTENDS Components, TLC

CONSTANTS orders, audit, g1, g2

\* A pipeline run by two relay groups; the consumer group audit, which may be
\* created, too, never commits an offset.
TwoGroups == {<<orders, g1>>, <<orders, g2>>}

Symmetry == Permutations(Sessions) \cup Permutations({g1, g2})

=============================================================================
