---------------------------- MODULE MCPartitions ----------------------------
(* Two outboxes in ranges of two ids, for TLC. *)
EXTENDS Partitions, TLC

Symmetry == Permutations(Outboxes)

=============================================================================
