---------------------------- MODULE MCBlockFence ----------------------------
(* Small instances of BlockFence for TLC. *)
EXTENDS BlockFence, TLC

Symmetry == Permutations(Requests) \cup Permutations(Blocks)

=============================================================================
