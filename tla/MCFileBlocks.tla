---------------------------- MODULE MCFileBlocks ----------------------------
(* Instances of FileBlocks for TLC. *)
EXTENDS FileBlocks, TLC

FileSymmetry == Permutations(Files)

=============================================================================
