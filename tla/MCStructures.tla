---------------------------- MODULE MCStructures ----------------------------
(* The instance of Structures for TLC. *)
EXTENDS Structures, TLC

CONSTANTS k1, k2, k3, k4, k5, p, q

(* Three keys that share a bucket of the first buffer and part later. *)
Hashes == k1 :> 0 @@ k2 :> 4 @@ k3 :> 8 @@ k4 :> 1 @@ k5 :> 2

(* A float is named by the least squared distance that is narrowed to it:   *)
(* 4 and 5 stand for distances that differ as doubles only.                 *)
Narrowed(squared) == IF squared = 5 THEN 4 ELSE squared

(* Two points at the same distance with different x, two with the same x,  *)
(* and one whose distance differs from theirs only before it is narrowed;   *)
(* its x is the largest, so the order is the documented one.                *)
SomePoints == {<< -2, 0 >>, << 0, -2 >>, << 0, 2 >>, << 1, 2 >>, << 3, 0 >>}

(* Texts of spaces, tabs and two letters whose words share a bucket.         *)
SomeTexts == BoundedSeq({97, 101, 32}, 6) \cup BoundedSeq({97, 9, 32}, 4)

(* The points and the lists, never at work together, share their addresses. *)
AddressSymmetry == Permutations(Linkers)

=============================================================================
