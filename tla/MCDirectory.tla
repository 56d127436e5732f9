---------------------------- MODULE MCDirectory -----------------------------
(* Instances of Directory for TLC. *)
EXTENDS Directory, TLC

CONSTANTS a, b, c

(* Two names of the same length, and one of another. *)
Lengths == a :> 2 @@ b :> 2 @@ c :> 3

NameSymmetry == Permutations({a, b})

=============================================================================
