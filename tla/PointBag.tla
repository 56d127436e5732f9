------------------------------ MODULE PointBag ------------------------------
(***************************************************************************)
(* What sorted_points.h promises: a bag of points in a given order, from   *)
(* which the first, the last or the n-th one is taken, and in which each   *)
(* point can be reduced to one record.  The result of a call is kept with  *)
(* the call and its index.  There are no links here and no list.           *)
(***************************************************************************)
EXTENDS Integers, FiniteSets, Bags, FiniteSetsExt

CONSTANTS
  Points,    \* pairs of coordinates
  Capacity   \* how many points there is memory for

VARIABLES
  bag,       \* the points
  dropped,   \* how many records a running deletion of duplicates has dropped, or Idle
  result     \* the last call, its index, its status and the point it stored

absVars == << bag, dropped, result >>

Idle == -1

Indices == -1 .. Capacity

Gives(call, index, status, points) ==
  result' = [call |-> call, index |-> index, status |-> status, point |-> points]

AbsInit ==
  /\ bag = EmptyBag
  /\ dropped = Idle
  /\ result = [call |-> "init", index |-> 0, status |-> 1, point |-> {}]

-----------------------------------------------------------------------------
(* The order of sorted_points.h: by the distance from the origin, exactly;  *)
(* then by x, then by y.                                                    *)
Squared(p) == p[1] * p[1] + p[2] * p[2]

Precedes(p, q) ==
  \/ Squared(p) < Squared(q)
  \/ Squared(p) = Squared(q) /\ p[1] < q[1]
  \/ Squared(p) = Squared(q) /\ p[1] = q[1] /\ p[2] < q[2]

Size == BagCardinality(bag)

(* The point at a position of the order, counted from 0: its records take   *)
(* the positions behind those of the points that precede it.                *)
At(n) ==
  CHOOSE p \in BagToSet(bag) :
    LET before == MapThenSumSet(LAMBDA q : bag[q], {q \in BagToSet(bag) : Precedes(q, p)})
    IN  before <= n /\ n < before + bag[p]

-----------------------------------------------------------------------------
Add(p) ==
  /\ \/ /\ Size < Capacity
        /\ bag' = bag (+) SetToBag({p})
        /\ Gives("add", 0, 1, {})
     \/ /\ UNCHANGED bag
        /\ Gives("add", 0, 0, {})
  /\ UNCHANGED dropped

(* The call takes the point at position n, if there is one. *)
Take(call, index, n) ==
  /\ IF n \in 0 .. Size - 1
     THEN bag' = bag (-) SetToBag({At(n)}) /\ Gives(call, index, 1, {At(n)})
     ELSE UNCHANGED bag /\ Gives(call, index, 0, {})
  /\ UNCHANGED dropped

Clear ==
  /\ bag' = EmptyBag
  /\ Gives("destroy", 0, 1, {})
  /\ UNCHANGED dropped

Duplicates == {p \in BagToSet(bag) : bag[p] > 1}

StartDropping == dropped' = 0 /\ UNCHANGED << bag, result >>

Drop ==
  \E p \in Duplicates :
    /\ bag' = bag (-) SetToBag({p})
    /\ dropped' = dropped + 1
    /\ UNCHANGED result

EndDropping ==
  /\ Duplicates = {}
  /\ Gives("delete_duplicates", 0, dropped, {})
  /\ dropped' = Idle
  /\ UNCHANGED bag

AbsNext ==
  \/ /\ dropped = Idle
     /\ \/ \E p \in Points : Add(p)
        \/ Take("remove_first", 0, 0)
        \/ Take("remove_last", 0, Size - 1)
        \/ \E n \in Indices : Take("remove_by_index", n, n)
        \/ Clear \/ StartDropping
  \/ /\ dropped # Idle
     /\ Drop \/ EndDropping

AbsSpec == AbsInit /\ [][AbsNext]_absVars

=============================================================================
