---------------------------- MODULE SortedPoints ----------------------------
(***************************************************************************)
(* The sorted list of src/warmup/sorted_points.c at the level of its       *)
(* pointers, with the comparison of point.c.                               *)
(*                                                                         *)
(* The program is sequential and a call is a step, but for the loop of     *)
(* sp_delete_duplicates, of which each round is one.  A point and its      *)
(* linker are allocated and freed together, so the linker stands for both. *)
(***************************************************************************)
EXTENDS Integers, FiniteSets, FiniteSetsExt, Bags

CONSTANTS
  Points,     \* pairs of coordinates
  Linkers,    \* addresses of linkers
  NULL,
  Float(_)    \* the float that the distance of a point at a squared distance becomes

ASSUME SortedPointsAssumption ==
  /\ Points \subseteq Int \X Int
  /\ IsFiniteSet(Linkers) /\ NULL \notin Linkers

VARIABLES
  sp,          \* m_pStartLinker, m_pEndLinker, m_iSize
  linker,      \* m_pPoint, m_pNextLinker, m_pPriorLinker of the allocated linkers
  duplicates,  \* locals of sp_delete_duplicates, or NoLoop
  ret          \* the last call, its index, what it returned and the point it stored

pointVars == << sp, linker, duplicates, ret >>

NoLoop == [current |-> NULL, point |-> NULL, num |-> -1]

Crashed == -1                          \* the process is gone

Returned(call, index, status, points) ==
  [call |-> call, index |-> index, status |-> status, point |-> points]

sp_init ==
  /\ sp = [m_pStartLinker |-> NULL, m_pEndLinker |-> NULL, m_iSize |-> 0]
  /\ linker = << >>
  /\ duplicates = NoLoop
  /\ ret = Returned("init", 0, 1, {})

-----------------------------------------------------------------------------
(* point_compare narrows the distances to float before it compares them.   *)
Distance(p) == Float(p[1] * p[1] + p[2] * p[2])

detail_point_compare_yFirst(p, q) ==   \* mutant: the smaller y before the smaller x
  \/ Distance(p) < Distance(q)
  \/ Distance(p) = Distance(q) /\ p[2] < q[2]
  \/ Distance(p) = Distance(q) /\ p[2] = q[2] /\ p[1] < q[1]

detail_point_compare(p, q) ==          \* whether it is -1
  \/ Distance(p) < Distance(q)
  \/ Distance(p) = Distance(q) /\ p[1] < q[1]
  \/ Distance(p) = Distance(q) /\ p[1] = q[1] /\ p[2] < q[2]

-----------------------------------------------------------------------------
(* Where a walk of n links from the start ends. *)
Walk[n \in Nat] ==
  IF n = 0 THEN sp.m_pStartLinker
  ELSE IF Walk[n - 1] = NULL THEN NULL ELSE linker[Walk[n - 1]].m_pNextLinker

Freed(l, heap) == [k \in DOMAIN heap \ {l} |-> heap[k]]

Ready == duplicates = NoLoop /\ ret.status # Crashed

-----------------------------------------------------------------------------
(* sp_add_point: the new linker goes before the first point that does not  *)
(* come before it, or to the end.  An empty list is a list at whose end it  *)
(* comes.                                                                   *)
Steps(p) ==
  Min({n \in 0 .. Cardinality(Linkers) :
         Walk[n] = NULL \/ ~detail_point_compare(linker[Walk[n]].m_pPoint, p)})

sp_add_point(p) ==
  /\ Ready
  /\ \E new \in Linkers \ DOMAIN linker :
       LET current == Walk[Steps(p)]
           prior == IF Steps(p) = 0 THEN NULL ELSE Walk[Steps(p) - 1]
       IN  /\ linker' = [l \in DOMAIN linker \cup {new} |->
                           IF l = new
                           THEN [m_pPoint |-> p, m_pNextLinker |-> current, m_pPriorLinker |-> prior]
                           ELSE IF l = prior THEN [linker[l] EXCEPT !.m_pNextLinker = new]
                           ELSE IF l = current THEN [linker[l] EXCEPT !.m_pPriorLinker = new]
                           ELSE linker[l]]
           /\ sp' = [m_pStartLinker |-> IF prior = NULL THEN new ELSE sp.m_pStartLinker,
                     m_pEndLinker |-> IF current = NULL THEN new ELSE sp.m_pEndLinker,
                     m_iSize |-> sp.m_iSize + 1]
  /\ ret' = Returned("add", 0, 1, {})
  /\ UNCHANGED duplicates

(* The list is destroyed, which frees what the next links lead to, and a   *)
(* new one is made.                                                         *)
sp_destroy ==
  /\ Ready
  /\ linker' = LET walked == {Walk[n] : n \in 0 .. Cardinality(Linkers)}
               IN  [l \in DOMAIN linker \ walked |-> linker[l]]
  /\ sp' = [m_pStartLinker |-> NULL, m_pEndLinker |-> NULL, m_iSize |-> 0]
  /\ ret' = Returned("destroy", 0, 1, {})
  /\ UNCHANGED duplicates

(* No memory for the linker is noticed; the point is used before it is     *)
(* known to be there.                                                       *)
sp_add_point_fails ==
  /\ Ready
  /\ \E status \in {0, Crashed} : ret' = Returned("add", 0, status, {})
  /\ UNCHANGED << sp, linker, duplicates >>

-----------------------------------------------------------------------------
(* The lists without their first, their last, or another linker            *)

Emptied ==
  /\ sp' = [m_pStartLinker |-> NULL, m_pEndLinker |-> NULL, m_iSize |-> 0]
  /\ linker' = Freed(sp.m_pStartLinker, linker)

WithoutFirst ==
  LET first == sp.m_pStartLinker
      next == linker[first].m_pNextLinker
  IN  IF sp.m_iSize = 1 THEN Emptied
      ELSE /\ sp' = [sp EXCEPT !.m_pStartLinker = next, !.m_iSize = @ - 1]
           /\ linker' = Freed(first, [linker EXCEPT ![next].m_pPriorLinker = NULL])

WithoutLast_linked ==                  \* mutant: the link to the last one is kept
  LET last == sp.m_pEndLinker
      prior == linker[last].m_pPriorLinker
  IN  IF sp.m_iSize = 1 THEN Emptied
      ELSE /\ sp' = [sp EXCEPT !.m_pEndLinker = prior, !.m_iSize = @ - 1]
           /\ linker' = Freed(last, linker)

WithoutLast ==
  LET last == sp.m_pEndLinker
      prior == linker[last].m_pPriorLinker
  IN  IF sp.m_iSize = 1 THEN Emptied
      ELSE /\ sp' = [sp EXCEPT !.m_pEndLinker = prior, !.m_iSize = @ - 1]
           /\ linker' = Freed(last, [linker EXCEPT ![prior].m_pNextLinker = NULL])

Without(l) ==
  LET next == linker[l].m_pNextLinker
      prior == linker[l].m_pPriorLinker
  IN  /\ sp' = [sp EXCEPT !.m_iSize = @ - 1]
      /\ linker' = Freed(l, [linker EXCEPT ![prior].m_pNextLinker = next,
                                           ![next].m_pPriorLinker = prior])

-----------------------------------------------------------------------------
Fails(call, index) == ret' = Returned(call, index, 0, {}) /\ UNCHANGED << sp, linker >>

Gives(call, index, l) == ret' = Returned(call, index, 1, {linker[l].m_pPoint})

TakeFirst(call, index) ==
  /\ Ready
  /\ IF sp.m_iSize = 0 THEN Fails(call, index)
     ELSE WithoutFirst /\ Gives(call, index, sp.m_pStartLinker)
  /\ UNCHANGED duplicates

sp_remove_first == TakeFirst("remove_first", 0)

(* The last of one is taken from the start of the list. *)
TakeLast(call, index) ==
  /\ Ready
  /\ IF sp.m_iSize = 0 THEN Fails(call, index)
     ELSE /\ WithoutLast
          /\ Gives(call, index, IF sp.m_iSize = 1 THEN sp.m_pStartLinker ELSE sp.m_pEndLinker)
  /\ UNCHANGED duplicates

sp_remove_last == TakeLast("remove_last", 0)

sp_remove_by_index(index) ==
  \/ /\ Ready /\ (index > sp.m_iSize - 1 \/ index < 0)
     /\ Fails("remove_by_index", index)
     /\ UNCHANGED duplicates
  \/ /\ index = 0 /\ sp.m_iSize > 0
     /\ TakeFirst("remove_by_index", index)
  \/ /\ index = sp.m_iSize - 1 /\ index > 0
     /\ TakeLast("remove_by_index", index)
  \/ /\ Ready /\ 0 < index /\ index < sp.m_iSize - 1
     /\ Without(Walk[index]) /\ Gives("remove_by_index", index, Walk[index])
     /\ UNCHANGED duplicates

-----------------------------------------------------------------------------
(* sp_delete_duplicates compares each point with the last one it has kept. *)

sp_delete_duplicates ==
  /\ Ready
  /\ duplicates' =
       IF sp.m_iSize <= 1 THEN [NoLoop EXCEPT !.num = 0]
       ELSE [current |-> linker[sp.m_pStartLinker].m_pNextLinker,
             point |-> linker[sp.m_pStartLinker].m_pPoint,
             num |-> 0]
  /\ UNCHANGED << sp, linker, ret >>

InLoop == duplicates.current # NULL /\ sp.m_iSize > 1

sp_delete_duplicates_drops ==
  /\ InLoop
  /\ linker[duplicates.current].m_pPoint = duplicates.point
  /\ IF duplicates.current = sp.m_pEndLinker THEN WithoutLast ELSE Without(duplicates.current)
  /\ duplicates' = [duplicates EXCEPT
                      !.current = IF @ = sp.m_pEndLinker THEN NULL ELSE linker[@].m_pNextLinker,
                      !.num = @ + 1]
  /\ UNCHANGED ret

sp_delete_duplicates_keeps_stale ==    \* mutant: compares with the first point only
  /\ InLoop
  /\ linker[duplicates.current].m_pPoint # duplicates.point
  /\ duplicates' = [duplicates EXCEPT !.current = linker[@].m_pNextLinker]
  /\ UNCHANGED << sp, linker, ret >>

sp_delete_duplicates_keeps ==
  /\ InLoop
  /\ linker[duplicates.current].m_pPoint # duplicates.point
  /\ duplicates' = [duplicates EXCEPT
                      !.point = linker[duplicates.current].m_pPoint,
                      !.current = linker[@].m_pNextLinker]
  /\ UNCHANGED << sp, linker, ret >>

sp_delete_duplicates_returns ==
  /\ duplicates # NoLoop /\ ~InLoop
  /\ ret' = Returned("delete_duplicates", 0, duplicates.num, {})
  /\ duplicates' = NoLoop
  /\ UNCHANGED << sp, linker >>

-----------------------------------------------------------------------------
PointsNext ==
  \/ \E p \in Points : sp_add_point(p)
  \/ sp_add_point_fails \/ sp_destroy
  \/ sp_remove_first \/ sp_remove_last
  \/ \E index \in -1 .. Cardinality(Linkers) : sp_remove_by_index(index)
  \/ sp_delete_duplicates \/ sp_delete_duplicates_drops
  \/ sp_delete_duplicates_keeps \/ sp_delete_duplicates_returns

-----------------------------------------------------------------------------
(* Properties *)

LinkerOrNULL == Linkers \cup {NULL}

(* Types, and the shape of the list: the walk along the next links passes  *)
(* every allocated linker once, the prior links lead back the same way, and *)
(* the start, the end and the size agree with it.                           *)
WellLinked ==
  /\ sp.m_iSize = Cardinality(DOMAIN linker)
  /\ DOMAIN linker \subseteq Linkers
  /\ \A l \in DOMAIN linker :
       /\ linker[l].m_pPoint \in Points
       /\ linker[l].m_pNextLinker \in LinkerOrNULL /\ linker[l].m_pPriorLinker \in LinkerOrNULL
  /\ {Walk[n] : n \in 0 .. sp.m_iSize - 1} = DOMAIN linker
  /\ Walk[sp.m_iSize] = NULL
  /\ \A n \in 0 .. sp.m_iSize - 1 :
       linker[Walk[n]].m_pPriorLinker = IF n = 0 THEN NULL ELSE Walk[n - 1]
  /\ sp.m_pEndLinker = IF sp.m_iSize = 0 THEN NULL ELSE Walk[sp.m_iSize - 1]

(* The points of the list, as a bag. *)
Contents ==
  [p \in {linker[l].m_pPoint : l \in DOMAIN linker} |->
     Cardinality({l \in DOMAIN linker : linker[l].m_pPoint = p})]

Bag == INSTANCE PointBag WITH
  Capacity <- Cardinality(Linkers),
  bag <- Contents,
  dropped <- duplicates.num,
  result <- ret

(* The list is the bag of points that sorted_points.h describes, whatever   *)
(* calls came before: each call takes and stores the point that is first,   *)
(* last or n-th in the documented order, and the deletion of duplicates     *)
(* leaves one record of each point and returns how many it has deleted.  A  *)
(* process that has ended answers no more.                                  *)
ImplementsPointBag == Bag!AbsInit /\ [][ret'.status # Crashed => Bag!AbsNext]_(Bag!absVars)

=============================================================================
