------------------------------- MODULE Lists --------------------------------
(***************************************************************************)
(* The doubly linked lists at the level of their links: List of            *)
(* src/webserver/server_thread.c, which the request pool, the cache and    *)
(* the buckets of the hash table are made of, and its older copy           *)
(* Linkedlist of src/warmup/wc.c.                                          *)
(*                                                                         *)
(* A list keeps its elements by pointers; the linker, allocated and freed  *)
(* with its element's stay in the list, stands for the element too.        *)
(***************************************************************************)
EXTENDS Integers, Sequences, FiniteSets

CONSTANTS
  Chains,    \* the lists
  Cells,     \* the addresses of linkers
  NIL

ASSUME ListsAssumption ==
  /\ IsFiniteSet(Cells) /\ NIL \notin Cells
  /\ Chains # {}

VARIABLES
  list,   \* m_pStartLinker, m_pEndLinker and m_iSize of each list
  cell,   \* m_pNextLinker and m_pPrevLinker of the allocated linkers
  last    \* the last call, its list, its position and its result

listVars == << list, cell, last >>

List_new == [m_pStartLinker |-> NIL, m_pEndLinker |-> NIL, m_iSize |-> 0]

ListsInit ==
  /\ list = [q \in Chains |-> List_new]
  /\ cell = << >>
  /\ last = << "new", CHOOSE q \in Chains : TRUE, 0, "done" >>

-----------------------------------------------------------------------------
(* Helpers *)

Places == -1 .. Cardinality(Cells)

Returns(op, q, n, result) == last' = << op, q, n, result >>

Running == last[4] # "crashed"

Ends(op, q, n, result) == Returns(op, q, n, result) /\ UNCHANGED << list, cell >>

Start(q) == list[q].m_pStartLinker
End(q) == list[q].m_pEndLinker
Size(q) == list[q].m_iSize

(* The linker at a position, by a walk from the start.                      *)
Linker(q, pos) ==
  LET walk[n \in 0 .. pos] == IF n = 0 THEN Start(q) ELSE cell[walk[n - 1]].m_pNextLinker
  IN  walk[pos]

Remaining(heap, l) == [k \in DOMAIN heap \ {l} |-> heap[k]]

(* new goes behind the end, or before the start. *)
Behind(q, new) ==
  /\ list' = [list EXCEPT ![q] = [m_pStartLinker |-> IF Size(q) = 0 THEN new ELSE Start(q),
                                  m_pEndLinker |-> new, m_iSize |-> Size(q) + 1]]
  /\ cell' = [k \in DOMAIN cell \cup {new} |->
                IF k = new THEN [m_pNextLinker |-> NIL, m_pPrevLinker |-> End(q)]
                ELSE IF k = End(q) THEN [cell[k] EXCEPT !.m_pNextLinker = new]
                ELSE cell[k]]

Before(q, new) ==
  /\ list' = [list EXCEPT ![q] = [m_pStartLinker |-> new, m_iSize |-> Size(q) + 1,
                                  m_pEndLinker |-> IF Size(q) = 0 THEN new ELSE End(q)]]
  /\ cell' = [k \in DOMAIN cell \cup {new} |->
                IF k = new THEN [m_pNextLinker |-> Start(q), m_pPrevLinker |-> NIL]
                ELSE IF k = Start(q) THEN [cell[k] EXCEPT !.m_pPrevLinker = new]
                ELSE cell[k]]

(* The links around l pass it by. *)
Unlinked(l) ==
  [cell EXCEPT ![cell[l].m_pPrevLinker].m_pNextLinker = cell[l].m_pNextLinker,
               ![cell[l].m_pNextLinker].m_pPrevLinker = cell[l].m_pPrevLinker]

-----------------------------------------------------------------------------
(* The lists of the web server *)

(* The linker is used before it is known to be there.                      *)
List_push(q) ==
  \/ /\ \E new \in Cells \ DOMAIN cell : Behind(q, new)
     /\ Returns("push", q, 0, "done")
  \/ Ends("push", q, 0, "crashed")

List_put(q) ==
  \/ /\ \E new \in Cells \ DOMAIN cell : Before(q, new)
     /\ Returns("put", q, 0, "done")
  \/ Ends("put", q, 0, "failed")

Cleared(q) ==
  /\ list' = [list EXCEPT ![q] = List_new]
  /\ cell' = Remaining(cell, Start(q))

WithoutStart(q) ==
  IF Size(q) = 1 THEN Cleared(q)
  ELSE LET next == cell[Start(q)].m_pNextLinker IN
       /\ list' = [list EXCEPT ![q].m_pStartLinker = next, ![q].m_iSize = @ - 1]
       /\ cell' = Remaining([cell EXCEPT ![next].m_pPrevLinker = NIL], Start(q))

WithoutEnd(q) ==
  IF Size(q) = 1 THEN Cleared(q)
  ELSE LET prev == cell[End(q)].m_pPrevLinker IN
       /\ list' = [list EXCEPT ![q].m_pEndLinker = prev, ![q].m_iSize = @ - 1]
       /\ cell' = Remaining([cell EXCEPT ![prev].m_pNextLinker = NIL], End(q))

WithoutMiddle(q, pos) ==
  /\ list' = [list EXCEPT ![q].m_iSize = @ - 1]
  /\ cell' = Remaining(Unlinked(Linker(q, pos)), Linker(q, pos))

List_pop(q, op, pos) ==
  \/ Size(q) > 0 /\ WithoutStart(q) /\ Returns(op, q, pos, "done")
  \/ Size(q) = 0 /\ Ends(op, q, pos, "crashed")

List_pull(q, op, pos) ==
  \/ Size(q) > 0 /\ WithoutEnd(q) /\ Returns(op, q, pos, "done")
  \/ Size(q) = 0 /\ Ends(op, q, pos, "crashed")

List_delete(q, pos) ==
  \/ pos = 0 /\ List_pop(q, "delete", pos)
  \/ pos # 0 /\ pos = Size(q) - 1 /\ List_pull(q, "delete", pos)
  \/ 0 < pos /\ pos < Size(q) - 1 /\ WithoutMiddle(q, pos) /\ Returns("delete", q, pos, "done")
  \/ pos # 0 /\ pos \notin -1 .. Size(q) - 1 /\ Ends("delete", q, pos, "failed")
  \/ pos = -1 /\ Size(q) > 0 /\ Ends("delete", q, pos, "failed")

List_top(q) ==
  \/ Size(q) > 0 /\ Ends("look", q, 0, Start(q))
  \/ Size(q) = 0 /\ Ends("look", q, 0, "crashed")

List_bot(q) ==
  \/ Size(q) > 0 /\ Ends("look", q, Size(q) - 1, End(q))
  \/ Size(q) = 0 /\ Ends("look", q, -1, "crashed")

(* l, no longer linked in heap, becomes the start. *)
AtTop(q, l, heap) ==
  [heap EXCEPT ![l] = [m_pNextLinker |-> Start(q), m_pPrevLinker |-> NIL],
               ![Start(q)].m_pPrevLinker = l]

(* By position.  Nobody calls it; at the end it follows a link to nowhere.  *)
List_movetop(q, pos) ==
  LET l == Linker(q, pos) IN
  \/ pos < 0 /\ Ends("movetop", q, pos, "failed")
  \/ pos = 0 /\ Ends("movetop", q, pos, "done")
  \/ pos > 0 /\ pos >= Size(q) /\ Size(q) # 1 /\ Ends("movetop", q, pos, "failed")
  \/ pos > 0 /\ Size(q) = 1 /\ Ends("movetop", q, pos, "done")
  \/ pos > 0 /\ Size(q) > 1 /\ pos = Size(q) - 1 /\ Ends("movetop", q, pos, "crashed")
  \/ /\ 0 < pos /\ pos < Size(q) - 1
     /\ cell' = AtTop(q, l, Unlinked(l))
     /\ list' = [list EXCEPT ![q].m_pStartLinker = l]
     /\ Returns("movetop", q, pos, "done")

(* By the linker, which the cache remembers in m_pLinkPos.                  *)
List_pmovetop_keepsEnd(q, pos) ==      \* mutant: the end of the list stays where it is
  LET l == Linker(q, pos) IN
  /\ pos \in 1 .. Size(q) - 1
  /\ cell' = AtTop(q, l, IF l = End(q) THEN [cell EXCEPT ![cell[l].m_pPrevLinker].m_pNextLinker = NIL]
                         ELSE Unlinked(l))
  /\ list' = [list EXCEPT ![q].m_pStartLinker = l]
  /\ Returns("movetop", q, pos, "done")

List_pmovetop(q, pos) ==
  LET l == Linker(q, pos)
      prev == cell[l].m_pPrevLinker
  IN
  /\ pos \in 0 .. Size(q) - 1
  /\ \/ /\ l = Start(q)
        /\ UNCHANGED << list, cell >>
     \/ /\ l # Start(q) /\ l = End(q)
        /\ cell' = AtTop(q, l, [cell EXCEPT ![prev].m_pNextLinker = NIL])
        /\ list' = [list EXCEPT ![q].m_pEndLinker = prev, ![q].m_pStartLinker = l]
     \/ /\ l # Start(q) /\ l # End(q)
        /\ cell' = AtTop(q, l, Unlinked(l))
        /\ list' = [list EXCEPT ![q].m_pStartLinker = l]
  /\ Returns("movetop", q, pos, "done")

(* r is freed; its place is given to a new list.                            *)
List_concatenate(q, r) ==
  \/ /\ Size(q) = 0
     /\ list' = [list EXCEPT ![q] = list[r], ![r] = List_new]
     /\ UNCHANGED cell
     /\ Returns("concatenate", q, 0, "done")
  \/ /\ Size(q) > 0 /\ Size(r) > 0
     /\ list' = [list EXCEPT ![q].m_pEndLinker = End(r), ![q].m_iSize = @ + Size(r),
                             ![r] = List_new]
     /\ cell' = [cell EXCEPT ![End(q)].m_pNextLinker = Start(r),
                             ![Start(r)].m_pPrevLinker = End(q)]
     /\ Returns("concatenate", q, 0, "done")
  \/ /\ Size(q) > 0 /\ Size(r) = 0
     /\ Ends("concatenate", q, 0, "crashed")

-----------------------------------------------------------------------------
(* Where the lists of the word counter differ: without memory or an element *)
(* a call fails, and a place is found for a new one by its position.        *)

Linkedlist_pushback(q, op, pos) ==
  \/ /\ \E new \in Cells \ DOMAIN cell : Behind(q, new)
     /\ Returns(op, q, pos, "done")
  \/ Ends(op, q, pos, "failed")

Linkedlist_pushfront(q, op, pos) ==
  \/ /\ \E new \in Cells \ DOMAIN cell : Before(q, new)
     /\ Returns(op, q, pos, "done")
  \/ Ends(op, q, pos, "failed")

Linkedlist_popback(q, op, pos) ==
  \/ Size(q) > 0 /\ WithoutEnd(q) /\ Returns(op, q, pos, "done")
  \/ Size(q) = 0 /\ Ends(op, q, pos, "failed")

Linkedlist_popfront(q, op, pos) ==
  \/ Size(q) > 0 /\ WithoutStart(q) /\ Returns(op, q, pos, "done")
  \/ Size(q) = 0 /\ Ends(op, q, pos, "failed")

Linkedlist_deleteat(q, pos) ==
  \/ pos \notin 0 .. Size(q) - 1 /\ Ends("delete", q, pos, "failed")
  \/ pos = 0 /\ Size(q) > 0 /\ Linkedlist_popfront(q, "delete", pos)
  \/ pos > 0 /\ pos = Size(q) - 1 /\ Linkedlist_popback(q, "delete", pos)
  \/ pos \in 1 .. Size(q) - 2 /\ WithoutMiddle(q, pos) /\ Returns("delete", q, pos, "done")

Linkedlist_at(q, pos) ==
  \/ pos \notin 0 .. Size(q) - 1 /\ Ends("look", q, pos, "failed")
  \/ pos \in 0 .. Size(q) - 1 /\ Ends("look", q, pos, Linker(q, pos))

(* new comes before the linker next.                                        *)
Between(q, new, next) ==
  LET prev == cell[next].m_pPrevLinker IN
  /\ list' = [list EXCEPT ![q].m_iSize = @ + 1]
  /\ cell' = [k \in DOMAIN cell \cup {new} |->
                IF k = new THEN [m_pNextLinker |-> next, m_pPrevLinker |-> prev]
                ELSE IF k = prev THEN [cell[k] EXCEPT !.m_pNextLinker = new]
                ELSE IF k = next THEN [cell[k] EXCEPT !.m_pPrevLinker = new]
                ELSE cell[k]]

(* Before the element at the position, but behind the last one.  Only in    *)
(* the middle is the new linker used before it is known to be there.        *)
Linkedlist_insertat(q, pos) ==
  \/ pos \notin 0 .. Size(q) - 1 /\ Ends("insert", q, pos, "failed")
  \/ pos = 0 /\ Size(q) > 0 /\ Linkedlist_pushfront(q, "insert", pos)
  \/ pos > 0 /\ pos = Size(q) - 1 /\ Linkedlist_pushback(q, "insert", pos)
  \/ /\ pos \in 1 .. Size(q) - 2
     /\ \/ /\ \E new \in Cells \ DOMAIN cell : Between(q, new, Linker(q, pos))
           /\ Returns("insert", q, pos, "done")
        \/ Ends("insert", q, pos, "crashed")

-----------------------------------------------------------------------------
ListsNext ==
  /\ Running
  /\ \E q \in Chains :
       \/ List_push(q) \/ List_put(q) \/ List_top(q) \/ List_bot(q)
       \/ List_pop(q, "pop", 0) \/ List_pull(q, "pull", 0)
       \/ \E r \in Chains \ {q} : List_concatenate(q, r)
       \/ Linkedlist_pushback(q, "push", 0) \/ Linkedlist_pushfront(q, "put", 0)
       \/ Linkedlist_popback(q, "pull", 0) \/ Linkedlist_popfront(q, "pop", 0)
       \/ \E pos \in Places :
            \/ List_delete(q, pos) \/ List_movetop(q, pos) \/ List_pmovetop(q, pos)
            \/ Linkedlist_deleteat(q, pos) \/ Linkedlist_at(q, pos)
            \/ Linkedlist_insertat(q, pos)

-----------------------------------------------------------------------------
(* Properties *)

(* The elements of a list, in the order of the next links.                 *)
Walked(q) ==
  LET walk[n \in 1 .. Size(q)] ==
        IF n = 1 THEN Start(q) ELSE cell[walk[n - 1]].m_pNextLinker
  IN  walk

Promise == INSTANCE ListSequences WITH
  Elements <- Cells, seqs <- [q \in Chains |-> Walked(q)]

(* A list is a sequence: every call, at either end, in the middle, by       *)
(* position or by linker, changes it as its name says, whatever calls came  *)
(* before.  A call ends the process only at a push or an insertion without  *)
(* memory, or with an argument that Crash of ListSequences names.           *)
ImplementsSequences == Promise!SeqSpec

=============================================================================
