--------------------------- MODULE ListSequences ----------------------------
(***************************************************************************)
(* What a linked list promises its callers: a sequence of elements, which  *)
(* grows and shrinks at both ends and at a position, counted from 0.       *)
(***************************************************************************)
EXTENDS Integers, FiniteSets, Sequences, SequencesExt

CONSTANTS Chains, Elements

VARIABLES
  seqs,  \* the elements of each list
  last   \* the last call, its list, its position and its result

seqVars == << seqs, last >>

Positions == -1 .. Cardinality(Elements)

Called(op, q, n, result) == last' = << op, q, n, result >>

SeqInit ==
  /\ seqs = [q \in Chains |-> << >>]
  /\ last = << "new", CHOOSE q \in Chains : TRUE, 0, "done" >>

(* A new element comes to the given place. *)
Insert(op, q, n, place) ==
  /\ \E x \in Elements \ UNION {ToSet(seqs[r]) : r \in Chains} :
       seqs' = [seqs EXCEPT ![q] = InsertAt(@, place, x)]
  /\ Called(op, q, n, "done")

Delete(op, q, n, place) ==
  /\ place \in DOMAIN seqs[q]
  /\ seqs' = [seqs EXCEPT ![q] = RemoveAt(@, place)]
  /\ Called(op, q, n, "done")

Look(op, q, n, place) ==
  /\ place \in DOMAIN seqs[q]
  /\ Called(op, q, n, seqs[q][place])
  /\ UNCHANGED seqs

(* At the top there is nothing to do, be it empty. *)
MoveToTop(q, n, place) ==
  /\ place \in DOMAIN seqs[q] \cup {1}
  /\ seqs' = IF place = 1 THEN seqs
             ELSE [seqs EXCEPT ![q] = << @[place] >> \o RemoveAt(@, place)]
  /\ Called("movetop", q, n, "done")

Concatenate(q, r) ==
  /\ q # r
  /\ seqs' = [seqs EXCEPT ![q] = @ \o seqs[r], ![r] = << >>]
  /\ Called("concatenate", q, 0, "done")

(* A call fails without memory, or at a position that there is not.  A list *)
(* of one element has it at every later position for movetop, and the top   *)
(* of an empty one is there to move.                                        *)
Fail(op, q, n) ==
  /\ \/ op \in {"push", "put", "insert"}
     \/ op \in {"pop", "pull", "delete", "look"} /\ n \notin 0 .. Len(seqs[q]) - 1
     \/ op = "movetop" /\ (n < 0 \/ (n > 0 /\ n >= Len(seqs[q]) /\ Len(seqs[q]) # 1))
  /\ Called(op, q, n, "failed")
  /\ UNCHANGED seqs

(* The process ends where a caller must not go: taking or looking at an end *)
(* that is not there, appending an empty list to one that is not, moving    *)
(* the last of several elements by its position; and at a push or an        *)
(* insertion in the middle without memory.                                  *)
Crash(op, q, n) ==
  /\ \/ op = "push"
     \/ op = "insert" /\ n \in 1 .. Len(seqs[q]) - 2
     \/ op \in {"pop", "pull", "delete", "look"} /\ seqs[q] = << >> /\ n \in {-1, 0}
     \/ op = "movetop" /\ n > 0 /\ n = Len(seqs[q]) - 1
     \/ op = "concatenate" /\ seqs[q] # << >> /\ \E r \in Chains \ {q} : seqs[r] = << >>
  /\ Called(op, q, n, "crashed")
  /\ UNCHANGED seqs

SeqNext ==
  \E q \in Chains :
    LET size == Len(seqs[q]) IN
    \/ Insert("push", q, 0, size + 1) \/ Insert("put", q, 0, 1)
    \/ Delete("pop", q, 0, 1) \/ Delete("pull", q, 0, size)
    \/ Look("look", q, 0, 1) \/ Look("look", q, size - 1, size)
    \/ \E r \in Chains : Concatenate(q, r)
    \/ \E n \in Positions :
         \/ n \in 0 .. size - 2 /\ Insert("insert", q, n, n + 1)
         \/ n = size - 1 /\ Insert("insert", q, n, IF n = 0 THEN 1 ELSE size + 1)
         \/ Delete("delete", q, n, n + 1)
         \/ Look("look", q, n, n + 1)
         \/ MoveToTop(q, n, IF size = 1 /\ n > 0 THEN 1 ELSE n + 1)
         \/ \E op \in {"push", "put", "pop", "pull", "insert", "delete", "look", "movetop",
                       "concatenate"} : Fail(op, q, n) \/ Crash(op, q, n)

SeqSpec == SeqInit /\ [][SeqNext]_seqVars

=============================================================================
