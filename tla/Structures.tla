----------------------------- MODULE Structures -----------------------------
(***************************************************************************)
(* The data structures of the repository, each by itself: the linked lists *)
(* and the hash table of the web server, and the sorted list of points and *)
(* the word counter of the warm-up.  A behaviour exercises one of them.    *)
(***************************************************************************)
EXTENDS HashTable, SortedPoints, Lists, WordCount

VARIABLE part   \* the structure of this behaviour

allVars == << part, tableVars, pointVars, listVars, wcVars >>

Init ==
  /\ part \in {"table", "points", "lists", "words"}
  /\ TableInit
  /\ sp_init
  /\ ListsInit
  /\ IF part = "words" THEN wc_new
     ELSE /\ text = << >> /\ counter = 1 /\ word_size = 0 /\ source_pointer = 1
          /\ table = [b \in 0 .. Buckets - 1 |-> << >>]

Next ==
  \/ part = "table" /\ TableNext /\ UNCHANGED << part, pointVars, listVars, wcVars >>
  \/ part = "points" /\ PointsNext /\ UNCHANGED << part, tableVars, listVars, wcVars >>
  \/ part = "lists" /\ ListsNext /\ UNCHANGED << part, tableVars, pointVars, wcVars >>
  \/ part = "words" /\ wcNext /\ UNCHANGED << part, tableVars, pointVars, listVars >>

Spec == Init /\ [][Next]_allVars

=============================================================================
