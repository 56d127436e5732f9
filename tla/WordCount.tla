----------------------------- MODULE WordCount ------------------------------
(***************************************************************************)
(* The word counter of src/warmup/wc.c: wc_init cuts a text into words and *)
(* counts them in a hash table, wc_output walks the table.                 *)
(*                                                                         *)
(* The table of wc.c is an older copy of the one in HashTable.  Its first  *)
(* buffer has 2^30 buckets and grows at 2^29 pairs; a text is counted with *)
(* an int and has room for fewer than 2^24 words of up to three characters *)
(* and for no 2^29 longer ones, so the table never grows and the second    *)
(* buffer stays NULL.  How a table grows is the matter of HashTable.       *)
(***************************************************************************)
EXTENDS Integers, Sequences, SequencesExt, FiniteSets, FiniteSetsExt

CONSTANTS
  Texts,     \* the texts, as sequences of character codes
  Buckets,   \* HASHTABLE_INCREMENTSIZE, a power of two
  Seed       \* the first value of a hash, in the low bits that matter

ASSUME WordCountAssumption ==
  /\ Buckets \in Nat \ {0} /\ Seed \in 0 .. Buckets - 1
  /\ Texts \subseteq Seq(1 .. 127)

VARIABLES
  text,            \* word_array, without the zero at its end
  counter,         \* the loop of wc_init, counting characters from 1
  word_size,
  source_pointer,  \* where the current word begins
  table            \* the buckets: their words with their counts

wcVars == << text, counter, word_size, source_pointer, table >>

(* isspace: tab, line feed, vertical tab, form feed, return and space.      *)
isspace(c) == c \in {9, 10, 11, 12, 13, 32}

wc_new ==
  /\ text \in Texts
  /\ counter = 1
  /\ word_size = 0
  /\ source_pointer = 1
  /\ table = [b \in 0 .. Buckets - 1 |-> << >>]

-----------------------------------------------------------------------------
(* The table *)

HashTable_strHash(str) ==
  FoldLeft(LAMBDA key, c : (33 * key + c) % Buckets, Seed, str)

(* The places in a bucket where the word stands. *)
Found(str) ==
  LET bucket == table[HashTable_strHash(str)]
  IN  {n \in DOMAIN bucket : bucket[n].word = str}

CountedAgain_last(str) ==              \* mutant: the pair at the end of the bucket
  [table EXCEPT ![HashTable_strHash(str)][Len(table[HashTable_strHash(str)])].count = @ + 1]

CountedAgain(str) ==
  [table EXCEPT ![HashTable_strHash(str)][Min(Found(str))].count = @ + 1]

Inserted(str) ==
  [table EXCEPT ![HashTable_strHash(str)] = Append(@, [word |-> str, count |-> 1])]

-----------------------------------------------------------------------------
(* wc_init *)

Word == SubSeq(text, source_pointer, source_pointer + word_size - 1)

(* A space ends a word; the next one begins behind the spaces that follow. *)
wc_space ==
  /\ counter <= Len(text) /\ isspace(text[counter])
  /\ table' = IF Word = << >> THEN table
              ELSE IF Found(Word) = {} THEN Inserted(Word) ELSE CountedAgain(Word)
  /\ source_pointer' = Min({n \in counter + 1 .. Len(text) + 1 :
                              n = Len(text) + 1 \/ ~isspace(text[n])})
  /\ word_size' = 0
  /\ counter' = counter + 1
  /\ UNCHANGED text

wc_letter ==
  /\ counter <= Len(text) /\ ~isspace(text[counter])
  /\ word_size' = word_size + 1
  /\ counter' = counter + 1
  /\ UNCHANGED << text, source_pointer, table >>

wcNext == wc_space \/ wc_letter

(* The lines that wc_output prints, bucket by bucket. *)
wc_output == FlattenSeq([b \in 1 .. Buckets |-> table[b - 1]])

-----------------------------------------------------------------------------
(* The words of a text by their places: no space in them, none missing.     *)
WordPlaces(t) ==
  {<< i, j >> \in (DOMAIN t) \X (DOMAIN t) :
     /\ i <= j
     /\ \A n \in i .. j : ~isspace(t[n])
     /\ i = 1 \/ isspace(t[i - 1])
     /\ j = Len(t) \/ isspace(t[j + 1])}

Occurrences(w, t) == Cardinality({pl \in WordPlaces(t) : SubSeq(t, pl[1], pl[2]) = w})

(* The output has one line for each word of t, with the number of its       *)
(* places.                                                                  *)
CountsWordsOf(t) ==
  LET words == {SubSeq(t, pl[1], pl[2]) : pl \in WordPlaces(t)}
  IN  /\ Len(wc_output) = Cardinality(words)
      /\ ToSet(wc_output) = {[word |-> w, count |-> Occurrences(w, t)] : w \in words}

(* At every character the output would count the words of the text up to    *)
(* the last space that was read, whatever words share a bucket and however  *)
(* many spaces part them.  What stands behind that space is not counted.    *)
WordsBeforeSpacesAreCounted ==
  CountsWordsOf(SubSeq(text, 1, Max({0} \cup {n \in 1 .. counter - 1 : isspace(text[n])})))

-----------------------------------------------------------------------------
(* What wc.h promises and the code does not do: a run that TLC refutes.     *)

(* wc_init is to "parse this array for words" which are "separated by       *)
(* spaces" (wc.h:13-14), and the output consists of the words and "a count  *)
(* of the number of times each word has been seen" (wc.h:19-21).            *)
EveryWordIsCounted == counter > Len(text) => CountsWordsOf(text)

=============================================================================
