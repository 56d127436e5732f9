----------------------------- MODULE MCFileCache -----------------------------
(* The instance of FileCache for TLC.  Of a total of 8, files below 4 are   *)
(* cached, so two of the bigger ones fit.  One file is empty at times, and  *)
(* one is at times too big.                                                 *)
EXTENDS FileCache, TLC

CONSTANTS a, b, c

SomeFiles == {a, b, c}
SomeSizes == (a :> {0, 3}) @@ (b :> {3}) @@ (c :> {3, 4})

=============================================================================
