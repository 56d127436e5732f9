------------------------------- MODULE MCWeb --------------------------------
(* The instance of Web for TLC. *)
EXTENDS Web, TLC

CONSTANTS c1, c2, c3, w1, w2

(* Two threads of one client process, and another client: a thread that    *)
(* asks twice beside the other client, or both threads.                    *)
SomeProcesses == (c1 :> "client") @@ (c2 :> "client") @@ (c3 :> "other")

SomeLoads ==
  {(c1 :> 2) @@ (c2 :> 0) @@ (c3 :> 1), (c1 :> 1) @@ (c2 :> 1) @@ (c3 :> 0)}

SomeContents == ("a" :> << 200, 100 >>) @@ ("empty" :> << >>)

SomeRefused == ("dir" :> 403)

SomeRequests == {Request("GET", "empty"), Request("GET", "dir"), Request("POST", "a")}

=============================================================================
