------------------------------ MODULE Sockets -------------------------------
(***************************************************************************)
(* The connections between the programs of src/webserver: TCP as the       *)
(* functions of common.c use it.                                           *)
(*                                                                         *)
(* A connection carries one request and one response.  A response is a     *)
(* sequence of a header and then the bytes of the body; the lines of the   *)
(* header that nobody reads are left out.  The server knows a connection   *)
(* by a descriptor, a small number that the system gives out again as soon *)
(* as it was closed; a client closes its descriptor in the function that   *)
(* opened it, and its number is left out.                                  *)
(***************************************************************************)
EXTENDS Integers, Sequences, FiniteSets, SequencesExt, FiniteSetsExt, Functions

CONSTANTS
  Contents,  \* Contents[n]: the bytes of file n, for the files there are
  UINT       \* where an unsigned int begins again with 0

ASSUME FilesAssumption ==
  /\ UINT \in Nat \ {0}
  /\ \A n \in DOMAIN Contents : Contents[n] \in Seq(0 .. 255)

VARIABLES
  conn,      \* the connections, in the order in which clients opened them
  fdTable,   \* the server's open descriptors: the connection of each
  accepted,  \* how many connections the server accepted
  up         \* whether the server program runs

netVars == << conn, fdTable, accepted, up >>

(* The request line; the header lines behind it say nothing new.           *)
Request(method, uri) == [method |-> method, uri |-> uri]

(* The sum of the bytes, an unsigned int, which both sides compute.         *)
Csum(bytes) == FoldLeft(+, 0, bytes) % UINT

Header(status, body) ==
  [status |-> status, length |-> Len(body), csum |-> Csum(body)]

Response(status, body) ==
  << Header(status, body) >> \o [i \in DOMAIN body |-> [byte |-> body[i]]]

NewConnection ==
  [request  |-> << >>,      \* the request line that was sent and not read
   unread   |-> FALSE,      \* whether there is input that the server has not read
   response |-> << >>,      \* what the server wrote and the client has not read
   peer     |-> TRUE,       \* whether the client's side is open
   served   |-> TRUE]       \* whether the server's side is open

NetInit ==
  /\ conn = << >>
  /\ fdTable = << >>
  /\ accepted = 0
  /\ up = TRUE

-----------------------------------------------------------------------------
(* The client's side *)

open_clientfd ==
  /\ up
  /\ conn' = Append(conn, NewConnection)
  /\ UNCHANGED << fdTable, accepted, up >>

SendRequest(k, request) ==
  /\ conn' = [conn EXCEPT ![k].request = << request >>, ![k].unread = TRUE]
  /\ UNCHANGED << fdTable, accepted, up >>

(* read on the client's side: something to read, or the end of the stream. *)
Readable(k) == conn[k].response # << >>
AtEnd(k) == conn[k].response = << >> /\ ~conn[k].served

ReadResponse(k) ==
  /\ conn' = [conn EXCEPT ![k].response = Tail(@)]
  /\ UNCHANGED << fdTable, accepted, up >>

(* The connections conns are closed on the client's side.                  *)
ClientCloses(conns) ==
  /\ conn' = [k \in DOMAIN conn |->
                IF k \in conns THEN [conn[k] EXCEPT !.peer = FALSE, !.response = << >>]
                ELSE conn[k]]
  /\ UNCHANGED << fdTable, accepted, up >>

-----------------------------------------------------------------------------
(* The server's side *)

LowestFree(used) == Min((1 .. Cardinality(used) + 1) \ used)

(* accept takes the connection that has waited longest in the backlog.     *)
NewDescriptor == LowestFree(DOMAIN fdTable)

accept ==
  /\ accepted < Len(conn)
  /\ accepted' = accepted + 1
  /\ fdTable' = [fd \in DOMAIN fdTable \cup {NewDescriptor} |->
                   IF fd = NewDescriptor THEN accepted + 1 ELSE fdTable[fd]]
  /\ UNCHANGED << conn, up >>

(* The end of the server program closes every connection, also those that  *)
(* were not accepted yet.                                                  *)
ServerEnds ==
  /\ up' = FALSE
  /\ fdTable' = << >>
  /\ conn' = [k \in DOMAIN conn |-> [conn[k] EXCEPT !.served = FALSE]]
  /\ UNCHANGED accepted

(* A round of rio_write: write takes as much as it likes of what is left.   *)
(* When the client is gone it may still take it, or end the program, by a   *)
(* signal or by an error that Rio_write does not survive.                  *)
rio_write(fd, bytes, n) ==
  LET k == fdTable[fd] IN
  \/ /\ conn' = IF conn[k].peer
                THEN [conn EXCEPT ![k].response = @ \o SubSeq(bytes, 1, n)]
                ELSE conn
     /\ UNCHANGED << fdTable, accepted, up >>
  \/ /\ ~conn[k].peer
     /\ ServerEnds

(* Closing a connection with unread input resets it: the client may lose   *)
(* what it has not read yet.                                               *)
Delivered(k) == IF conn[k].unread THEN Prefixes(conn[k].response) ELSE {conn[k].response}

Close(fd) ==
  LET k == fdTable[fd] IN
  /\ \E rest \in Delivered(k) :
       conn' = [conn EXCEPT ![k].served = FALSE, ![k].response = rest]
  /\ fdTable' = [f \in DOMAIN fdTable \ {fd} |-> fdTable[f]]
  /\ UNCHANGED << accepted, up >>

=============================================================================
