----------------------------- MODULE WebClient ------------------------------
(***************************************************************************)
(* The clients of the web server: src/webserver/client.c, whose threads    *)
(* each ask nr_times for a file of the file set that fileset.c has made,   *)
(* and any other clients, client_simple.c among them, which ask for        *)
(* whatever they like.                                                     *)
(*                                                                         *)
(* client.c knows the length and the checksum of every file and asserts    *)
(* that what it received has them.  A failed assertion ends the process    *)
(* with all its threads.                                                   *)
(***************************************************************************)
EXTENDS Sockets

CONSTANTS
  Clients,     \* the threads of client.c and the other clients
  Process,     \* Process[c]: the process that c is a thread of
  Others,      \* the clients that are not client.c
  FileSet,     \* the names that fileset.c has put into the index
  Requests,    \* the requests that other clients make
  Loads,       \* how many requests the clients make: one of these functions
  MaxKills     \* bound: how many client processes are killed

ASSUME ClientAssumption ==
  /\ IsFiniteSet(Clients) /\ Others \subseteq Clients
  /\ FileSet # {} /\ FileSet \subseteq DOMAIN Contents
  /\ Loads \subseteq [Clients -> Nat] /\ MaxKills \in Nat

VARIABLES
  at,        \* connect, send, receive, done or dead
  left,      \* how many requests the client still makes
  fd,        \* its connection
  asked,     \* what it asked for
  received,  \* what client_print has read so far
  killed     \* how many processes were killed

clientVars == << at, left, fd, asked, received, killed >>

NoRequest == Request("", "")

ClientInit ==
  /\ left \in Loads
  /\ at = [c \in Clients |-> IF left[c] = 0 THEN "done" ELSE "connect"]
  /\ fd = [c \in Clients |-> 0]
  /\ asked = [c \in Clients |-> NoRequest]
  /\ received = [c \in Clients |-> << >>]
  /\ killed = 0

-----------------------------------------------------------------------------
(* The line of the index that fileset.c wrote and init_fileset has read.   *)
fileset(n) == [csum |-> Csum(Contents[n]), len |-> Len(Contents[n])]

(* client_print: what it took from the header, zeros if it saw none, and  *)
(* what it counted in the body.                                             *)
HeaderSeen(c) == IF received[c] = << >> THEN Header(0, << >>) ELSE received[c][1]
BodySeen(c) == [i \in 1 .. Len(received[c]) - 1 |-> received[c][i + 1].byte]

(* Only client_simple, which sends GET, has an assertion among the others. *)
AssertionsHold(c) ==
  LET length == HeaderSeen(c).length
      csum == HeaderSeen(c).csum
      whole == length = Len(BodySeen(c))
  IN  IF c \in Others
      THEN length # 0 /\ asked[c].method = "GET" => whole
      ELSE /\ fileset(asked[c].uri) = [csum |-> csum, len |-> length]
           /\ whole
           /\ csum = Csum(BodySeen(c))

-----------------------------------------------------------------------------
client_connect(c) ==
  /\ at[c] = "connect"
  /\ open_clientfd
  /\ at' = [at EXCEPT ![c] = "send"]
  /\ fd' = [fd EXCEPT ![c] = Len(conn) + 1]
  /\ UNCHANGED << left, asked, received, killed >>

(* rand_self_similar_int gives the number of some file of the file set.    *)
MayAsk(c) == IF c \in Others THEN Requests ELSE {Request("GET", n) : n \in FileSet}

client_send(c) ==
  /\ at[c] = "send"
  /\ \E request \in MayAsk(c) :
       /\ SendRequest(fd[c], request)
       /\ asked' = [asked EXCEPT ![c] = request]
  /\ at' = [at EXCEPT ![c] = "receive"]
  /\ UNCHANGED << left, fd, received, killed >>

client_read(c) ==
  /\ at[c] = "receive" /\ Readable(fd[c])
  /\ ReadResponse(fd[c])
  /\ received' = [received EXCEPT ![c] = Append(@, Head(conn[fd[c]].response))]
  /\ UNCHANGED << at, left, fd, asked, killed >>

(* The threads of a process and what they had in hand are gone.            *)
Threads(p) == {c \in Clients : Process[c] = p /\ at[c] # "done"}

ProcessEnds(p) ==
  /\ ClientCloses({fd[c] : c \in Threads(p)})
  /\ at' = [c \in Clients |-> IF c \in Threads(p) THEN "dead" ELSE at[c]]
  /\ received' = [c \in Clients |-> IF c \in Threads(p) THEN << >> ELSE received[c]]
  /\ asked' = [c \in Clients |-> IF c \in Threads(p) THEN NoRequest ELSE asked[c]]
  /\ UNCHANGED << left, fd >>

(* Mutant: the loop over nr_times makes one request more.                   *)
client_close_offByOne(c) ==
  /\ at[c] = "receive" /\ AtEnd(fd[c])
  /\ AssertionsHold(c)
  /\ ClientCloses({fd[c]})
  /\ left' = [left EXCEPT ![c] = @ - 1]
  /\ at' = [at EXCEPT ![c] = IF left[c] >= 0 THEN "connect" ELSE "done"]
  /\ fd' = [fd EXCEPT ![c] = 0]
  /\ asked' = [asked EXCEPT ![c] = NoRequest]
  /\ received' = [received EXCEPT ![c] = << >>]
  /\ UNCHANGED killed

(* The end of the response.                                                *)
client_close(c) ==
  /\ at[c] = "receive" /\ AtEnd(fd[c])
  /\ AssertionsHold(c)
  /\ ClientCloses({fd[c]})
  /\ left' = [left EXCEPT ![c] = @ - 1]
  /\ at' = [at EXCEPT ![c] = IF left[c] > 1 THEN "connect" ELSE "done"]
  /\ fd' = [fd EXCEPT ![c] = 0]
  /\ asked' = [asked EXCEPT ![c] = NoRequest]
  /\ received' = [received EXCEPT ![c] = << >>]
  /\ UNCHANGED killed

client_aborts(c) ==
  /\ at[c] = "receive" /\ AtEnd(fd[c])
  /\ ~AssertionsHold(c)
  /\ ProcessEnds(Process[c])
  /\ UNCHANGED killed

(* Without a server connect, write and read may fail, which ends a client. *)
client_fails(c) ==
  /\ ~up /\ at[c] \in {"connect", "send", "receive"}
  /\ ProcessEnds(Process[c])
  /\ UNCHANGED killed

(* A process is killed while it waits for an answer.                       *)
client_killed(c) ==
  /\ killed < MaxKills
  /\ killed' = killed + 1
  /\ at[c] = "receive"
  /\ \A d \in Threads(Process[c]) : at[d] # "send"
  /\ ProcessEnds(Process[c])

ClientStep(c) ==
  \/ client_connect(c) \/ client_send(c) \/ client_read(c) \/ client_close(c)
  \/ client_aborts(c) \/ client_fails(c)

=============================================================================
