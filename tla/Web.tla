-------------------------------- MODULE Web ---------------------------------
(***************************************************************************)
(* The clients and the web server of src/webserver together, as            *)
(* run-one-experiment starts them: one server, and clients that connect to *)
(* it.  Clients and server share nothing but the connections.              *)
(***************************************************************************)
EXTENDS WebClient, WebServer

(* A name that is asked for is served or refused.                           *)
ASSUME WebAssumption ==
  Requests \subseteq [method : STRING, uri : DOMAIN Contents \cup DOMAIN Refused]

allVars == << netVars, clientVars, serverVars >>

Init == NetInit /\ ClientInit /\ ServerInit

Next ==
  \/ \E c \in Clients : (ClientStep(c) \/ client_killed(c)) /\ UNCHANGED serverVars
  \/ ServerStep /\ UNCHANGED clientVars

Spec == Init /\ [][Next]_allVars

(* Every thread goes on while it can; the cache need not drop anything, and *)
(* nobody has to be killed.  Of the worker threads some one takes what is  *)
(* in the pool, as RequestPool shows.                                       *)
Fairness ==
  /\ \A c \in Clients : WF_allVars(ClientStep(c) /\ UNCHANGED serverVars)
  /\ WF_allVars((main_accept \/ server_request) /\ UNCHANGED clientVars)
  /\ WF_allVars((\E w \in Workers : request_stub(w)) /\ UNCHANGED clientVars)
  /\ \A s \in Workers \cup {Main} : WF_allVars(Serve(s) /\ UNCHANGED clientVars)

FairSpec == Spec /\ Fairness

-----------------------------------------------------------------------------
(* Properties *)

Steps == {"idle", "init", "lookup", "readfile", "sendfile", "send", "error", "insert",
          "destroy", "fail", "free", "return"}

Numbers == DOMAIN conn

TypeOK ==
  /\ \A k \in Numbers : conn[k].unread \in BOOLEAN /\ Len(conn[k].request) <= 1
  /\ accepted \in 0 .. Len(conn)
  /\ DOMAIN fdTable \subseteq Nat \ {0} /\ \A f \in DOMAIN fdTable : fdTable[f] \in 1 .. accepted
  /\ at \in [Clients -> {"connect", "send", "receive", "done", "dead"}]
  /\ left \in [Clients -> Nat]
  /\ fd \in [Clients -> Numbers \cup {0}]
  /\ step \in [Workers \cup {Main} -> Steps]
  /\ DOMAIN connfd \subseteq 1 .. accepted
  /\ DOMAIN file_data \subseteq 1 .. accepted
  /\ \A k \in DOMAIN file_data : file_data[k].buf \in {0} \cup 1 .. accepted
  /\ DOMAIN file_buf \subseteq 1 .. accepted
  /\ DOMAIN cache \subseteq DOMAIN Contents

(* The one right answer to a request.                                       *)
Answer(request) ==
  IF request.method # "GET" THEN Response(501, ErrorPage)
  ELSE IF request.uri \in DOMAIN Contents THEN Response(200, Contents[request.uri])
  ELSE Response(Refused[request.uri], ErrorPage)

(* What a client has read of its answer, and what is on its way.            *)
Arriving(c) == received[c] \o conn[fd[c]].response

(* Each client is sent the answer to its own request and nothing else, and  *)
(* the connection is closed behind the whole answer only, whichever thread  *)
(* serves it and whatever descriptors and buffers are used again meanwhile. *)
(* It takes the end of the server to cut an answer short, or a request that *)
(* the server did not read to its end.                                      *)
AnswersTheAsker ==
  \A c \in Clients :
    at[c] = "receive" =>
      /\ IsPrefix(Arriving(c), Answer(asked[c]))
      /\ AtEnd(fd[c]) /\ up /\ asked[c].method = "GET" => received[c] = Answer(asked[c])

(* While the server runs, every open descriptor belongs to one connection   *)
(* in hand, and no connection that the server still has in hand has lost   *)
(* its descriptor before its handler closed it.                             *)
DescriptorsHeldOnce ==
  up =>
    /\ \A k \in 1 .. accepted \ DOMAIN connfd : k \notin Range(fdTable)
    /\ \A s \in Workers \cup {Main} :
         serving[s] # 0 =>
           (step[s] \in {"free", "return"} <=> serving[s] \notin Range(fdTable))
    /\ \A k \in DOMAIN connfd :
         k \in Range(fdTable) => connfd[k] \in DOMAIN fdTable /\ fdTable[connfd[k]] = k

(* The memory of a request: the cache and those who send a file always find *)
(* the file's bytes in an allocated buffer, though requests share it and    *)
(* blocks are dropped; and without a cache nothing stays allocated once its *)
(* request was served.                                                      *)
Holds(k, n) ==
  /\ k \in DOMAIN file_data
  /\ file_data[k].name = n
  /\ IF file_data[k].buf = 0 THEN Contents[n] = << >>
     ELSE file_data[k].buf \in DOMAIN file_buf /\ file_buf[file_data[k].buf] = Contents[n]

FileDataLives ==
  up =>
    /\ \A n \in DOMAIN cache : Holds(cache[n], n)
    /\ \A s \in Workers \cup {Main} :
         step[s] \in {"sendfile", "send", "insert"} => Holds(serving[s], Data(s).name)
    /\ ~UsesCache => DOMAIN file_data \cup DOMAIN file_buf \subseteq Range(serving)

(* Every client gets all its answers, unless a process is killed.           *)
EveryoneIsAnswered == <>(killed > 0 \/ \A c \in Clients : at[c] = "done")

=============================================================================
