------------------------------ MODULE WebProofs ------------------------------
(***************************************************************************)
(* What Web guarantees for every number of clients, worker threads and     *)
(* files: each client is sent the answer to its own request, descriptors   *)
(* are not mixed up, and file data live as long as they are needed.        *)
(*                                                                         *)
(* The invariant has a part for each of these, and one that says where a   *)
(* connection is: in the backlog, accepted, in the pool, with one thread,  *)
(* or done with.  Each step is shown to keep each part.                    *)
(***************************************************************************)
EXTENDS Web, SequenceFacts

-----------------------------------------------------------------------------
(* Types, those of the records included                                     *)

T == Workers \cup {Main}

(* What a client may ask, and the names it may ask for.                     *)
Lines == Requests \cup {Request("GET", n) : n \in FileSet}
Names == DOMAIN Contents \cup DOMAIN Refused

(* The responses that there are, and what they are made of.                 *)
Answers == {Response(200, Contents[n]) : n \in DOMAIN Contents}
             \cup {Response(Refused[n], ErrorPage) : n \in DOMAIN Refused}
             \cup {Response(501, ErrorPage)}
Pieces == UNION {ToSet(a) : a \in Answers}

Conns == [request : {<< >>} \cup {<< r >> : r \in Lines}, unread : BOOLEAN,
          response : Seq(Pieces), peer : BOOLEAN, served : BOOLEAN]

NetType ==
  /\ conn \in Seq(Conns)
  /\ accepted \in 0 .. Len(conn)
  /\ fdTable \in [DOMAIN fdTable -> 1 .. accepted]
  /\ IsFiniteSet(DOMAIN fdTable) /\ DOMAIN fdTable \subseteq Nat \ {0}
  /\ up \in BOOLEAN

ClientType ==
  /\ at \in [Clients -> {"connect", "send", "receive", "done", "dead"}]
  /\ left \in [Clients -> Nat]
  /\ fd \in [Clients -> 0 .. Len(conn)]
  /\ asked \in [Clients -> Lines \cup {NoRequest}]
  /\ received \in [Clients -> Seq(Pieces)]

PoolType ==
  /\ arrived \in Nat
  /\ queue \in Seq(1 .. arrived)
  /\ serving \in [T -> 0 .. arrived]
  /\ done \subseteq 1 .. arrived
  /\ step \in [T -> Steps]
  /\ connfd \in [DOMAIN connfd -> Nat \ {0}]

MemType ==
  /\ out \in [T -> Seq(Pieces)]
  /\ file_data \in [DOMAIN file_data -> [name : Names, buf : Nat]]
  /\ cache \in [DOMAIN cache -> Nat]

-----------------------------------------------------------------------------
(* Where each connection is: accepted, in the pool, with one thread, done.  *)

PoolInv ==
  /\ PoolType
  /\ accepted \in {arrived, arrived + 1}
  /\ accepted > arrived /\ nr_threads = {} => serving[Main] = 0
  /\ \A s \in T : serving[s] # 0 <=> step[s] # "idle"
  /\ \A s, t \in T : serving[s] # 0 /\ serving[s] = serving[t] => s = t
  /\ \A s \in T : serving[s] \notin ToSet(queue) \cup done
  /\ Once(queue) /\ ToSet(queue) \cap done = {}
  /\ DOMAIN connfd = 1 .. accepted \ done

(* Thread s has closed the connection that it serves.                       *)
Closed(s) == step[s] \in {"free", "return"}

DescInv ==
  up =>
    /\ \A f \in DOMAIN fdTable : fdTable[f] \in DOMAIN connfd /\ connfd[fdTable[f]] = f
    /\ \A s \in T : Closed(s) => \A f \in DOMAIN fdTable : fdTable[f] # serving[s]
    /\ \A k \in DOMAIN connfd :
         (\A s \in T : serving[s] = k => ~Closed(s))
           => connfd[k] \in DOMAIN fdTable /\ fdTable[connfd[k]] = k

-----------------------------------------------------------------------------
(* Memory *)

(* The buffer that file data k has, if any, holds the file.                 *)
BufferOK(k) ==
  LET d == file_data[k] IN
  d.buf # 0 => /\ d.buf \in DOMAIN file_buf /\ d.name \in DOMAIN Contents
               /\ file_buf[d.buf] = Contents[d.name]

(* The file data k can be sent.                                             *)
Whole(k) ==
  /\ k \in DOMAIN file_data /\ file_data[k].name \in DOMAIN Contents
  /\ file_data[k].buf = 0 => Contents[file_data[k].name] = << >>

(* Connection k is done with, or with a thread that is not at one of these  *)
(* steps.                                                                   *)
Past(k, steps) == k \in done \/ \E s \in T : serving[s] = k /\ step[s] \notin steps

ThreadMemory(s) ==
  /\ step[s] \notin {"idle", "init"} => serving[s] \in DOMAIN file_data
  /\ step[s] \in {"lookup", "readfile", "error", "fail"} => Data(s).buf = 0
  /\ step[s] = "free" /\ UsesCache => Data(s).buf = 0
  /\ step[s] \in {"sendfile", "send", "insert"} => Whole(serving[s])
  /\ step[s] \in {"lookup", "insert", "return"} => UsesCache

CacheMemory(n) ==
  /\ UsesCache /\ Whole(cache[n]) /\ file_data[cache[n]].name = n
  /\ \A s \in T : serving[s] = cache[n] => step[s] \in {"idle", "destroy", "return"}

MemInv ==
  /\ MemType
  /\ \A k \in DOMAIN file_data : BufferOK(k) /\ Past(k, {"idle", "init"})
  /\ \A b \in DOMAIN file_buf : Past(b, {"idle", "init", "lookup", "readfile"})
  /\ \A s \in T : ThreadMemory(s)
  /\ \A n \in DOMAIN cache : CacheMemory(n)
  /\ ~UsesCache =>
       /\ \A k \in DOMAIN file_data : file_data[k].buf \in {0, k} /\ k \notin done
       /\ \A b \in DOMAIN file_buf : b \in DOMAIN file_data /\ file_data[b].buf = b

-----------------------------------------------------------------------------
(* Clients and their answers *)

Live(c) == at[c] \in {"send", "receive"}

ClientInv ==
  /\ ClientType
  /\ \A c \in Clients :
       /\ at[c] \in {"connect", "send", "receive"} => left[c] > 0
       /\ Live(c) => fd[c] # 0
       /\ at[c] = "connect" => received[c] = << >>
  /\ \A c, d \in Clients : fd[c] # 0 /\ fd[c] = fd[d] => c = d

Begun(k) == Past(k, {"idle", "init"})

(* What is still to be written for the client c of thread s.                *)
Reply(c, s) ==
  LET k == fd[c]
      get == asked[c].method = "GET"
  IN
  /\ file_data[k].name = asked[c].uri
  /\ step[s] \in {"lookup", "readfile", "sendfile"} => get /\ Arriving(c) = << >>
  /\ step[s] = "send" => get
  /\ up =>
       /\ step[s] \in {"send", "error"} => Arriving(c) \o out[s] = Answer(asked[c])
       /\ step[s] \in {"insert", "destroy", "fail"} => Arriving(c) = Answer(asked[c])
       /\ ~Closed(s) => conn[k].served /\ (get => ~conn[k].unread)
       /\ Closed(s) /\ get => Arriving(c) = Answer(asked[c])

ClientOK(c) ==
  LET k == fd[c] IN
  /\ conn[k].peer
  /\ at[c] = "send" => ~Begun(k)
  /\ at[c] = "receive" => asked[c] \in Lines
  /\ ~Begun(k) => /\ Arriving(c) = << >>
                  /\ conn[k].request = IF at[c] = "send" THEN << >> ELSE << asked[c] >>
                  /\ up => conn[k].served
  /\ Begun(k) => /\ IsPrefix(Arriving(c), Answer(asked[c]))
                 /\ up /\ k \in done /\ asked[c].method = "GET" => Arriving(c) = Answer(asked[c])
                 /\ \A s \in T : serving[s] = k => Reply(c, s)

AnswersInv == \A c \in Clients : Live(c) => ClientOK(c)

WebInv == NetType /\ PoolInv /\ DescInv /\ MemInv /\ ClientInv /\ AnswersInv

-----------------------------------------------------------------------------
(* Requests and answers                                                     *)

(* Pieces of responses may be joined in any order of joining.               *)
LEMMA PiecesAssociate ==
  \A a, b, c \in Seq(Pieces) : (a \o b) \o c = a \o (b \o c)
BY ConcatAssociative

(* A response is a sequence that is not empty.                              *)
LEMMA ResponseSeq ==
  ASSUME NEW status, NEW body \in Seq(0 .. 255)
  PROVE  /\ Response(status, body) \in Seq(ToSet(Response(status, body)))
         /\ Response(status, body) # << >>
<1> DEFINE h == << Header(status, body) >>
           t == [i \in DOMAIN body |-> [byte |-> body[i]]]
           S == {Header(status, body)} \cup [byte : 0 .. 255]
<1>1. h \in Seq(S) /\ h # << >>
      OBVIOUS
<1>2. t \in Seq(S)
  <2>1. Len(body) \in Nat /\ DOMAIN body = 1 .. Len(body) /\ \A i \in 1 .. Len(body) : body[i] \in 0 .. 255
        BY LenProperties, ElementOfSeq
  <2>2. \A i \in 1 .. Len(body) : [byte |-> body[i]] \in S
        BY <2>1
  <2> HIDE DEF S
  <2>3. t \in [1 .. Len(body) -> S]
        BY <2>1, <2>2
  <2>. QED  BY <2>1, <2>3, SeqDef
<1> DEFINE r == h \o t
<1> HIDE DEF h, t, S
<1>3. r \in Seq(S) /\ r # << >>
  <2>1. r \in Seq(S)
        BY <1>1, <1>2, ConcatProperties
  <2>. QED  BY <1>1, <1>2, <2>1, ConcatEqualIffEmpty
<1>4. r = Response(status, body)
      BY DEF h, t, Response
<1> HIDE DEF r
<1>5. r \in Seq(ToSet(r))
  <2>1. Len(r) \in Nat /\ DOMAIN r = 1 .. Len(r) /\ r \in [1 .. Len(r) -> S]
        BY <1>3, LenProperties
  <2>2. r \in [1 .. Len(r) -> ToSet(r)]
        BY <2>1 DEF ToSet
  <2>. QED  BY <2>1, <2>2, SeqDef
<1>. QED  BY <1>3, <1>4, <1>5

(* Every answer is made of the pieces of answers.                           *)
LEMMA AnswersSeq ==
  ASSUME NEW a \in Answers
  PROVE  a \in Seq(Pieces) /\ a # << >>
<1>1. ErrorPage \in Seq(0 .. 255)
      BY DEF ErrorPage
<1>2. a \in Seq(ToSet(a)) /\ a # << >>
      BY <1>1, ResponseSeq, FilesAssumption DEF Answers
<1>3. ToSet(a) \subseteq Pieces
      BY DEF Pieces
<1>. QED  BY <1>2, <1>3, SeqMonotonic

(* Whatever a client asks has an answer.                                    *)
LEMMA AnswerExists ==
  ASSUME NEW r \in Lines
  PROVE  /\ Answer(r) \in Answers /\ Answer(r) \in Seq(Pieces) /\ Answer(r) # << >>
         /\ r.uri \in Names
<1>1. r.uri \in Names
      BY ClientAssumption, WebAssumption DEF Lines, Names, Request
<1>2. Answer(r) \in Answers
      BY <1>1 DEF Answer, Answers, Names
<1>. QED  BY <1>1, <1>2, AnswersSeq

(* What the handler makes the response of: file n, or an error.             *)
LEMMA AnswerParts ==
  ASSUME NEW r \in Lines
  PROVE  /\ r.method # "GET" => Answer(r) = Response(501, ErrorPage)
         /\ r.method = "GET" /\ r.uri \in DOMAIN Contents
              => Answer(r) = Response(200, Contents[r.uri])
         /\ r.method = "GET" /\ r.uri \notin DOMAIN Contents
              => Answer(r) = Response(Refused[r.uri], ErrorPage)
         /\ Response(501, ErrorPage) \in Seq(Pieces)
<1>1. Response(501, ErrorPage) \in Answers
      BY DEF Answers
<1>. QED  BY <1>1, AnswersSeq DEF Answer

(* The system gives out a descriptor that is not open.                      *)
LEMMA LowestFreeIsFree ==
  ASSUME NEW D, IsFiniteSet(D)
  PROVE  LowestFree(D) \in Nat \ {0} /\ LowestFree(D) \notin D
<1> DEFINE R == 1 .. Cardinality(D) + 1
           F == R \ D
<1>1. Cardinality(D) \in Nat /\ Cardinality(R) = Cardinality(D) + 1
      BY FS_CardinalityType, FS_Interval
<1>2. F # {} /\ F \in SUBSET Nat
  <2>1. ~(R \subseteq D)
        BY <1>1, FS_Subset
  <2>. QED  BY <2>1
<1> HIDE DEF F
<1>3. Min(F) \in F
  <2>1. \E x \in F : \A y \in F : x <= y
        BY <1>2, LeastNumber
  <2>. QED  BY <2>1 DEF Min
<1>. QED  BY <1>3 DEF F, LowestFree

-----------------------------------------------------------------------------
(* Where the connections are                                                *)

(* Thread s goes from one step to another one and keeps its connection.     *)
Goes(s) ==
  /\ step[s] # "idle"
  /\ \E there \in Steps \ {"idle"} : Goto(s, there)
  /\ UNCHANGED << poolVars, config, connfd, accepted >>

(* A thread at work has a connection that was accepted and is not done, and *)
(* that no other thread has.                                                *)
LEMMA ThreadHas ==
  ASSUME PoolInv, NEW s \in T, step[s] # "idle"
  PROVE  /\ serving[s] \in 1 .. arrived /\ serving[s] \in 1 .. accepted
         /\ serving[s] \in DOMAIN connfd
         /\ serving[s] \notin done /\ serving[s] \notin ToSet(queue)
         /\ \A t \in T \ {s} : serving[t] # serving[s]
<1>1. /\ serving[s] \in 0 .. arrived /\ serving[s] # 0 /\ arrived \in Nat
      /\ accepted \in {arrived, arrived + 1} /\ DOMAIN connfd = 1 .. accepted \ done
      /\ serving[s] \notin ToSet(queue) \cup done
      BY DEF PoolInv, PoolType
<1>2. \A t \in T \ {s} : serving[t] # serving[s]
      BY <1>1 DEF PoolInv
<1>. QED  BY <1>1, <1>2

(* A connection is accepted.                                                *)
LEMMA PoolAccept ==
  ASSUME PoolInv, NetType, main_accept
  PROVE  PoolInv'
<1>1. /\ accepted' = accepted + 1 /\ accepted = arrived /\ arrived \in Nat
      /\ UNCHANGED << poolVars, config, step >>
      /\ nr_threads = {} => serving[Main] = 0
      BY DEF main_accept, accept, PoolInv, PoolType
<1>2. connfd' = With(connfd, accepted + 1, NewDescriptor) /\ NewDescriptor \in Nat \ {0}
  <2>1. connfd' = With(connfd, accepted + 1, NewDescriptor)
        BY DEF main_accept
  <2>. QED  BY <2>1, LowestFreeIsFree DEF NewDescriptor, NetType
<1> HIDE DEF NewDescriptor
<1>3. /\ DOMAIN connfd' = DOMAIN connfd \cup {accepted + 1}
      /\ connfd' \in [DOMAIN connfd' -> Nat \ {0}]
      BY <1>2 DEF With, PoolInv, PoolType
<1>4. DOMAIN connfd' = 1 .. accepted' \ done
      BY <1>1, <1>3 DEF PoolInv, PoolType
<1>. QED  BY <1>1, <1>3, <1>4 DEF PoolInv, PoolType, poolVars, config

(* The main thread puts a connection into the pool or serves it.            *)
LEMMA PoolArrive ==
  ASSUME PoolInv, server_request
  PROVE  PoolInv'
<1>1. /\ accepted = arrived + 1 /\ arrived \in Nat
      /\ UNCHANGED << connfd, accepted, done >> /\ nr_threads' = nr_threads
      BY DEF server_request, PoolInv, PoolType, netVars, config, Pool!Arrive
<1>2. CASE Pool!Arrive /\ nr_threads # {} /\ UNCHANGED step
  <2>1. arrived' = arrived + 1 /\ queue' = Append(queue, arrived + 1) /\ serving' = serving
        BY <1>2 DEF Pool!Arrive
  <2>2. queue \in Seq(1 .. arrived + 1) /\ arrived + 1 \in 1 .. arrived + 1
    <3>1. 1 .. arrived \subseteq 1 .. arrived + 1
          BY <1>1
    <3>. QED  BY <1>1, <3>1, SeqMonotonic DEF PoolInv, PoolType
  <2>3. ToSet(queue) \subseteq 1 .. arrived
        BY ToSetOfSeq DEF PoolInv, PoolType
  <2>4. /\ queue' \in Seq(1 .. arrived') /\ Once(queue')
        /\ ToSet(queue') = ToSet(queue) \cup {arrived + 1}
        BY <1>1, <2>1, <2>2, <2>3, AppendOnce DEF PoolInv
  <2>. QED  BY <1>1, <1>2, <2>1, <2>3, <2>4 DEF PoolInv, PoolType
<1>3. CASE /\ nr_threads = {} /\ arrived' = accepted
           /\ serving' = [serving EXCEPT ![Main] = accepted]
           /\ Goto(Main, "init") /\ UNCHANGED << queue, done >>
  <2>1. 1 .. arrived \subseteq 1 .. arrived' /\ 0 .. arrived \subseteq 0 .. arrived'
        /\ arrived' = arrived + 1
        BY <1>1, <1>3
  <2>2. queue' \in Seq(1 .. arrived')
        BY <1>3, <2>1, SeqMonotonic DEF PoolInv, PoolType
  <2>3. ToSet(queue) \subseteq 1 .. arrived
        BY ToSetOfSeq DEF PoolInv, PoolType
  <2>4. Main \in T /\ serving[Main] = 0 /\ step[Main] = "idle"
        BY <1>1, <1>3 DEF PoolInv, PoolType, T
  <2>5. /\ serving' \in [T -> 0 .. arrived'] /\ serving'[Main] = arrived + 1
        /\ \A t \in T \ {Main} : serving'[t] = serving[t]
        BY <1>1, <1>3, <2>1, <2>4 DEF PoolInv, PoolType
  <2>6. /\ step' \in [T -> Steps] /\ step'[Main] = "init"
        /\ \A t \in T \ {Main} : step'[t] = step[t]
        BY <1>3, <2>4 DEF PoolInv, PoolType, Goto, Steps
  <2>7. PoolType'
        BY <1>1, <1>3, <2>1, <2>2, <2>5, <2>6 DEF PoolInv, PoolType
  <2>8. \A s \in T : serving[s] \in 0 .. arrived
        BY DEF PoolInv, PoolType
  <2>9. \A s, t \in T : serving'[s] # 0 /\ serving'[s] = serving'[t] => s = t
        BY <1>1, <2>5, <2>8 DEF PoolInv
  <2>10. \A s \in T : serving'[s] \notin ToSet(queue) \cup done
    <3>1. arrived + 1 \notin ToSet(queue) /\ arrived + 1 \notin done
          BY <1>1, <2>3 DEF PoolInv, PoolType
    <3>. QED  BY <2>5, <3>1 DEF PoolInv
  <2>11. \A s \in T : serving'[s] # 0 <=> step'[s] # "idle"
        BY <1>1, <2>5, <2>6 DEF PoolInv
  <2>. QED  BY <1>1, <1>3, <2>1, <2>7, <2>9, <2>10, <2>11 DEF PoolInv
<1>. QED  BY <1>2, <1>3 DEF server_request

(* A worker takes a connection.                                             *)
LEMMA PoolTake ==
  ASSUME PoolInv, NEW w \in Workers, request_stub(w)
  PROVE  /\ PoolInv'
         /\ serving[w] = 0 /\ step[w] = "idle" /\ step' = [step EXCEPT ![w] = "init"]
         /\ serving'[w] \in ToSet(queue) /\ done' = done
         /\ \A t \in T \ {w} : serving'[t] = serving[t] /\ step'[t] = step[t]
<1>1. /\ w \in T /\ serving[w] = 0 /\ queue # << >> /\ queue' = Tail(queue)
      /\ serving' = [serving EXCEPT ![w] = Head(queue)]
      /\ UNCHANGED << arrived, done, connfd, accepted, nr_threads >>
      /\ step' = [step EXCEPT ![w] = "init"]
      BY DEF request_stub, Pool!Take, Goto, netVars, config, T
<1>2. /\ queue' \in Seq(1 .. arrived) /\ Once(queue')
      /\ ToSet(queue') = ToSet(queue) \ {Head(queue)}
      /\ Head(queue) \in ToSet(queue) /\ ToSet(queue) \subseteq 1 .. arrived
      BY <1>1, TailOnce, ToSetOfSeq DEF PoolInv, PoolType
<1>3. /\ serving' \in [T -> 0 .. arrived] /\ serving'[w] = Head(queue)
      /\ \A t \in T \ {w} : serving'[t] = serving[t]
      /\ step' \in [T -> Steps] /\ step'[w] = "init"
      /\ \A t \in T \ {w} : step'[t] = step[t]
      /\ Head(queue) # 0 /\ Head(queue) \notin done
      BY <1>1, <1>2 DEF PoolInv, PoolType, Steps
<1> DEFINE h == Head(queue)
<1> HIDE DEF h
<1>4. \A s, t \in T : serving'[s] # 0 /\ serving'[s] = serving'[t] => s = t
      BY <1>2, <1>3 DEF PoolInv
<1>5. \A s \in T : serving'[s] \notin ToSet(queue') \cup done
      BY <1>2, <1>3 DEF PoolInv
<1>6. \A s \in T : serving'[s] # 0 <=> step'[s] # "idle"
      BY <1>3 DEF PoolInv
<1>7. accepted > arrived /\ nr_threads = {} => serving'[Main] = 0
      BY <1>3, ServerAssumption DEF PoolInv, T
<1>8. PoolType'
      BY <1>1, <1>2, <1>3 DEF PoolInv, PoolType
<1>9. PoolInv'
      BY <1>1, <1>2, <1>4, <1>5, <1>6, <1>7, <1>8 DEF PoolInv
<1>. QED  BY <1>1, <1>2, <1>3, <1>9 DEF PoolInv

(* A thread goes on.                                                        *)
LEMMA PoolGoes ==
  ASSUME PoolInv, NEW s \in T, Goes(s)
  PROVE  /\ PoolInv' /\ step' \in [T -> Steps]
         /\ \A t \in T \ {s} : step'[t] = step[t]
<1>1. PICK there \in Steps \ {"idle"} : step' = [step EXCEPT ![s] = there]
      BY DEF Goes, Goto
<1>2. /\ step' \in [T -> Steps] /\ step'[s] # "idle"
      /\ \A t \in T \ {s} : step'[t] = step[t]
      BY <1>1 DEF PoolInv, PoolType
<1>3. PoolInv'
      BY <1>2 DEF PoolInv, PoolType, Goes, poolVars, config
<1>. QED  BY <1>2, <1>3

(* A thread is done with its connection.                                    *)
LEMMA PoolReturn ==
  ASSUME PoolInv, NEW s \in T, Return(s), UNCHANGED accepted
  PROVE  /\ PoolInv' /\ step[s] # "idle" /\ done' = done \cup {serving[s]}
         /\ serving'[s] = 0 /\ step'[s] = "idle"
         /\ \A t \in T \ {s} : serving'[t] = serving[t] /\ step'[t] = step[t]
         /\ DOMAIN connfd' = DOMAIN connfd \ {serving[s]}
         /\ \A k \in DOMAIN connfd' : connfd'[k] = connfd[k]
<1>1. /\ serving[s] # 0 /\ done' = done \cup {serving[s]}
      /\ serving' = [serving EXCEPT ![s] = 0]
      /\ UNCHANGED << arrived, queue, nr_threads >>
      /\ connfd' = Without(connfd, serving[s])
      /\ step' = [step EXCEPT ![s] = "idle"]
      BY DEF Return, Pool!Finish, Goto, config
<1>2. /\ step[s] # "idle" /\ serving[s] \in 1 .. arrived
      /\ serving[s] \notin ToSet(queue)
      /\ \A t \in T \ {s} : serving[t] # serving[s]
  <2>1. step[s] # "idle"
        BY <1>1 DEF PoolInv
  <2>. QED  BY <2>1, ThreadHas
<1>3. /\ serving' \in [T -> 0 .. arrived] /\ serving'[s] = 0
      /\ \A t \in T \ {s} : serving'[t] = serving[t]
      /\ step' \in [T -> Steps] /\ step'[s] = "idle"
      /\ \A t \in T \ {s} : step'[t] = step[t]
      BY <1>1 DEF PoolInv, PoolType, Steps
<1>4. /\ DOMAIN connfd' = DOMAIN connfd \ {serving[s]}
      /\ \A k \in DOMAIN connfd' : connfd'[k] = connfd[k]
      /\ connfd' \in [DOMAIN connfd' -> Nat \ {0}]
      BY <1>1 DEF Without, PoolInv, PoolType
<1>5. PoolType'
      BY <1>1, <1>2, <1>3, <1>4 DEF PoolInv, PoolType
<1>6. /\ \A t \in T : serving'[t] # 0 <=> step'[t] # "idle"
      /\ \A t, u \in T : serving'[t] # 0 /\ serving'[t] = serving'[u] => t = u
      BY <1>3 DEF PoolInv
<1>7. \A t \in T : serving'[t] \notin ToSet(queue') \cup done'
  <2>1. 0 \notin ToSet(queue) /\ 0 \notin done
        BY ToSetOfSeq DEF PoolInv, PoolType
  <2>. QED  BY <1>1, <1>2, <1>3, <2>1 DEF PoolInv
<1>8. DOMAIN connfd' = 1 .. accepted' \ done'
      BY <1>1, <1>4 DEF PoolInv
<1>9. PoolInv'
      BY <1>1, <1>2, <1>3, <1>5, <1>6, <1>7, <1>8 DEF PoolInv
<1>. QED  BY <1>1, <1>2, <1>3, <1>4, <1>9

-----------------------------------------------------------------------------
(* The connections themselves                                               *)

(* Connection k is changed to r, and no other one.                          *)
OneChanges(k, r) ==
  /\ conn' = [conn EXCEPT ![k] = r]
  /\ UNCHANGED << fdTable, accepted, up >>

(* What that does to the types.                                             *)
LEMMA NetOne ==
  ASSUME NetType, NEW k \in 1 .. Len(conn), NEW r \in Conns, OneChanges(k, r)
  PROVE  /\ NetType' /\ Len(conn') = Len(conn)
         /\ conn'[k] = r /\ \A j \in 1 .. Len(conn) \ {k} : conn'[j] = conn[j]
<1>1. /\ conn' \in Seq(Conns) /\ Len(conn') = Len(conn)
      /\ conn'[k] = r /\ \A j \in 1 .. Len(conn) \ {k} : conn'[j] = conn[j]
      BY ExceptSeq DEF NetType, OneChanges
<1>. QED  BY <1>1 DEF NetType, OneChanges

(* A connection has its type.                                               *)
LEMMA ConnType ==
  ASSUME NetType, NEW k \in 1 .. Len(conn)
  PROVE  conn[k] \in Conns /\ conn[k].response \in Seq(Pieces)
<1>1. conn \in Seq(Conns)
      BY DEF NetType
<1>2. conn[k] \in Conns
      BY <1>1, ElementOfSeq
<1>. QED  BY <1>2 DEF Conns

(* All connections are changed in the same way.                             *)
LEMMA NetAll ==
  ASSUME NetType, NEW g \in [DOMAIN conn -> Conns], conn' = g,
         fdTable' \in [DOMAIN fdTable' -> 1 .. accepted'],
         IsFiniteSet(DOMAIN fdTable') /\ DOMAIN fdTable' \subseteq Nat \ {0},
         UNCHANGED accepted, up' \in BOOLEAN
  PROVE  NetType' /\ Len(conn') = Len(conn) /\ DOMAIN conn = 1 .. Len(conn)
<1>1. Len(conn) \in Nat /\ DOMAIN conn = 1 .. Len(conn)
      BY LenProperties DEF NetType
<1>2. conn' \in Seq(Conns) /\ Len(conn') = Len(conn)
      BY <1>1, SeqDef
<1>. QED  BY <1>2 DEF NetType

(* A new connection comes into the backlog.                                 *)
LEMMA NetOpen ==
  ASSUME NetType, open_clientfd
  PROVE  /\ NetType' /\ up /\ UNCHANGED << fdTable, accepted, up >>
         /\ Len(conn') = Len(conn) + 1 /\ Len(conn) \in Nat
         /\ conn'[Len(conn) + 1] = NewConnection
         /\ \A j \in 1 .. Len(conn) : conn'[j] = conn[j]
<1>1. NewConnection \in Conns
      BY EmptySeq DEF NewConnection, Conns
<1>2. conn' = Append(conn, NewConnection) /\ up /\ UNCHANGED << fdTable, accepted, up >>
      BY DEF open_clientfd
<1> DEFINE n == NewConnection
<1> HIDE DEF n
<1>3. /\ conn' \in Seq(Conns) /\ Len(conn') = Len(conn) + 1 /\ Len(conn) \in Nat
      /\ \A j \in 1 .. Len(conn) : conn'[j] = conn[j]
      BY <1>1, <1>2, AppendProperties, LenProperties DEF NetType, n
<1>4. conn'[Len(conn) + 1] = n
      BY <1>2, <1>3 DEF n, NetType
<1>. QED  BY <1>2, <1>3, <1>4 DEF NetType, n

(* Connections are closed on the client's side.                             *)
LEMMA NetClientCloses ==
  ASSUME NetType, NEW C, ClientCloses(C)
  PROVE  /\ NetType' /\ UNCHANGED << fdTable, accepted, up >> /\ Len(conn') = Len(conn)
         /\ \A j \in 1 .. Len(conn) \ C : conn'[j] = conn[j]
         /\ \A j \in 1 .. Len(conn) : /\ conn'[j].request = conn[j].request
                                      /\ conn'[j].served = conn[j].served
<1> DEFINE g == [k \in DOMAIN conn |->
                   IF k \in C THEN [conn[k] EXCEPT !.peer = FALSE, !.response = << >>]
                   ELSE conn[k]]
<1>1. conn' = g /\ UNCHANGED << fdTable, accepted, up >>
      BY DEF ClientCloses
<1>2. DOMAIN conn = 1 .. Len(conn)
      BY LenProperties DEF NetType
<1>3. ASSUME NEW k \in DOMAIN conn
      PROVE  /\ g[k] \in Conns
             /\ g[k].request = conn[k].request /\ g[k].served = conn[k].served
  <2>1. conn[k] \in Conns /\ << >> \in Seq(Pieces)
        BY <1>2, ConnType, EmptySeq
  <2>. QED  BY <2>1 DEF Conns
<1>4. g \in [DOMAIN conn -> Conns]
      BY <1>3
<1>5. \A j \in DOMAIN conn \ C : g[j] = conn[j]
      OBVIOUS
<1> HIDE DEF g
<1>. QED  BY <1>1, <1>2, <1>3, <1>4, <1>5, NetAll DEF NetType

(* The server ends.                                                         *)
LEMMA NetEnds ==
  ASSUME NetType, ServerEnds
  PROVE  /\ NetType' /\ up' = FALSE /\ accepted' = accepted /\ Len(conn') = Len(conn)
         /\ \A j \in 1 .. Len(conn) :
              /\ conn'[j].request = conn[j].request /\ conn'[j].response = conn[j].response
              /\ conn'[j].peer = conn[j].peer
<1> DEFINE g == [k \in DOMAIN conn |-> [conn[k] EXCEPT !.served = FALSE]]
<1>1. conn' = g /\ up' = FALSE /\ fdTable' = << >> /\ UNCHANGED accepted
      BY DEF ServerEnds
<1>2. DOMAIN conn = 1 .. Len(conn)
      BY LenProperties DEF NetType
<1>3. ASSUME NEW k \in DOMAIN conn
      PROVE  /\ g[k] \in Conns
             /\ g[k].request = conn[k].request /\ g[k].response = conn[k].response
             /\ g[k].peer = conn[k].peer
  <2>1. conn[k] \in Conns
        BY <1>2, ConnType
  <2>. QED  BY <2>1 DEF Conns
<1>4. g \in [DOMAIN conn -> Conns]
      BY <1>3
<1>5. /\ DOMAIN fdTable' = {} /\ IsFiniteSet(DOMAIN fdTable')
      /\ fdTable' \in [DOMAIN fdTable' -> 1 .. accepted']
      BY <1>1, FS_EmptySet
<1> HIDE DEF g
<1>. QED  BY <1>1, <1>2, <1>3, <1>4, <1>5, NetAll

-----------------------------------------------------------------------------
(* Descriptors                                                              *)

(* A thread that has not closed its connection has it open, under the       *)
(* descriptor that it knows.                                                *)
LEMMA OpenFacts ==
  ASSUME PoolInv, NetType, DescInv, up, NEW s \in T, step[s] # "idle", ~Closed(s)
  PROVE  /\ Fd(s) \in DOMAIN fdTable /\ fdTable[Fd(s)] = serving[s]
         /\ serving[s] \in 1 .. Len(conn)
<1>1. /\ serving[s] \in DOMAIN connfd /\ serving[s] \in 1 .. accepted
      /\ \A t \in T \ {s} : serving[t] # serving[s]
      BY ThreadHas
<1>2. \A t \in T : serving[t] = serving[s] => ~Closed(t)
      BY <1>1
<1>3. connfd[serving[s]] \in DOMAIN fdTable /\ fdTable[connfd[serving[s]]] = serving[s]
      BY <1>1, <1>2 DEF DescInv
<1>4. serving[s] \in 1 .. Len(conn)
      BY <1>1 DEF NetType
<1>. QED  BY <1>3, <1>4 DEF Fd

(* An accepted connection gets a descriptor of its own.                     *)
LEMMA DescAccept ==
  ASSUME PoolInv, NetType, DescInv, main_accept
  PROVE  NetType' /\ DescInv'
<1> DEFINE d == NewDescriptor
           k == accepted + 1
<1>1. /\ up /\ accepted < Len(conn) /\ accepted' = k /\ UNCHANGED << conn, up >>
      /\ connfd' = With(connfd, k, d)
      /\ fdTable' = [f \in DOMAIN fdTable \cup {d} |-> IF f = d THEN k ELSE fdTable[f]]
      /\ UNCHANGED << serving, step >>
      BY DEF main_accept, accept, poolVars
<1>2. d \in Nat \ {0} /\ d \notin DOMAIN fdTable
      BY LowestFreeIsFree DEF NewDescriptor, NetType
<1> HIDE DEF d
<1>3. accepted \in Nat /\ k \in 1 .. Len(conn) /\ Len(conn) \in Nat /\ k \notin DOMAIN connfd
      BY <1>1, LenProperties DEF NetType, PoolInv
<1>4. NetType'
  <2>1. IsFiniteSet(DOMAIN fdTable \cup {d})
        BY FS_AddElement DEF NetType
  <2>2. DOMAIN fdTable' = DOMAIN fdTable \cup {d} /\ 1 .. accepted \subseteq 1 .. k
        BY <1>1, <1>3
  <2>3. fdTable' \in [DOMAIN fdTable' -> 1 .. k]
        BY <1>1, <1>3, <2>2 DEF NetType
  <2>. QED  BY <1>1, <1>2, <1>3, <2>1, <2>2, <2>3 DEF NetType
<1>5. \A s \in T : serving[s] \in 0 .. arrived /\ serving[s] # k
      BY <1>3 DEF PoolInv, PoolType
<1>6. \A f \in DOMAIN fdTable' : fdTable'[f] \in DOMAIN connfd' /\ connfd'[fdTable'[f]] = f
      BY <1>1, <1>2, <1>3 DEF DescInv, With
<1>7. \A s \in T : Closed(s)' => \A f \in DOMAIN fdTable' : fdTable'[f] # serving'[s]
      BY <1>1, <1>5 DEF DescInv, Closed
<1>8. ASSUME NEW j \in DOMAIN connfd', \A s \in T : serving'[s] = j => ~Closed(s)'
      PROVE  connfd'[j] \in DOMAIN fdTable' /\ fdTable'[connfd'[j]] = j
  <2>1. CASE j = k
        BY <1>1, <1>2, <2>1 DEF With
  <2>2. CASE j # k
    <3>1. j \in DOMAIN connfd /\ connfd'[j] = connfd[j] /\ \A s \in T : serving[s] = j => ~Closed(s)
          BY <1>1, <1>8, <2>2 DEF With, Closed
    <3>2. connfd[j] \in DOMAIN fdTable /\ fdTable[connfd[j]] = j
          BY <1>1, <3>1 DEF DescInv
    <3>. QED  BY <1>1, <1>2, <3>1, <3>2
  <2>. QED  BY <2>1, <2>2
<1>9. DescInv'
      BY <1>6, <1>7, <1>8 DEF DescInv
<1>. QED  BY <1>4, <1>9

(* A thread that begins a connection has not closed it.                     *)
LEMMA DescBegin ==
  ASSUME DescInv, NEW s \in T, step[s] = "idle", step'[s] = "init",
         \A t \in T \ {s} : serving'[t] = serving[t] /\ step'[t] = step[t],
         \A t \in T : serving[t] # 0 <=> step[t] # "idle",
         0 \notin DOMAIN connfd,
         UNCHANGED << fdTable, up, connfd >>
  PROVE  DescInv'
<1>1. \A t \in T : Closed(t)' => t # s /\ Closed(t)
      BY DEF Closed
<1>2. ASSUME NEW k \in DOMAIN connfd, \A t \in T : serving'[t] = k => ~Closed(t)'
      PROVE  \A t \in T : serving[t] = k => ~Closed(t)
      BY <1>2 DEF Closed
<1>. QED  BY <1>1, <1>2 DEF DescInv

(* A thread goes on and does not close its connection.                      *)
LEMMA DescGoes ==
  ASSUME PoolInv, DescInv, NEW s \in T, Goes(s), Closed(s)' <=> Closed(s),
         UNCHANGED << fdTable, up >>
  PROVE  DescInv'
<1>1. /\ \A t \in T : Closed(t)' <=> Closed(t)
      /\ UNCHANGED << connfd, serving >>
      BY PoolGoes DEF Closed, Goes, poolVars
<1>. QED  BY <1>1 DEF DescInv

(* A thread closes its connection, and no other one.                        *)
LEMMA DescCloses ==
  ASSUME PoolInv, NetType, DescInv, up, NEW s \in T, ~Closed(s),
         Goes(s), Closed(s)', Close(Fd(s))
  PROVE  DescInv'
<1>1. PICK k \in 1 .. Len(conn), f \in DOMAIN fdTable : k = serving[s] /\ f = Fd(s) /\ fdTable[f] = k
      BY OpenFacts DEF Goes
<1>2. /\ DOMAIN fdTable' = DOMAIN fdTable \ {f}
      /\ \A g \in DOMAIN fdTable' : fdTable'[g] = fdTable[g]
      /\ up' = up
      BY <1>1 DEF Close
<1>3. /\ UNCHANGED << connfd, serving >> /\ \A t \in T \ {s} : Closed(t)' <=> Closed(t)
      /\ \A t \in T \ {s} : serving[t] # k
      BY <1>1, PoolGoes, ThreadHas DEF Closed, Goes, poolVars
<1>4. \A g \in DOMAIN fdTable : fdTable[g] = k => g = f
      BY <1>1 DEF DescInv
<1>5. \A t \in T : Closed(t)' => \A g \in DOMAIN fdTable' : fdTable'[g] # serving'[t]
      BY <1>1, <1>2, <1>3, <1>4 DEF DescInv
<1>6. ASSUME NEW j \in DOMAIN connfd, \A t \in T : serving[t] = j => ~Closed(t)'
      PROVE  connfd[j] \in DOMAIN fdTable' /\ fdTable'[connfd[j]] = j
  <2>1. j # k /\ \A t \in T : serving[t] = j => ~Closed(t)
        BY <1>1, <1>3, <1>6
  <2>2. connfd[j] \in DOMAIN fdTable /\ fdTable[connfd[j]] = j
        BY <1>6, <2>1 DEF DescInv
  <2>. QED  BY <1>1, <1>2, <2>1, <2>2
<1>. QED  BY <1>2, <1>3, <1>5, <1>6 DEF DescInv

(* A thread forgets the connection that it has closed.                      *)
LEMMA DescReturn ==
  ASSUME PoolInv, DescInv, up, NEW s \in T, Closed(s), Return(s), UNCHANGED << fdTable, up, accepted >>
  PROVE  DescInv'
<1>1. /\ serving'[s] = 0 /\ step'[s] = "idle"
      /\ \A t \in T \ {s} : serving'[t] = serving[t] /\ step'[t] = step[t]
      /\ DOMAIN connfd' = DOMAIN connfd \ {serving[s]}
      /\ \A k \in DOMAIN connfd' : connfd'[k] = connfd[k]
      BY PoolReturn
<1>2. \A f \in DOMAIN fdTable : fdTable[f] # serving[s]
      BY DEF DescInv
<1>3. \A t \in T : Closed(t)' => t # s /\ Closed(t)
      BY <1>1 DEF Closed
<1>4. ASSUME NEW k \in DOMAIN connfd', \A t \in T : serving'[t] = k => ~Closed(t)'
      PROVE  \A t \in T : serving[t] = k => ~Closed(t)
      BY <1>1, <1>4 DEF Closed
<1>5. \A f \in DOMAIN fdTable : fdTable[f] \in DOMAIN connfd' /\ connfd'[fdTable[f]] = f
      BY <1>1, <1>2 DEF DescInv
<1>6. \A t \in T : Closed(t)' => \A f \in DOMAIN fdTable : fdTable[f] # serving'[t]
      BY <1>1, <1>3 DEF DescInv
<1>7. ASSUME NEW k \in DOMAIN connfd', \A t \in T : serving'[t] = k => ~Closed(t)'
      PROVE  connfd'[k] \in DOMAIN fdTable /\ fdTable[connfd'[k]] = k
      BY <1>1, <1>4, <1>7 DEF DescInv
<1>. QED  BY <1>5, <1>6, <1>7 DEF DescInv

-----------------------------------------------------------------------------
(* What the steps of a thread do to its connection                          *)

(* A thread that goes on has a connection, and keeps it.                    *)
LEMMA ServeGoes ==
  ASSUME PoolInv, NEW s \in T,
         \/ request_init(s) \/ Cache_lookup(s) \/ request_readfile(s) \/ request_sendfile(s)
         \/ request_write(s) \/ Cache_insert(s) \/ request_destroy(s)
  PROVE  /\ Goes(s) /\ up /\ step[s] # "idle" /\ ~Closed(s)
         /\ Closed(s)' <=> step[s] \in {"destroy", "fail"}
         /\ step'[s] \notin {"idle", "init"}
<1> DEFINE Sure(there) == /\ step' = [step EXCEPT ![s] = there]
                          /\ there \in Steps \ {"idle", "init"}
                          /\ there \in {"free", "return"} <=> step[s] \in {"destroy", "fail"}
<1>1. /\ UNCHANGED << poolVars, config, connfd, accepted >> /\ up
      /\ step[s] \in Steps \ {"idle", "free", "return"}
      /\ \E there \in Steps : Sure(there)
  <2>1. CASE request_init(s)
        BY <2>1 DEF request_init, request_error, Goto, At, Steps
  <2>2. CASE Cache_lookup(s)
        BY <2>2 DEF Cache_lookup, Goto, At, Steps, netVars
  <2>3. CASE request_readfile(s)
        BY <2>3 DEF request_readfile, request_error, Goto, At, Steps, netVars
  <2>4. CASE request_sendfile(s)
        BY <2>4 DEF request_sendfile, Goto, At, Steps, netVars
  <2>5. CASE request_write(s)
        BY <2>5 DEF request_write, rio_write, ServerEnds, Goto, Steps
  <2>6. CASE Cache_insert(s)
        BY <2>6 DEF Cache_insert, Goto, At, Steps, netVars
  <2>7. CASE request_destroy(s)
        BY <2>7 DEF request_destroy, Close, Goto, Steps
  <2>. QED  BY <2>1, <2>2, <2>3, <2>4, <2>5, <2>6, <2>7
<1>2. PICK there \in Steps : Sure(there)
      BY <1>1
<1>3. step'[s] = there
      BY <1>2 DEF PoolInv, PoolType
<1>. QED  BY <1>1, <1>2, <1>3 DEF Goes, Goto, Closed

(* The request line r of connection k is read.                              *)
ReadsLine(s, k, r, rest) ==
  /\ k = serving[s] /\ conn[k].request = << r >> /\ step[s] = "init"
  /\ OneChanges(k, [conn[k] EXCEPT !.request = << >>, !.unread = rest])
  /\ file_data' = With(file_data, k, [name |-> r.uri, buf |-> 0])
  /\ UNCHANGED << file_buf, cache >>
  /\ \/ /\ r.method = "GET" /\ ~rest /\ out' = out
        /\ step'[s] = IF UsesCache THEN "lookup" ELSE "readfile"
     \/ /\ r.method # "GET" /\ step'[s] = "error"
        /\ out' = [out EXCEPT ![s] = Response(501, ErrorPage)]

(* That is what request_init does.                                          *)
LEMMA Reads ==
  ASSUME PoolInv, NetType, DescInv, NEW s \in T, request_init(s)
  PROVE  \E k \in 1 .. Len(conn), r \in Lines, rest \in BOOLEAN : ReadsLine(s, k, r, rest)
<1>1. up /\ step[s] = "init" /\ Conn(s).request # << >>
      BY DEF request_init, At
<1>2. PICK k \in 1 .. Len(conn) : k = serving[s] /\ fdTable[Fd(s)] = k
      BY <1>1, OpenFacts DEF Closed
<1>3. conn[k] \in Conns /\ conn[k].request # << >>
      BY <1>1, <1>2, ConnType DEF Conn
<1>4. PICK r \in Lines : conn[k].request = << r >>
      BY <1>3 DEF Conns
<1>5. conn[k].request[1] = r
      BY <1>4
<1>6. /\ file_data' = With(file_data, k, [name |-> r.uri, buf |-> 0])
      /\ UNCHANGED << file_buf, cache, fdTable, accepted, up >>
      /\ \E rest \in {FALSE, r.method # "GET"} :
            conn' = [conn EXCEPT ![k].request = << >>, ![k].unread = rest]
      /\ \/ /\ r.method = "GET" /\ out' = out
            /\ Goto(s, IF UsesCache THEN "lookup" ELSE "readfile")
         \/ /\ r.method # "GET" /\ request_error(s, 501)
      BY <1>2, <1>5 DEF request_init, Conn
<1>7. PICK rest \in {FALSE, r.method # "GET"} :
        conn' = [conn EXCEPT ![k].request = << >>, ![k].unread = rest]
      BY <1>6
<1>8. conn' = [conn EXCEPT ![k] = [conn[k] EXCEPT !.request = << >>, !.unread = rest]]
      BY <1>7, LenProperties DEF NetType
<1>9. rest \in BOOLEAN
      OBVIOUS
<1>10. ReadsLine(s, k, r, rest)
      BY <1>1, <1>2, <1>4, <1>6, <1>7, <1>8
         DEF ReadsLine, OneChanges, request_error, Goto, PoolInv, PoolType
<1>. QED  BY <1>9, <1>10

(* A piece of the response is written, and the rest of it is left.          *)
WritesPiece(s, k, piece, rest) ==
  /\ k = serving[s] /\ out[s] = piece \o rest /\ out' = [out EXCEPT ![s] = rest]
  /\ step[s] \in {"send", "error"}
  /\ step'[s] = IF rest # << >> THEN step[s]
                ELSE IF step[s] = "error" THEN "fail"
                ELSE IF UsesCache THEN "insert" ELSE "destroy"
  /\ \/ conn[k].peer /\ OneChanges(k, [conn[k] EXCEPT !.response = @ \o piece])
     \/ ~conn[k].peer /\ UNCHANGED netVars
     \/ ~conn[k].peer /\ ServerEnds

(* That is what request_write does.                                         *)
LEMMA Writes ==
  ASSUME PoolInv, NetType, DescInv, NEW s \in T, request_write(s), out[s] \in Seq(Pieces),
         out \in [T -> Seq(Pieces)]
  PROVE  \E k \in 1 .. Len(conn), piece \in Seq(Pieces), rest \in Seq(Pieces) :
           WritesPiece(s, k, piece, rest)
<1>1. up /\ step[s] \in {"send", "error"}
      BY DEF request_write
<1>2. PICK k \in 1 .. Len(conn) : k = serving[s] /\ fdTable[Fd(s)] = k
      BY <1>1, OpenFacts DEF Closed
<1>3. PICK n \in 1 .. Len(out[s]) :
        /\ rio_write(Fd(s), out[s], n)
        /\ out' = [out EXCEPT ![s] = SubSeq(@, n + 1, Len(@))]
      BY DEF request_write
<1> DEFINE piece == SubSeq(out[s], 1, n)
           rest == SubSeq(out[s], n + 1, Len(out[s]))
<1>4. piece \in Seq(Pieces) /\ rest \in Seq(Pieces) /\ out[s] = piece \o rest
  <2>1. n \in 0 .. Len(out[s])
        OBVIOUS
  <2>. QED  BY <2>1, CutSeq
<1>5. \/ /\ conn' = IF conn[k].peer THEN [conn EXCEPT ![k].response = @ \o piece] ELSE conn
         /\ UNCHANGED << fdTable, accepted, up >>
      \/ ~conn[k].peer /\ ServerEnds
      BY <1>2, <1>3 DEF rio_write
<1>6. out' = [out EXCEPT ![s] = rest]
      BY <1>3
<1> HIDE DEF piece, rest
<1>7. \/ conn[k].peer /\ OneChanges(k, [conn[k] EXCEPT !.response = @ \o piece])
      \/ ~conn[k].peer /\ UNCHANGED netVars
      \/ ~conn[k].peer /\ ServerEnds
  <2>1. CASE conn[k].peer
    <3>1. conn' = [conn EXCEPT ![k].response = @ \o piece] /\ UNCHANGED << fdTable, accepted, up >>
          BY <1>5, <2>1
    <3>. QED  BY <2>1, <3>1 DEF OneChanges
  <2>2. CASE ~conn[k].peer
        BY <1>5, <2>2 DEF netVars
  <2>. QED  BY <2>1, <2>2
<1>8. out'[s] = rest
      BY <1>6
<1>9. step'[s] = IF rest # << >> THEN step[s]
                 ELSE IF step[s] = "error" THEN "fail"
                 ELSE IF UsesCache THEN "insert" ELSE "destroy"
      BY <1>8 DEF request_write, Goto, PoolInv, PoolType
<1>10. WritesPiece(s, k, piece, rest)
      BY <1>1, <1>2, <1>4, <1>6, <1>7, <1>9 DEF WritesPiece
<1>. QED  BY <1>4, <1>10

(* The connection k is closed, and the client may only read rest of it.     *)
ClosesConn(s, k, rest) ==
  /\ k = serving[s] /\ fdTable[Fd(s)] = k
  /\ IsPrefix(rest, conn[k].response)
  /\ ~conn[k].unread => rest = conn[k].response
  /\ conn' = [conn EXCEPT ![k] = [conn[k] EXCEPT !.served = FALSE, !.response = rest]]
  /\ fdTable' = [f \in DOMAIN fdTable \ {Fd(s)} |-> fdTable[f]]
  /\ UNCHANGED << accepted, up >>
  /\ step'[s] = IF step[s] = "destroy" /\ UsesCache THEN "return" ELSE "free"

(* That is what request_destroy does.                                       *)
LEMMA Closes ==
  ASSUME PoolInv, NetType, DescInv, NEW s \in T, request_destroy(s)
  PROVE  \E k \in 1 .. Len(conn), rest \in Seq(Pieces) : ClosesConn(s, k, rest)
<1>1. up /\ step[s] \in {"destroy", "fail"}
      BY DEF request_destroy
<1>2. PICK k \in 1 .. Len(conn) : k = serving[s] /\ fdTable[Fd(s)] = k
      BY <1>1, OpenFacts DEF Closed
<1>3. PICK rest \in Delivered(k) :
        conn' = [conn EXCEPT ![k].served = FALSE, ![k].response = rest]
      BY <1>2 DEF request_destroy, Close
<1>4. conn' = [conn EXCEPT ![k] = [conn[k] EXCEPT !.served = FALSE, !.response = rest]]
      BY <1>3, LenProperties DEF NetType
<1> DEFINE a == conn[k].response
<1>5. a \in Seq(Pieces)
      BY ConnType
<1> HIDE DEF a
<1>6. rest \in Seq(Pieces) /\ IsPrefix(rest, a) /\ (~conn[k].unread => rest = a)
  <2>1. CASE ~conn[k].unread
        BY <1>3, <1>5, <2>1, PrefixFacts DEF Delivered, a
  <2>2. CASE conn[k].unread
    <3>1. PICK m \in 0 .. Len(a) : rest = SubSeq(a, 1, m)
          BY <1>3, <2>2 DEF Delivered, Prefixes, a
    <3>2. rest \in Seq(Pieces) /\ SubSeq(a, m + 1, Len(a)) \in Seq(Pieces)
          /\ rest \o SubSeq(a, m + 1, Len(a)) = a
          BY <1>5, <3>1, CutSeq
    <3>. QED  BY <1>5, <2>2, <3>2, PrefixFacts
  <2>. QED  BY <2>1, <2>2
<1>7. /\ fdTable' = [f \in DOMAIN fdTable \ {Fd(s)} |-> fdTable[f]]
      /\ UNCHANGED << accepted, up >>
      BY DEF request_destroy, Close
<1>8. step'[s] = IF step[s] = "destroy" /\ UsesCache THEN "return" ELSE "free"
      BY DEF request_destroy, Goto, PoolInv, PoolType
<1>9. ClosesConn(s, k, rest)
      BY <1>2, <1>4, <1>6, <1>7, <1>8 DEF a, ClosesConn
<1>. QED  BY <1>6, <1>9

-----------------------------------------------------------------------------
(* Connections and descriptors in a step of the server                      *)

(* Once the server has ended nothing is claimed of descriptors.             *)
LEMMA DescEnds == ~up' => DescInv'
BY DEF DescInv

(* Connections and descriptors in a step of a thread at work.               *)
LEMMA ServeDesc ==
  ASSUME PoolInv, NetType, DescInv, out \in [T -> Seq(Pieces)],
         NEW s \in T, Serve(s) \/ Cache_evict(s)
  PROVE  PoolInv' /\ NetType' /\ DescInv' /\ Len(conn') = Len(conn)
<1>1. CASE \/ Cache_lookup(s) \/ request_readfile(s) \/ request_sendfile(s) \/ Cache_insert(s)
  <2>1. /\ UNCHANGED netVars /\ step[s] \in {"lookup", "readfile", "sendfile", "insert"}
        BY <1>1 DEF Cache_lookup, request_readfile, request_sendfile, Cache_insert, At
  <2>2. Goes(s) /\ ~Closed(s) /\ ~Closed(s)'
        BY <1>1, <2>1, ServeGoes
  <2>3. PoolInv' /\ DescInv'
        BY <2>1, <2>2, PoolGoes, DescGoes DEF netVars
  <2>. QED  BY <2>1, <2>3 DEF NetType, netVars
<1>2. CASE request_init(s)
  <2>1. Goes(s) /\ ~Closed(s) /\ ~Closed(s)'
    <3>1. step[s] = "init"
          BY <1>2 DEF request_init, At
    <3>. QED  BY <1>2, <3>1, ServeGoes
  <2>2. PICK k \in 1 .. Len(conn), r \in Lines, rest \in BOOLEAN : ReadsLine(s, k, r, rest)
        BY <1>2, Reads
  <2>3. [conn[k] EXCEPT !.request = << >>, !.unread = rest] \in Conns
        BY ConnType DEF Conns
  <2>4. OneChanges(k, [conn[k] EXCEPT !.request = << >>, !.unread = rest])
        BY <2>2 DEF ReadsLine
  <2>5. NetType' /\ Len(conn') = Len(conn)
        BY <2>3, <2>4, NetOne
  <2>6. UNCHANGED << fdTable, up >>
        BY <2>4 DEF OneChanges
  <2>. QED  BY <2>1, <2>5, <2>6, PoolGoes, DescGoes
<1>3. CASE request_write(s)
  <2>1. Goes(s) /\ ~Closed(s) /\ ~Closed(s)'
    <3>1. step[s] \in {"send", "error"}
          BY <1>3 DEF request_write
    <3>. QED  BY <1>3, <3>1, ServeGoes
  <2>2. PICK k \in 1 .. Len(conn), piece \in Seq(Pieces), rest \in Seq(Pieces) :
          WritesPiece(s, k, piece, rest)
        BY <1>3, Writes
  <2>3. PoolInv'
        BY <2>1, PoolGoes
  <2>4. CASE OneChanges(k, [conn[k] EXCEPT !.response = @ \o piece])
    <3>1. [conn[k] EXCEPT !.response = @ \o piece] \in Conns
      <4>1. conn[k].response \o piece \in Seq(Pieces)
            BY ConnType, ConcatProperties
      <4>. QED  BY <4>1, ConnType DEF Conns
    <3>2. NetType' /\ Len(conn') = Len(conn) /\ UNCHANGED << fdTable, up >>
          BY <2>4, <3>1, NetOne DEF OneChanges
    <3>. QED  BY <2>1, <2>3, <3>2, DescGoes
  <2>5. CASE UNCHANGED netVars
        BY <2>1, <2>3, <2>5, DescGoes DEF NetType, netVars
  <2>6. CASE ServerEnds
        BY <2>3, <2>6, NetEnds, DescEnds
  <2>. QED  BY <2>2, <2>4, <2>5, <2>6 DEF WritesPiece
<1>4. CASE request_destroy(s)
  <2>1. Goes(s) /\ up /\ ~Closed(s) /\ Closed(s)'
    <3>1. step[s] \in {"destroy", "fail"}
          BY <1>4 DEF request_destroy
    <3>. QED  BY <1>4, <3>1, ServeGoes
  <2>2. PoolInv' /\ DescInv'
        BY <1>4, <2>1, PoolGoes, DescCloses DEF request_destroy
  <2>3. PICK k \in 1 .. Len(conn), rest \in Seq(Pieces) : ClosesConn(s, k, rest)
        BY <1>4, Closes
  <2> DEFINE r == [conn[k] EXCEPT !.served = FALSE, !.response = rest]
  <2>4. r \in Conns
        BY ConnType DEF Conns
  <2> HIDE DEF r
  <2>5. conn' \in Seq(Conns) /\ Len(conn') = Len(conn)
        BY <2>3, <2>4, ExceptSeq DEF NetType, r, ClosesConn
  <2>6. /\ DOMAIN fdTable' = DOMAIN fdTable \ {Fd(s)} /\ IsFiniteSet(DOMAIN fdTable')
        /\ fdTable' \in [DOMAIN fdTable' -> 1 .. accepted]
        BY <2>3, FS_Difference DEF NetType, ClosesConn
  <2>. QED  BY <2>2, <2>3, <2>5, <2>6 DEF NetType, ClosesConn
<1>5. CASE file_data_free(s) \/ do_server_request_returns(s)
  <2>1. Return(s) /\ Closed(s) /\ up /\ UNCHANGED netVars
        BY <1>5 DEF file_data_free, do_server_request_returns, Return, At, Closed
  <2>. QED  BY <2>1, PoolReturn, DescReturn DEF NetType, netVars
<1>6. CASE Cache_evict(s)
      BY <1>6 DEF Cache_evict, netVars, poolVars, config, PoolInv, PoolType, NetType, DescInv, Closed
<1>. QED  BY <1>1, <1>2, <1>3, <1>4, <1>5, <1>6 DEF Serve

(* The other steps of the server.                                           *)
LEMMA ServerDesc ==
  ASSUME PoolInv, NetType, DescInv, out \in [T -> Seq(Pieces)], ServerStep
  PROVE  PoolInv' /\ NetType' /\ DescInv' /\ Len(conn') = Len(conn)
<1>1. CASE main_accept
      BY <1>1, PoolAccept, DescAccept DEF main_accept, accept
<1>2. CASE server_request
  <2>1. PoolInv' /\ NetType' /\ Len(conn') = Len(conn)
        BY <1>2, PoolArrive DEF server_request, NetType, netVars
  <2>2. UNCHANGED << fdTable, up, connfd >>
        BY <1>2 DEF server_request, netVars
  <2>3. CASE Pool!Arrive /\ UNCHANGED step
        BY <2>1, <2>2, <2>3 DEF DescInv, Closed, Pool!Arrive
  <2>4. CASE /\ nr_threads = {} /\ Goto(Main, "init")
             /\ serving' = [serving EXCEPT ![Main] = accepted]
    <3>1. Main \in T /\ serving[Main] = 0 /\ step[Main] = "idle"
          BY <1>2, <2>4 DEF PoolInv, T, server_request
    <3>2. /\ step'[Main] = "init"
          /\ \A t \in T \ {Main} : serving'[t] = serving[t] /\ step'[t] = step[t]
          BY <2>4, <3>1 DEF Goto, PoolInv, PoolType
    <3>3. 0 \notin DOMAIN connfd /\ \A t \in T : serving[t] # 0 <=> step[t] # "idle"
          BY DEF PoolInv
    <3>. QED  BY <2>1, <2>2, <3>1, <3>2, <3>3, DescBegin
  <2>. QED  BY <1>2, <2>3, <2>4 DEF server_request
<1>3. ASSUME NEW w \in Workers, request_stub(w)
      PROVE  PoolInv' /\ NetType' /\ DescInv' /\ Len(conn') = Len(conn)
  <2>1. /\ PoolInv' /\ w \in T /\ step[w] = "idle" /\ step' = [step EXCEPT ![w] = "init"]
        /\ \A t \in T \ {w} : serving'[t] = serving[t] /\ step'[t] = step[t]
        BY <1>3, PoolTake DEF T
  <2>2. UNCHANGED << netVars, connfd >>
        BY <1>3 DEF request_stub
  <2>3. step'[w] = "init"
        BY <2>1 DEF PoolInv, PoolType
  <2>4. 0 \notin DOMAIN connfd /\ \A t \in T : serving[t] # 0 <=> step[t] # "idle"
        BY DEF PoolInv
  <2>5. DescInv'
        BY <2>1, <2>2, <2>3, <2>4, DescBegin DEF netVars
  <2>. QED  BY <2>1, <2>2, <2>5 DEF NetType, netVars
<1>. QED  BY <1>1, <1>2, <1>3, ServeDesc DEF ServerStep, T

-----------------------------------------------------------------------------
(* The steps of the clients                                                 *)

(* A client at work has a connection.                                       *)
LEMMA LiveFacts ==
  ASSUME NetType, ClientInv, NEW c \in Clients, Live(c)
  PROVE  /\ fd[c] \in 1 .. Len(conn) /\ Len(conn) \in Nat
         /\ received[c] \in Seq(Pieces)
         /\ conn[fd[c]] \in Conns /\ conn[fd[c]].response \in Seq(Pieces)
         /\ \A d \in Clients \ {c} : fd[d] # fd[c]
<1>1. Len(conn) \in Nat
      BY LenProperties DEF NetType
<1>2. fd[c] \in 1 .. Len(conn) /\ received[c] \in Seq(Pieces)
      BY <1>1 DEF ClientInv, ClientType, Live
<1>3. \A d \in Clients \ {c} : fd[d] # fd[c]
      BY <1>1, <1>2 DEF ClientInv
<1>. QED  BY <1>1, <1>2, <1>3, ConnType

(* A request is sent.                                                       *)
LEMMA Sends ==
  ASSUME NetType, ClientInv, NEW c \in Clients, client_send(c)
  PROVE  \E k \in 1 .. Len(conn), r \in Lines :
           /\ k = fd[c] /\ OneChanges(k, [conn[k] EXCEPT !.request = << r >>, !.unread = TRUE])
           /\ asked' = [asked EXCEPT ![c] = r]
<1>1. PICK k \in 1 .. Len(conn) : k = fd[c]
      BY LiveFacts DEF client_send, Live
<1>2. MayAsk(c) \subseteq Lines
      BY DEF MayAsk, Lines
<1>3. PICK r \in Lines : SendRequest(k, r) /\ asked' = [asked EXCEPT ![c] = r]
      BY <1>1, <1>2 DEF client_send
<1>4. conn' = [conn EXCEPT ![k] = [conn[k] EXCEPT !.request = << r >>, !.unread = TRUE]]
      BY <1>3, LenProperties DEF SendRequest, NetType
<1>. QED  BY <1>1, <1>3, <1>4 DEF SendRequest, OneChanges

(* A piece of a response is read.                                           *)
LEMMA Receives ==
  ASSUME NetType, ClientInv, NEW c \in Clients, client_read(c)
  PROVE  \E k \in 1 .. Len(conn), piece \in Seq(Pieces), rest \in Seq(Pieces) :
           /\ k = fd[c] /\ conn[k].response = piece \o rest
           /\ OneChanges(k, [conn[k] EXCEPT !.response = rest])
           /\ received[c] \o piece \in Seq(Pieces)
           /\ received' = [received EXCEPT ![c] = received[c] \o piece]
<1>1. PICK k \in 1 .. Len(conn) : k = fd[c]
      BY LiveFacts DEF client_read, Live
<1> DEFINE a == conn[k].response
           piece == << Head(a) >>
           rest == Tail(a)
<1>2. a \in Seq(Pieces) /\ a # << >> /\ received[c] \in Seq(Pieces)
      BY <1>1, LiveFacts DEF client_read, Readable, Live
<1>3. /\ conn' = [conn EXCEPT ![k] = [conn[k] EXCEPT !.response = rest]]
      /\ UNCHANGED << fdTable, accepted, up >>
      BY <1>1 DEF client_read, ReadResponse
<1>4. received' = [received EXCEPT ![c] = Append(received[c], Head(a))]
      BY <1>1 DEF client_read
<1> HIDE DEF a
<1>5. Head(a) \in Pieces /\ rest \in Seq(Pieces)
      BY <1>2
<1>6. piece \in Seq(Pieces) /\ a = piece \o rest
  <2>1. /\ Len(a) \in Nat /\ Len(a) > 0 /\ a \in [1 .. Len(a) -> Pieces]
        /\ Len(rest) = Len(a) - 1 /\ \A i \in 1 .. Len(a) - 1 : rest[i] = a[i + 1]
        /\ Head(a) = a[1]
        BY <1>2, LenProperties, HeadTailProperties, EmptySeq
  <2>2. piece \in Seq(Pieces) /\ Len(piece) = 1 /\ piece[1] = a[1]
        BY <1>5, <2>1
  <2> HIDE DEF piece, rest
  <2>3. /\ piece \o rest \in Seq(Pieces) /\ Len(piece \o rest) = Len(a)
        /\ \A i \in 1 .. Len(a) : (piece \o rest)[i] = IF i <= 1 THEN piece[i] ELSE rest[i - 1]
    <3>1. /\ piece \o rest \in Seq(Pieces) /\ Len(piece \o rest) = 1 + Len(rest)
          /\ \A i \in 1 .. 1 + Len(rest) :
               (piece \o rest)[i] = IF i <= 1 THEN piece[i] ELSE rest[i - 1]
      <4>1. /\ piece \o rest \in Seq(Pieces) /\ Len(piece \o rest) = Len(piece) + Len(rest)
            /\ \A i \in 1 .. Len(piece) + Len(rest) :
                 (piece \o rest)[i] = IF i <= Len(piece) THEN piece[i] ELSE rest[i - Len(piece)]
        <5>1. piece \in Seq(Pieces) /\ rest \in Seq(Pieces)
              BY <1>5, <2>2
        <5>. QED  BY ONLY <5>1, ConcatProperties
      <4>2. Len(piece) = 1
            BY <2>2
      <4>. QED  BY ONLY <4>1, <4>2
    <3>2. 1 + Len(rest) = Len(a)
          BY <2>1
    <3>. QED  BY <3>1, <3>2
  <2>4. ASSUME NEW i \in 1 .. Len(a)
        PROVE  (piece \o rest)[i] = a[i]
    <3>1. CASE i <= 1
          BY <2>1, <2>2, <2>3, <3>1
    <3>2. CASE ~(i <= 1)
      <4>1. i - 1 \in 1 .. Len(a) - 1 /\ i - 1 + 1 = i
            BY <2>1, <3>2
      <4>. QED  BY <2>1, <2>3, <3>2, <4>1
    <3>. QED  BY <3>1, <3>2
  <2>. QED  BY <1>2, <2>2, <2>3, <2>4, SeqEqual
<1>7. Append(received[c], Head(a)) = received[c] \o piece
      BY <1>2, <1>5, AppendIsConcat
<1>8. received[c] \o piece \in Seq(Pieces)
      BY <1>2, <1>6, ConcatProperties
<1>. QED  BY <1>1, <1>3, <1>4, <1>5, <1>6, <1>7, <1>8 DEF OneChanges, a

(* In every step of a client.                                               *)
LEMMA ClientNet ==
  ASSUME NetType, ClientInv, NEW c \in Clients, ClientStep(c) \/ client_killed(c)
  PROVE  /\ NetType' /\ UNCHANGED << fdTable, accepted, up >>
         /\ Len(conn) \in Nat /\ Len(conn') \in Nat /\ Len(conn') >= Len(conn)
<1>0. Len(conn) \in Nat
      BY LenProperties DEF NetType
<1>1. CASE client_connect(c)
      BY <1>0, <1>1, NetOpen DEF client_connect
<1>2. CASE client_send(c)
  <2>1. PICK k \in 1 .. Len(conn), r \in Lines :
           OneChanges(k, [conn[k] EXCEPT !.request = << r >>, !.unread = TRUE])
        BY <1>2, Sends
  <2>2. [conn[k] EXCEPT !.request = << r >>, !.unread = TRUE] \in Conns
        BY ConnType DEF Conns
  <2>3. NetType' /\ Len(conn') = Len(conn)
        BY <2>1, <2>2, NetOne
  <2>. QED  BY <1>0, <2>1, <2>3 DEF OneChanges
<1>3. CASE client_read(c)
  <2>1. PICK k \in 1 .. Len(conn), rest \in Seq(Pieces) :
           OneChanges(k, [conn[k] EXCEPT !.response = rest])
        BY <1>3, Receives
  <2>2. [conn[k] EXCEPT !.response = rest] \in Conns
        BY ConnType DEF Conns
  <2>3. NetType' /\ Len(conn') = Len(conn)
        BY <2>1, <2>2, NetOne
  <2>. QED  BY <1>0, <2>1, <2>3 DEF OneChanges
<1>4. CASE client_close(c) \/ client_aborts(c) \/ client_fails(c) \/ client_killed(c)
  <2>1. \/ ClientCloses({fd[c]}) \/ ClientCloses({fd[d] : d \in Threads(Process[c])})
        BY <1>4 DEF client_close, client_aborts, client_fails, client_killed, ProcessEnds
  <2>2. NetType' /\ UNCHANGED << fdTable, accepted, up >> /\ Len(conn') = Len(conn)
    <3> HIDE DEF Threads
    <3>. QED  BY <2>1, NetClientCloses
  <2>. QED  BY <1>0, <2>2
<1>. QED  BY <1>1, <1>2, <1>3, <1>4 DEF ClientStep

(* The server does not notice.                                              *)
LEMMA ClientDesc ==
  ASSUME PoolInv, NetType, DescInv, UNCHANGED << serverVars, fdTable, accepted, up >>
  PROVE  PoolInv' /\ DescInv'
BY DEF PoolInv, PoolType, DescInv, Closed, serverVars, poolVars, config

(* What the clients know of themselves stays so while the server works.     *)
LEMMA ClientStays ==
  ASSUME ClientInv, UNCHANGED clientVars, Len(conn') = Len(conn)
  PROVE  ClientInv'
BY DEF ClientInv, ClientType, Live, clientVars

(* And in their own steps.                                                  *)
LEMMA ClientGoes ==
  ASSUME NetType, ClientInv, NEW c \in Clients, ClientStep(c) \/ client_killed(c)
  PROVE  ClientInv'
<1>0. Len(conn) \in Nat /\ Len(conn') \in Nat /\ Len(conn') >= Len(conn)
      BY ClientNet
<1>1. CASE client_connect(c)
  <2>1. /\ Len(conn') = Len(conn) + 1 /\ at[c] = "connect"
        /\ at' = [at EXCEPT ![c] = "send"] /\ fd' = [fd EXCEPT ![c] = Len(conn) + 1]
        /\ UNCHANGED << left, asked, received >>
        BY <1>1, NetOpen DEF client_connect
  <2>2. /\ fd' \in [Clients -> 0 .. Len(conn')] /\ fd'[c] = Len(conn) + 1
        /\ \A d \in Clients \ {c} : fd'[d] = fd[d] /\ fd[d] # Len(conn) + 1
    <3>1. \A d \in Clients : fd[d] \in 0 .. Len(conn)
          BY DEF ClientInv, ClientType
    <3>2. 0 .. Len(conn) \subseteq 0 .. Len(conn') /\ Len(conn) + 1 \in 0 .. Len(conn')
          BY <1>0, <2>1
    <3>. QED  BY <1>0, <2>1, <3>1, <3>2 DEF ClientInv, ClientType
  <2>3. /\ at' \in [Clients -> {"connect", "send", "receive", "done", "dead"}] /\ at'[c] = "send"
        /\ \A d \in Clients \ {c} : at'[d] = at[d]
        BY <2>1 DEF ClientInv, ClientType
  <2>. QED  BY <1>0, <2>1, <2>2, <2>3 DEF ClientInv, ClientType, Live
<1>2. CASE client_send(c)
  <2>1. PICK r \in Lines : asked' = [asked EXCEPT ![c] = r]
        BY <1>2, Sends
  <2>2. /\ at' = [at EXCEPT ![c] = "receive"] /\ at[c] = "send"
        /\ UNCHANGED << left, fd, received >>
        BY <1>2 DEF client_send
  <2>3. fd' \in [Clients -> 0 .. Len(conn')]
    <3>1. 0 .. Len(conn) \subseteq 0 .. Len(conn')
          BY <1>0
    <3>. QED  BY <2>2, <3>1 DEF ClientInv, ClientType
  <2>4. asked' \in [Clients -> Lines \cup {NoRequest}]
        BY <2>1 DEF ClientInv, ClientType
  <2>5. /\ at' \in [Clients -> {"connect", "send", "receive", "done", "dead"}]
        /\ at'[c] = "receive" /\ \A d \in Clients \ {c} : at'[d] = at[d]
        BY <2>2 DEF ClientInv, ClientType
  <2>. QED  BY <2>2, <2>3, <2>4, <2>5 DEF ClientInv, ClientType, Live
<1>3. CASE client_read(c)
  <2>1. PICK piece : /\ received[c] \o piece \in Seq(Pieces)
                     /\ received' = [received EXCEPT ![c] = received[c] \o piece]
        BY <1>3, Receives
  <2>2. at[c] = "receive" /\ UNCHANGED << at, left, fd, asked >>
        BY <1>3 DEF client_read
  <2>3. /\ received' \in [Clients -> Seq(Pieces)]
        /\ \A d \in Clients \ {c} : received'[d] = received[d]
        BY <2>1 DEF ClientInv, ClientType
  <2>4. fd' \in [Clients -> 0 .. Len(conn')]
    <3>1. 0 .. Len(conn) \subseteq 0 .. Len(conn')
          BY <1>0
    <3>. QED  BY <2>2, <3>1 DEF ClientInv, ClientType
  <2>. QED  BY <2>2, <2>3, <2>4 DEF ClientInv, ClientType, Live
<1>4. CASE client_close(c)
  <2>1. /\ at[c] = "receive" /\ left' = [left EXCEPT ![c] = @ - 1]
        /\ at' = [at EXCEPT ![c] = IF left[c] > 1 THEN "connect" ELSE "done"]
        /\ fd' = [fd EXCEPT ![c] = 0]
        /\ asked' = [asked EXCEPT ![c] = NoRequest]
        /\ received' = [received EXCEPT ![c] = << >>]
        BY <1>4 DEF client_close
  <2>2. left[c] \in Nat /\ left[c] > 0
        BY <2>1 DEF ClientInv, ClientType
  <2>3. /\ left' \in [Clients -> Nat] /\ left'[c] = left[c] - 1
        /\ \A d \in Clients \ {c} : left'[d] = left[d]
        BY <2>1, <2>2 DEF ClientInv, ClientType
  <2>4. /\ at' \in [Clients -> {"connect", "send", "receive", "done", "dead"}]
        /\ at'[c] = IF left[c] > 1 THEN "connect" ELSE "done"
        /\ \A d \in Clients \ {c} : at'[d] = at[d]
        BY <2>1 DEF ClientInv, ClientType
  <2>5. /\ fd' \in [Clients -> 0 .. Len(conn')] /\ fd'[c] = 0
        /\ \A d \in Clients \ {c} : fd'[d] = fd[d]
    <3>1. 0 .. Len(conn) \subseteq 0 .. Len(conn') /\ 0 \in 0 .. Len(conn')
          BY <1>0
    <3>. QED  BY <2>1, <3>1 DEF ClientInv, ClientType
  <2>6. /\ asked' \in [Clients -> Lines \cup {NoRequest}]
        /\ received' \in [Clients -> Seq(Pieces)] /\ received'[c] = << >>
        /\ \A d \in Clients \ {c} : received'[d] = received[d]
    <3>1. << >> \in Seq(Pieces)
          BY EmptySeq
    <3>. QED  BY <2>1, <3>1 DEF ClientInv, ClientType
  <2>7. ASSUME NEW d \in Clients
        PROVE  /\ at'[d] \in {"connect", "send", "receive"} => left'[d] > 0
               /\ Live(d)' => fd'[d] # 0
               /\ at'[d] = "connect" => received'[d] = << >>
    <3>1. CASE d = c
          BY <2>2, <2>3, <2>4, <2>6, <3>1 DEF Live
    <3>2. CASE d # c
          BY <2>3, <2>4, <2>5, <2>6, <3>2 DEF Live, ClientInv
    <3>. QED  BY <3>1, <3>2
  <2>8. \A d, e \in Clients : fd'[d] # 0 /\ fd'[d] = fd'[e] => d = e
        BY <2>5 DEF ClientInv
  <2>. QED  BY <2>3, <2>4, <2>5, <2>6, <2>7, <2>8 DEF ClientInv, ClientType
<1>5. CASE ProcessEnds(Process[c])
  <2>1. \A d \in Clients : /\ at'[d] \in {"dead", at[d]} /\ received'[d] \in {<< >>, received[d]}
                           /\ asked'[d] \in {NoRequest, asked[d]}
        BY <1>5 DEF ProcessEnds
  <2>2. /\ at' \in [Clients -> {"connect", "send", "receive", "done", "dead"}]
        /\ received' \in [Clients -> Seq(Pieces)]
        /\ asked' \in [Clients -> Lines \cup {NoRequest}]
    <3>1. << >> \in Seq(Pieces) /\ DOMAIN at' = Clients /\ DOMAIN received' = Clients
          /\ DOMAIN asked' = Clients
          BY <1>5, EmptySeq DEF ProcessEnds
    <3>. QED  BY <1>5, <3>1 DEF ClientInv, ClientType, ProcessEnds
  <2>3. /\ fd' \in [Clients -> 0 .. Len(conn')] /\ UNCHANGED << left, fd >>
    <3>1. 0 .. Len(conn) \subseteq 0 .. Len(conn')
          BY <1>0
    <3>. QED  BY <1>5, <3>1 DEF ClientInv, ClientType, ProcessEnds
  <2>4. \A d \in Clients : at'[d] = "connect" => received'[d] = << >>
        BY <2>1 DEF ClientInv
  <2>. QED  BY <2>1, <2>2, <2>3, <2>4 DEF ClientInv, ClientType, Live
<1>. QED  BY <1>1, <1>2, <1>3, <1>4, <1>5
          DEF ClientStep, client_aborts, client_fails, client_killed

-----------------------------------------------------------------------------
(* Memory                                                                   *)

(* A step that leaves the memory alone, and where the threads are.          *)
LEMMA MemStays ==
  ASSUME MemInv, UNCHANGED << serving, done, config, step, out, memVars >>
  PROVE  MemInv'
BY DEF MemInv, MemType, BufferOK, Whole, Past, ThreadMemory, CacheMemory, UsesCache, Data,
       memVars, config

(* A thread begins a connection that has no memory yet.                     *)
LEMMA MemBegin ==
  ASSUME PoolInv, MemInv, PoolInv', NEW s \in T, step[s] = "idle", step'[s] = "init",
         \A t \in T \ {s} : serving'[t] = serving[t] /\ step'[t] = step[t],
         UNCHANGED << done, config, out, memVars >>
  PROVE  MemInv'
<1>1. /\ UNCHANGED << file_data, file_buf, cache, out, done, nr_threads, max_cache_size >>
      /\ UsesCache' = UsesCache
      BY DEF memVars, config, UsesCache
<1>2. ASSUME NEW k, Past(k, {"idle", "init"})
      PROVE  Past(k, {"idle", "init"})'
      BY <1>1, <1>2 DEF Past
<1>3. ASSUME NEW k, Past(k, {"idle", "init", "lookup", "readfile"})
      PROVE  Past(k, {"idle", "init", "lookup", "readfile"})'
      BY <1>1, <1>3 DEF Past
<1>4. ASSUME NEW k \in DOMAIN file_data
      PROVE  serving'[s] # k
  <2>1. Past(k, {"idle", "init"})
        BY DEF MemInv
  <2>2. CASE k \in done
        BY <1>1, <2>2 DEF PoolInv
  <2>3. CASE k \notin done
    <3>1. PICK t \in T \ {s} : serving[t] = k /\ step[t] # "idle"
          BY <2>1, <2>3 DEF Past
    <3>2. serving'[t] = k /\ k # 0
          BY <3>1 DEF PoolInv
    <3>. QED  BY <3>1, <3>2 DEF PoolInv
  <2>. QED  BY <2>2, <2>3
<1>5. ASSUME NEW n \in DOMAIN cache
      PROVE  CacheMemory(n)'
  <2>1. CacheMemory(n) /\ cache[n] \in DOMAIN file_data
        BY DEF MemInv, CacheMemory, Whole
  <2>2. serving'[s] # cache[n]
        BY <1>4, <2>1
  <2>. QED  BY <1>1, <2>1, <2>2 DEF CacheMemory, Whole
<1>6. ASSUME NEW t \in T
      PROVE  ThreadMemory(t)'
  <2>1. CASE t = s
        BY <2>1 DEF ThreadMemory
  <2>2. CASE t # s
        BY <1>1, <2>2 DEF MemInv, ThreadMemory, Data, Whole
  <2>. QED  BY <2>1, <2>2
<1>. QED  BY <1>1, <1>2, <1>3, <1>5, <1>6 DEF MemInv, MemType, BufferOK

(* A thread goes on, and neither file data nor buffers change.              *)
LEMMA MemGoes ==
  ASSUME PoolInv, MemInv, NEW s \in T, Goes(s),
         step'[s] \notin {"idle", "init"},
         step[s] \notin {"idle", "init", "lookup", "readfile"}
           => step'[s] \notin {"idle", "init", "lookup", "readfile"},
         UsesCache /\ step[s] \in {"destroy", "return"} => step'[s] \in {"destroy", "return"},
         ThreadMemory(s)', out' \in [T -> Seq(Pieces)], UNCHANGED memVars
  PROVE  MemInv'
<1>1. /\ UNCHANGED << file_data, file_buf, cache, done, serving >>
      /\ UsesCache' = UsesCache
      /\ \A t \in T \ {s} : step'[t] = step[t]
      BY PoolGoes DEF memVars, config, UsesCache, Goes, poolVars
<1>2. ASSUME NEW k, Past(k, {"idle", "init"})
      PROVE  Past(k, {"idle", "init"})'
      BY <1>1, <1>2 DEF Past
<1>3. ASSUME NEW k, Past(k, {"idle", "init", "lookup", "readfile"})
      PROVE  Past(k, {"idle", "init", "lookup", "readfile"})'
      BY <1>1, <1>3 DEF Past
<1>5. ASSUME NEW n \in DOMAIN cache
      PROVE  CacheMemory(n)'
  <2>1. CacheMemory(n)
        BY DEF MemInv
  <2>2. step[s] # "idle"
        BY DEF Goes
  <2>. QED  BY <1>1, <2>1, <2>2 DEF CacheMemory, Whole
<1>6. ASSUME NEW t \in T
      PROVE  ThreadMemory(t)'
  <2>2. CASE t # s
        BY <1>1, <2>2 DEF MemInv, ThreadMemory, Data, Whole
  <2>. QED  BY <2>2
<1>. QED  BY <1>1, <1>2, <1>3, <1>5, <1>6 DEF MemInv, MemType, BufferOK

(* A thread is done with its connection, and the memory stays.              *)
LEMMA MemReturn ==
  ASSUME PoolInv, MemInv, NEW s \in T, step[s] = "return", Return(s), UNCHANGED << file_data, file_buf >>
  PROVE  MemInv'
<1>1. /\ done' = done \cup {serving[s]} /\ serving'[s] = 0 /\ step'[s] = "idle"
      /\ \A t \in T \ {s} : serving'[t] = serving[t] /\ step'[t] = step[t]
      /\ UNCHANGED << file_data, file_buf, cache, out, nr_threads, max_cache_size >>
      /\ UsesCache' = UsesCache
      BY PoolReturn DEF Return, config, UsesCache, netVars
<1>2. ASSUME NEW k, NEW steps, Past(k, steps)
      PROVE  Past(k, steps)'
      BY <1>1, <1>2 DEF Past
<1>3. ASSUME NEW n \in DOMAIN cache
      PROVE  CacheMemory(n)'
      BY <1>1 DEF MemInv, CacheMemory, Whole
<1>4. ASSUME NEW t \in T
      PROVE  ThreadMemory(t)'
  <2>1. CASE t = s
        BY <1>1, <2>1 DEF ThreadMemory
  <2>2. CASE t # s
        BY <1>1, <2>2 DEF MemInv, ThreadMemory, Data, Whole
  <2>. QED  BY <2>1, <2>2
<1>5. UsesCache
      BY DEF MemInv, ThreadMemory
<1>. QED  BY <1>1, <1>2, <1>3, <1>4, <1>5 DEF MemInv, MemType, BufferOK

(* A request line is read: the connection gets file data.                   *)
LEMMA MemInit ==
  ASSUME PoolInv, NetType, DescInv, MemInv, NEW s \in T, request_init(s)
  PROVE  MemInv'
<1>0. PICK k \in 1 .. Len(conn), r \in Lines, rest \in BOOLEAN : ReadsLine(s, k, r, rest)
      BY Reads
<1>1. /\ k = serving[s] /\ step[s] = "init"
      /\ file_data' = With(file_data, k, [name |-> r.uri, buf |-> 0])
      /\ UNCHANGED << file_buf, cache >>
      /\ \/ /\ r.method = "GET" /\ out' = out
            /\ step'[s] = IF UsesCache THEN "lookup" ELSE "readfile"
         \/ /\ r.method # "GET" /\ step'[s] = "error"
            /\ out' = [out EXCEPT ![s] = Response(501, ErrorPage)]
      BY <1>0 DEF ReadsLine
<1>2. Goes(s)
      BY ServeGoes
<1>3. /\ UNCHANGED << done, serving >> /\ UsesCache' = UsesCache
      /\ \A t \in T \ {s} : step'[t] = step[t] /\ serving[t] # k
      /\ k \notin done
      BY <1>1, <1>2, PoolGoes, ThreadHas DEF config, UsesCache, Goes, poolVars
<1>4. k \notin DOMAIN file_data /\ k \notin DOMAIN file_buf
      BY <1>1, <1>3 DEF MemInv, Past
<1> DEFINE d == [name |-> r.uri, buf |-> 0]
<1>5. d \in [name : Names, buf : Nat] /\ d.buf = 0
      BY AnswerExists
<1> HIDE DEF d
<1>6. /\ DOMAIN file_data' = DOMAIN file_data \cup {k} /\ file_data'[k] = d
      /\ \A j \in DOMAIN file_data : file_data'[j] = file_data[j]
      /\ file_data' \in [DOMAIN file_data' -> [name : Names, buf : Nat]]
      BY <1>1, <1>4, <1>5 DEF With, MemInv, MemType, d
<1>7. out' \in [T -> Seq(Pieces)]
  <2>1. Response(501, ErrorPage) \in Seq(Pieces)
        BY AnswerParts
  <2>. QED  BY <1>1, <2>1 DEF MemInv, MemType
<1>8. ASSUME NEW j, Past(j, {"idle", "init"})
      PROVE  Past(j, {"idle", "init"})'
      BY <1>1, <1>3, <1>8 DEF Past
<1>9. ASSUME NEW j, Past(j, {"idle", "init", "lookup", "readfile"})
      PROVE  Past(j, {"idle", "init", "lookup", "readfile"})'
      BY <1>1, <1>3, <1>9 DEF Past
<1>10. ASSUME NEW j \in DOMAIN file_data'
      PROVE  BufferOK(j)' /\ Past(j, {"idle", "init"})'
  <2>1. CASE j = k
    <3>1. Past(k, {"idle", "init"})'
          BY <1>1, <1>3 DEF Past
    <3>. QED  BY <1>5, <1>6, <2>1, <3>1 DEF BufferOK
  <2>2. CASE j # k
    <3>1. j \in DOMAIN file_data /\ file_data'[j] = file_data[j]
          BY <1>6, <2>2
    <3>. QED  BY <1>1, <1>8, <3>1 DEF BufferOK, MemInv
  <2>. QED  BY <2>1, <2>2
<1>11. ASSUME NEW n \in DOMAIN cache
      PROVE  CacheMemory(n)'
  <2>1. CacheMemory(n) /\ cache[n] \in DOMAIN file_data /\ cache[n] # k
        BY <1>4 DEF MemInv, CacheMemory, Whole
  <2>. QED  BY <1>1, <1>3, <1>6, <2>1 DEF CacheMemory, Whole
<1>12. ASSUME NEW t \in T
      PROVE  ThreadMemory(t)'
  <2>1. CASE t = s
        BY <1>1, <1>3, <1>5, <1>6, <2>1 DEF ThreadMemory, Data
  <2>2. CASE t # s
    <3>1. ThreadMemory(t) /\ serving'[t] = serving[t] /\ step'[t] = step[t] /\ serving[t] # k
          BY <1>3, <2>2 DEF MemInv
    <3>2. CASE step[t] \in {"idle", "init"}
          BY <3>1, <3>2 DEF ThreadMemory
    <3>3. CASE step[t] \notin {"idle", "init"}
      <4>1. serving[t] \in DOMAIN file_data /\ file_data'[serving[t]] = file_data[serving[t]]
            BY <1>6, <3>1, <3>3 DEF ThreadMemory
      <4>. QED  BY <1>3, <1>6, <3>1, <4>1 DEF ThreadMemory, Data, Whole
    <3>. QED  BY <3>2, <3>3
  <2>. QED  BY <2>1, <2>2
<1>13. ~UsesCache =>
       /\ \A j \in DOMAIN file_data' : file_data'[j].buf \in {0, j} /\ j \notin done
       /\ \A b \in DOMAIN file_buf : b \in DOMAIN file_data' /\ file_data'[b].buf = b
      BY <1>3, <1>5, <1>6 DEF MemInv
<1>14. \A b \in DOMAIN file_buf : Past(b, {"idle", "init", "lookup", "readfile"})'
      BY <1>9 DEF MemInv
<1>15. MemType'
      BY <1>1, <1>6, <1>7 DEF MemInv, MemType
<1>. QED  BY <1>1, <1>3, <1>10, <1>11, <1>12, <1>13, <1>14, <1>15 DEF MemInv

(* The memory of the other threads and of the cache, when the file data of  *)
(* one connection alone are changed.                                        *)
LEMMA MemOthers ==
  ASSUME PoolInv, MemInv, NEW s \in T, Goes(s), NEW k, k = serving[s],
         step[s] \in {"lookup", "readfile"}, step'[s] = "sendfile", UNCHANGED cache,
         DOMAIN file_data' = DOMAIN file_data,
         \A j \in DOMAIN file_data \ {k} : file_data'[j] = file_data[j]
  PROVE  /\ k \in DOMAIN file_data /\ k \notin done
         /\ \A n \in DOMAIN cache : cache[n] # k
         /\ \A n \in DOMAIN cache : CacheMemory(n)'
         /\ \A t \in T \ {s} : ThreadMemory(t)'
         /\ \A j : Past(j, {"idle", "init"}) => Past(j, {"idle", "init"})'
         /\ \A j : Past(j, {"idle", "init", "lookup", "readfile"})
              => Past(j, {"idle", "init", "lookup", "readfile"})'
         /\ Past(k, {"idle", "init", "lookup", "readfile"})'
         /\ UNCHANGED << done, serving >> /\ UsesCache' = UsesCache
<1>1. /\ UNCHANGED << done, serving >> /\ UsesCache' = UsesCache
      /\ \A t \in T \ {s} : step'[t] = step[t] /\ serving[t] # k
      /\ k \notin done
      BY PoolGoes, ThreadHas DEF config, UsesCache, Goes, poolVars
<1>2. k \in DOMAIN file_data
      BY DEF MemInv, ThreadMemory
<1>3. /\ \A j : Past(j, {"idle", "init"}) => Past(j, {"idle", "init"})'
      /\ \A j : Past(j, {"idle", "init", "lookup", "readfile"})
              => Past(j, {"idle", "init", "lookup", "readfile"})'
      /\ Past(k, {"idle", "init", "lookup", "readfile"})'
      BY <1>1 DEF Past
<1>4. \A n \in DOMAIN cache : cache[n] # k
      BY DEF MemInv, CacheMemory
<1>5. \A n \in DOMAIN cache : CacheMemory(n)'
  <2> SUFFICES ASSUME NEW n \in DOMAIN cache PROVE CacheMemory(n)'
      OBVIOUS
  <2>1. CacheMemory(n) /\ cache[n] \in DOMAIN file_data \ {k}
        BY <1>4 DEF MemInv, CacheMemory, Whole
  <2>. QED  BY <1>1, <2>1 DEF CacheMemory, Whole
<1>6. \A t \in T \ {s} : ThreadMemory(t)'
  <2> SUFFICES ASSUME NEW t \in T \ {s} PROVE ThreadMemory(t)'
      OBVIOUS
  <2>1. ThreadMemory(t) /\ serving'[t] = serving[t] /\ step'[t] = step[t] /\ serving[t] # k
        BY <1>1 DEF MemInv
  <2>2. CASE step[t] \in {"idle", "init"}
        BY <2>1, <2>2 DEF ThreadMemory
  <2>3. CASE step[t] \notin {"idle", "init"}
    <3>1. serving[t] \in DOMAIN file_data /\ file_data'[serving[t]] = file_data[serving[t]]
          BY <2>1, <2>3 DEF ThreadMemory
    <3>. QED  BY <1>1, <2>1, <3>1 DEF ThreadMemory, Data, Whole
  <2>. QED  BY <2>2, <2>3
<1>. QED  BY <1>1, <1>2, <1>3, <1>4, <1>5, <1>6

(* A file is read into a new buffer.                                        *)
LEMMA MemReadfile ==
  ASSUME PoolInv, MemInv, NEW s \in T, request_readfile(s)
  PROVE  MemInv'
<1> DEFINE n == Data(s).name
           k == serving[s]
<1>1. /\ step[s] = "readfile" /\ Goes(s) /\ step'[s] \notin {"idle", "init"} /\ UNCHANGED cache
      /\ UsesCache' = UsesCache /\ UNCHANGED << serving, done >>
  <2>1. step[s] = "readfile" /\ UNCHANGED << cache, config, poolVars >>
        BY DEF request_readfile, At
  <2>. QED  BY <2>1, ServeGoes DEF config, UsesCache, poolVars
<1>2. /\ k \in DOMAIN file_data /\ file_data[k] \in [name : Names, buf : Nat]
      /\ file_data[k].buf = 0 /\ k \in Nat \ {0}
      BY <1>1, ThreadHas DEF MemInv, MemType, ThreadMemory, Data, PoolInv, PoolType
<1>3. CASE /\ n \in DOMAIN Contents /\ Contents[n] # << >> /\ Goto(s, "sendfile") /\ out' = out
           /\ file_buf' = With(file_buf, k, Contents[n])
           /\ file_data' = [file_data EXCEPT ![k].buf = k]
  <2> HIDE DEF k
  <2>1. step'[s] = "sendfile"
        BY <1>3 DEF Goto, PoolInv, PoolType
  <2>2. PICK d \in [name : Names, buf : Nat] : d = [name |-> n, buf |-> k]
        BY <1>2 DEF Data, k
  <2>3. /\ DOMAIN file_data' = DOMAIN file_data
        /\ \A j \in DOMAIN file_data \ {k} : file_data'[j] = file_data[j]
        /\ file_data'[k] = d
    <3>1. file_data' = [file_data EXCEPT ![k] = [file_data[k] EXCEPT !.buf = k]]
          BY <1>3
    <3>2. [file_data[k] EXCEPT !.buf = k] = d
          BY <1>2, <2>2 DEF Data, k
    <3>. QED  BY <1>2, <3>1, <3>2
  <2>4. /\ DOMAIN file_buf' = DOMAIN file_buf \cup {k} /\ file_buf'[k] = Contents[n]
        /\ \A b \in DOMAIN file_buf \ {k} : file_buf'[b] = file_buf[b]
        BY <1>3 DEF With
  <2> HIDE DEF n
  <2>5. /\ k \notin done /\ \A m \in DOMAIN cache : CacheMemory(m)'
        /\ \A t \in T \ {s} : ThreadMemory(t)'
        /\ \A j : Past(j, {"idle", "init"}) => Past(j, {"idle", "init"})'
        /\ \A j : Past(j, {"idle", "init", "lookup", "readfile"})
             => Past(j, {"idle", "init", "lookup", "readfile"})'
        /\ Past(k, {"idle", "init", "lookup", "readfile"})'
        BY <1>1, <2>1, <2>3, MemOthers DEF k
  <2>6. k \notin DOMAIN file_buf
    <3>1. \A t \in T \ {s} : serving[t] # k
          BY <1>1, ThreadHas DEF k
    <3>. QED  BY <1>1, <2>5, <3>1 DEF MemInv, Past
  <2>7. ASSUME NEW j \in DOMAIN file_data
        PROVE  BufferOK(j)' /\ Past(j, {"idle", "init"})'
    <3>1. Past(j, {"idle", "init"})'
          BY <2>5 DEF MemInv
    <3>2. CASE j = k
          BY <1>2, <1>3, <2>2, <2>3, <2>4, <3>1, <3>2 DEF BufferOK
    <3>3. CASE j # k
      <4>1. BufferOK(j) /\ file_data'[j] = file_data[j]
            BY <2>3, <3>3 DEF MemInv
      <4>. QED  BY <2>4, <2>6, <3>1, <4>1 DEF BufferOK
    <3>. QED  BY <3>2, <3>3
  <2>8. ThreadMemory(s)'
    <3>1. Whole(serving[s])'
          BY <1>1, <1>2, <1>3, <2>2, <2>3 DEF Whole, k
    <3>. QED  BY <1>1, <1>2, <2>1, <2>3, <3>1 DEF ThreadMemory, k, Whole
  <2>9. MemType'
        BY <1>1, <1>3, <2>2, <2>3 DEF MemInv, MemType
  <2>10. ~UsesCache =>
           /\ \A j \in DOMAIN file_data' : file_data'[j].buf \in {0, j} /\ j \notin done
           /\ \A b \in DOMAIN file_buf' : b \in DOMAIN file_data' /\ file_data'[b].buf = b
    <3>1. d.buf = k
          BY <2>2
    <3>. QED  BY <1>2, <2>3, <2>4, <2>6, <3>1 DEF MemInv
  <2>11. \A b \in DOMAIN file_buf' : Past(b, {"idle", "init", "lookup", "readfile"})'
    <3>1. \A b \in DOMAIN file_buf : Past(b, {"idle", "init", "lookup", "readfile"})
          BY DEF MemInv
    <3>2. \A b \in DOMAIN file_buf : Past(b, {"idle", "init", "lookup", "readfile"})'
          BY <2>5, <3>1
    <3>3. k' = k
          BY <1>1 DEF k
    <3>. QED  BY <2>4, <2>5, <3>2, <3>3
  <2>. QED  BY <1>1, <2>3, <2>5, <2>7, <2>8, <2>9, <2>10, <2>11 DEF MemInv
<1>4. CASE n \in DOMAIN Contents /\ Contents[n] = << >> /\ Goto(s, "sendfile") /\ out' = out
           /\ UNCHANGED << file_buf, file_data >>
  <2>1. step'[s] = "sendfile"
        BY <1>4 DEF Goto, PoolInv, PoolType
  <2>2. ThreadMemory(s)'
        BY <1>1, <1>2, <1>4, <2>1 DEF ThreadMemory, Whole, Data
  <2>3. out' \in [T -> Seq(Pieces)] /\ UNCHANGED memVars
        BY <1>1, <1>4 DEF MemInv, MemType, memVars
  <2>. QED  BY <1>1, <2>1, <2>2, <2>3, MemGoes
<1>5. CASE n \notin DOMAIN Contents /\ request_error(s, Refused[n]) /\ UNCHANGED << file_buf, file_data >>
  <2>1. step'[s] = "error"
        BY <1>5 DEF request_error, Goto, PoolInv, PoolType
  <2>2. ThreadMemory(s)'
        BY <1>1, <1>2, <1>5, <2>1 DEF ThreadMemory, Whole, Data
  <2>3. Response(Refused[n], ErrorPage) \in Seq(Pieces)
    <3>1. n \in DOMAIN Refused
          BY <1>2, <1>5 DEF Data, Names
    <3>2. Response(Refused[n], ErrorPage) \in Answers
          BY <3>1 DEF Answers
    <3>. QED  BY <3>2, AnswersSeq
  <2>4. out' \in [T -> Seq(Pieces)] /\ UNCHANGED memVars
        BY <1>1, <1>5, <2>3 DEF MemInv, MemType, memVars, request_error
  <2>. QED  BY <1>1, <2>1, <2>2, <2>4, MemGoes
<1>. QED  BY <1>3, <1>4, <1>5 DEF request_readfile

(* A hit shares the buffer of the file data in the cache.                   *)
LEMMA MemLookup ==
  ASSUME PoolInv, MemInv, NEW s \in T, Cache_lookup(s)
  PROVE  MemInv'
<1> DEFINE n == Data(s).name
           k == serving[s]
<1>1. /\ step[s] = "lookup" /\ Goes(s) /\ step'[s] \notin {"idle", "init"}
      /\ UNCHANGED << cache, file_buf, out >>
      /\ UsesCache' = UsesCache /\ UNCHANGED << serving, done >>
  <2>1. step[s] = "lookup" /\ UNCHANGED << cache, config, poolVars, file_buf, out >>
        BY DEF Cache_lookup, At
  <2>. QED  BY <2>1, ServeGoes DEF config, UsesCache, poolVars
<1>2. /\ k \in DOMAIN file_data /\ file_data[k] \in [name : Names, buf : Nat]
      /\ UsesCache /\ file_data[k].buf = 0
      BY <1>1 DEF MemInv, MemType, ThreadMemory, Data
<1>3. CASE /\ n \in DOMAIN cache /\ Goto(s, "sendfile")
           /\ file_data' = [file_data EXCEPT ![k].buf = file_data[cache[n]].buf]
  <2>1. step'[s] = "sendfile"
        BY <1>3 DEF Goto, PoolInv, PoolType
  <2>2. PICK c \in DOMAIN file_data : c = cache[n] /\ file_data[c].name = n /\ Whole(c)
        BY <1>3 DEF MemInv, CacheMemory, Whole
  <2> DEFINE b == file_data[c].buf
  <2>3. b \in Nat /\ BufferOK(c)
        BY DEF MemInv, MemType
  <2> HIDE DEF k
  <2>4. PICK d \in [name : Names, buf : Nat] : d = [name |-> n, buf |-> b]
        BY <1>2, <2>3 DEF Data, k
  <2>5. /\ DOMAIN file_data' = DOMAIN file_data
        /\ \A j \in DOMAIN file_data \ {k} : file_data'[j] = file_data[j]
        /\ file_data'[k] = d
    <3>1. file_data' = [file_data EXCEPT ![k] = [file_data[k] EXCEPT !.buf = b]]
          BY <1>3, <2>2
    <3>2. [file_data[k] EXCEPT !.buf = b] = d
          BY <1>2, <2>4 DEF Data, k
    <3>. QED  BY <1>2, <3>1, <3>2
  <2> HIDE DEF n
  <2>6. /\ \A m \in DOMAIN cache : CacheMemory(m)'
        /\ \A t \in T \ {s} : ThreadMemory(t)'
        /\ \A j : Past(j, {"idle", "init"}) => Past(j, {"idle", "init"})'
        /\ \A j : Past(j, {"idle", "init", "lookup", "readfile"})
             => Past(j, {"idle", "init", "lookup", "readfile"})'
        BY <1>1, <2>1, <2>5, MemOthers DEF k
  <2>7. /\ n \in DOMAIN Contents /\ b = 0 => Contents[n] = << >>
        /\ n \in DOMAIN Contents /\ (b # 0 => b \in DOMAIN file_buf /\ file_buf[b] = Contents[n])
        BY <2>2, <2>3 DEF Whole, BufferOK
  <2> HIDE DEF b
  <2>8. ASSUME NEW j \in DOMAIN file_data
        PROVE  BufferOK(j)' /\ Past(j, {"idle", "init"})'
    <3>1. Past(j, {"idle", "init"})' /\ BufferOK(j)
          BY <2>6 DEF MemInv
    <3>2. CASE j = k
          BY <1>1, <2>4, <2>5, <2>7, <3>1, <3>2 DEF BufferOK
    <3>3. CASE j # k
          BY <1>1, <2>5, <3>1, <3>3 DEF BufferOK
    <3>. QED  BY <3>2, <3>3
  <2>9. ThreadMemory(s)'
    <3>1. Whole(serving[s])'
          BY <1>1, <1>2, <2>4, <2>5, <2>7 DEF Whole, k
    <3>. QED  BY <1>1, <1>2, <2>1, <2>5, <3>1 DEF ThreadMemory, k, Whole
  <2>10. MemType'
    <3>1. file_data' \in [DOMAIN file_data' -> [name : Names, buf : Nat]]
          BY <1>3, <2>4, <2>5 DEF MemInv, MemType
    <3>. QED  BY <1>1, <3>1 DEF MemInv, MemType
  <2>11. \A e \in DOMAIN file_buf : Past(e, {"idle", "init", "lookup", "readfile"})'
        BY <2>6 DEF MemInv
  <2>. QED  BY <1>1, <1>2, <2>5, <2>6, <2>8, <2>9, <2>10, <2>11 DEF MemInv
<1>4. CASE Goto(s, "readfile") /\ UNCHANGED file_data
  <2>1. step'[s] = "readfile"
        BY <1>4 DEF Goto, PoolInv, PoolType
  <2>2. ThreadMemory(s)'
        BY <1>1, <1>2, <1>4, <2>1 DEF ThreadMemory, Data
  <2>3. out' \in [T -> Seq(Pieces)] /\ UNCHANGED memVars
        BY <1>1, <1>4 DEF MemInv, MemType, memVars
  <2>. QED  BY <1>1, <2>1, <2>2, <2>3, MemGoes
<1>. QED  BY <1>3, <1>4 DEF Cache_lookup

(* What a thread sends is the file.                                         *)
LEMMA SendsFile ==
  ASSUME MemInv, NEW s \in T, step[s] = "sendfile"
  PROVE  /\ Data(s).name \in DOMAIN Contents /\ Bytes(s) = Contents[Data(s).name]
         /\ Response(200, Bytes(s)) \in Seq(Pieces)
<1>1. Whole(serving[s]) /\ BufferOK(serving[s])
      BY DEF MemInv, ThreadMemory, Whole
<1>2. Data(s).name \in DOMAIN Contents /\ Bytes(s) = Contents[Data(s).name]
      BY <1>1 DEF Whole, BufferOK, Bytes, Data
<1>3. Response(200, Contents[Data(s).name]) \in Answers
      BY <1>2 DEF Answers
<1>. QED  BY <1>2, <1>3, AnswersSeq

(* A file enters the cache.                                                 *)
LEMMA MemInsert ==
  ASSUME PoolInv, MemInv, NEW s \in T, Goes(s), step[s] = "insert", step'[s] = "destroy",
         NEW n, n = Data(s).name, cache' = With(cache, n, serving[s]),
         UNCHANGED << file_data, file_buf, out >>
  PROVE  MemInv'
<1>1. PICK k \in DOMAIN file_data : k = serving[s] /\ Whole(k) /\ n = file_data[k].name
      BY DEF MemInv, ThreadMemory, Whole, Data
<1>2. /\ UNCHANGED << done, serving >> /\ UsesCache' = UsesCache
      /\ \A t \in T \ {s} : step'[t] = step[t] /\ serving[t] # k
      /\ k \in Nat
      BY <1>1, PoolGoes, ThreadHas DEF config, UsesCache, Goes, poolVars, PoolInv, PoolType
<1>3. UsesCache
      BY DEF MemInv, ThreadMemory
<1>4. /\ DOMAIN cache' = DOMAIN cache \cup {n} /\ cache'[n] = k
      /\ \A m \in DOMAIN cache \ {n} : cache'[m] = cache[m]
      BY <1>1 DEF With
<1>5. \A j : /\ Past(j, {"idle", "init"}) => Past(j, {"idle", "init"})'
             /\ Past(j, {"idle", "init", "lookup", "readfile"})
                  => Past(j, {"idle", "init", "lookup", "readfile"})'
      BY <1>2 DEF Past
<1>6. ASSUME NEW m \in DOMAIN cache'
      PROVE  CacheMemory(m)'
  <2>1. CASE m = n
        BY <1>1, <1>2, <1>3, <1>4, <2>1 DEF CacheMemory, Whole
  <2>2. CASE m # n
    <3>1. cache'[m] = cache[m] /\ CacheMemory(m)
          BY <1>4, <2>2 DEF MemInv
    <3>2. cache[m] # k
          BY <1>1, <3>1 DEF CacheMemory
    <3>. QED  BY <1>1, <1>2, <3>1, <3>2 DEF CacheMemory, Whole
  <2>. QED  BY <2>1, <2>2
<1>7. ASSUME NEW t \in T
      PROVE  ThreadMemory(t)'
  <2>1. CASE t = s
        BY <1>1, <1>2, <2>1 DEF ThreadMemory, Data
  <2>2. CASE t # s
        BY <1>2, <2>2 DEF MemInv, ThreadMemory, Data, Whole
  <2>. QED  BY <2>1, <2>2
<1>8. MemType'
  <2>1. cache' \in [DOMAIN cache' -> Nat]
        BY <1>1, <1>2 DEF With, MemInv, MemType
  <2>. QED  BY <2>1 DEF MemInv, MemType
<1>. QED  BY <1>2, <1>3, <1>5, <1>6, <1>7, <1>8 DEF MemInv, BufferOK

(* A block is dropped.                                                      *)
LEMMA MemEvict ==
  ASSUME MemInv, NEW s \in T, Cache_evict(s)
  PROVE  MemInv'
<1>1. /\ UNCHANGED << done, serving, step, out, file_data, file_buf >> /\ UsesCache' = UsesCache
      BY DEF Cache_evict, config, UsesCache, poolVars
<1>2. /\ DOMAIN cache' \subseteq DOMAIN cache /\ \A n \in DOMAIN cache' : cache'[n] = cache[n]
      /\ cache' \in [DOMAIN cache' -> Nat]
      BY DEF Cache_evict, Without, MemInv, MemType
<1>3. \A n \in DOMAIN cache' : CacheMemory(n)'
      BY <1>1, <1>2 DEF MemInv, CacheMemory, Whole
<1>4. \A t \in T : ThreadMemory(t)'
      BY <1>1 DEF MemInv, ThreadMemory, Data, Whole
<1>. QED  BY <1>1, <1>2, <1>3, <1>4 DEF MemInv, MemType, BufferOK, Past

(* File data are freed with the buffer that no one else uses.               *)
LEMMA MemFree ==
  ASSUME PoolInv, MemInv, NEW s \in T, file_data_free(s)
  PROVE  MemInv'
<1>1. step[s] = "free" /\ Return(s) /\ UNCHANGED << cache, out, accepted >>
      BY DEF file_data_free, At, Return, netVars
<1>2. PICK k \in DOMAIN file_data : k = serving[s] /\ k \in Nat \ {0} /\ k \notin done
      BY <1>1, ThreadHas DEF MemInv, ThreadMemory, PoolInv, PoolType
<1>3. PICK b \in Nat : b = file_data[k].buf
      BY DEF MemInv, MemType
<1>4. /\ done' = done \cup {k} /\ serving'[s] = 0 /\ step'[s] = "idle" /\ UsesCache' = UsesCache
      /\ \A t \in T \ {s} : serving'[t] = serving[t] /\ step'[t] = step[t] /\ serving[t] # k
      BY <1>1, <1>2, PoolReturn, ThreadHas DEF Return, config, UsesCache
<1>5. /\ file_data' = Without(file_data, k) /\ file_buf' = Without(file_buf, b)
      BY <1>2, <1>3 DEF file_data_free, Data
<1>6. /\ DOMAIN file_data' = DOMAIN file_data \ {k}
      /\ \A j \in DOMAIN file_data' : file_data'[j] = file_data[j]
      /\ DOMAIN file_buf' = DOMAIN file_buf \ {b}
      /\ \A j \in DOMAIN file_buf' : file_buf'[j] = file_buf[j]
      BY <1>5 DEF Without
<1>7. /\ 0 \notin DOMAIN file_buf
      /\ UsesCache => b = 0
      /\ ~UsesCache => b \in {0, k}
  <2>1. 0 \notin done /\ \A t \in T : serving[t] = 0 => step[t] = "idle"
        BY DEF PoolInv, PoolType
  <2>2. 0 \notin DOMAIN file_buf
        BY <2>1 DEF MemInv, Past
  <2>. QED  BY <1>1, <1>2, <1>3, <2>2 DEF MemInv, ThreadMemory, Data
<1>8. \A j : /\ Past(j, {"idle", "init"}) => Past(j, {"idle", "init"})'
             /\ Past(j, {"idle", "init", "lookup", "readfile"})
                  => Past(j, {"idle", "init", "lookup", "readfile"})'
      BY <1>2, <1>4 DEF Past
<1>9. ASSUME NEW j \in DOMAIN file_data', file_data'[j].buf # 0
      PROVE  file_data'[j].buf # b
  <2>1. j # k /\ file_data'[j] = file_data[j] /\ j \in DOMAIN file_data
        BY <1>6
  <2>2. CASE UsesCache
        BY <1>7, <1>9, <2>2
  <2>3. CASE ~UsesCache
    <3>1. file_data[j].buf \in {0, j}
          BY <2>1, <2>3 DEF MemInv
    <3>. QED  BY <1>7, <1>9, <2>1, <2>3, <3>1
  <2>. QED  BY <2>2, <2>3
<1>10. ASSUME NEW j \in DOMAIN file_data'
       PROVE  BufferOK(j)' /\ Past(j, {"idle", "init"})'
  <2>1. j \in DOMAIN file_data /\ file_data'[j] = file_data[j]
        BY <1>6
  <2>2. BufferOK(j) /\ Past(j, {"idle", "init"})'
        BY <1>8, <2>1 DEF MemInv
  <2>. QED  BY <1>6, <1>9, <2>1, <2>2 DEF BufferOK
<1>11. ASSUME NEW n \in DOMAIN cache
       PROVE  CacheMemory(n)'
  <2>1. CacheMemory(n) /\ cache[n] # k
        BY <1>1, <1>2 DEF MemInv, CacheMemory
  <2>. QED  BY <1>1, <1>4, <1>6, <2>1 DEF CacheMemory, Whole
<1>12. ASSUME NEW t \in T
       PROVE  ThreadMemory(t)'
  <2>1. CASE t = s
        BY <1>4, <2>1 DEF ThreadMemory
  <2>2. CASE t # s
    <3>1. ThreadMemory(t) /\ serving'[t] = serving[t] /\ step'[t] = step[t] /\ serving[t] # k
          BY <1>4, <2>2 DEF MemInv
    <3>2. CASE step[t] \in {"idle", "init"}
          BY <3>1, <3>2 DEF ThreadMemory
    <3>3. CASE step[t] \notin {"idle", "init"}
      <4>1. serving[t] \in DOMAIN file_data' /\ file_data'[serving[t]] = file_data[serving[t]]
            BY <1>6, <3>1, <3>3 DEF ThreadMemory
      <4>. QED  BY <1>4, <1>6, <3>1, <4>1 DEF ThreadMemory, Data, Whole
    <3>. QED  BY <3>2, <3>3
  <2>. QED  BY <2>1, <2>2
<1>13. ~UsesCache =>
       /\ \A j \in DOMAIN file_data' : file_data'[j].buf \in {0, j} /\ j \notin done'
       /\ \A c \in DOMAIN file_buf' : c \in DOMAIN file_data' /\ file_data'[c].buf = c
  <2> SUFFICES ASSUME ~UsesCache
               PROVE  /\ \A j \in DOMAIN file_data' : file_data'[j].buf \in {0, j} /\ j \notin done'
                      /\ \A c \in DOMAIN file_buf' : c \in DOMAIN file_data' /\ file_data'[c].buf = c
      OBVIOUS
  <2>1. \A j \in DOMAIN file_data' : file_data'[j].buf \in {0, j} /\ j \notin done'
        BY <1>4, <1>6 DEF MemInv
  <2>2. ASSUME NEW c \in DOMAIN file_buf'
        PROVE  c \in DOMAIN file_data' /\ file_data'[c].buf = c
    <3>1. c \in DOMAIN file_buf /\ c # b /\ c \in DOMAIN file_data /\ file_data[c].buf = c
          BY <1>6 DEF MemInv
    <3>2. c # k
          BY <1>3, <3>1
    <3>. QED  BY <1>6, <3>1, <3>2
  <2>. QED  BY <2>1, <2>2
<1>14. MemType'
  <2>1. file_data' \in [DOMAIN file_data' -> [name : Names, buf : Nat]]
        BY <1>5 DEF Without, MemInv, MemType
  <2>. QED  BY <1>1, <2>1 DEF MemInv, MemType
<1>15. \A c \in DOMAIN file_buf' : Past(c, {"idle", "init", "lookup", "readfile"})'
      BY <1>6, <1>8 DEF MemInv
<1>. QED  BY <1>1, <1>4, <1>10, <1>11, <1>12, <1>13, <1>14, <1>15 DEF MemInv

(* In every step of a thread.                                               *)
LEMMA MemServe ==
  ASSUME PoolInv, NetType, DescInv, MemInv, NEW s \in T, Serve(s) \/ Cache_evict(s)
  PROVE  MemInv'
<1>0. out[s] \in Seq(Pieces) /\ out \in [T -> Seq(Pieces)]
      BY DEF MemInv, MemType
<1>1. CASE request_sendfile(s)
  <2>1. /\ step[s] = "sendfile" /\ Goes(s) /\ step'[s] = "send"
        /\ out' = [out EXCEPT ![s] = Response(200, Bytes(s))]
        /\ UNCHANGED memVars
        BY <1>1, ServeGoes DEF request_sendfile, At, Goto, PoolInv, PoolType
  <2>2. out' \in [T -> Seq(Pieces)]
        BY <1>0, <2>1, SendsFile
  <2>3. ThreadMemory(s)'
        BY <2>1 DEF MemInv, ThreadMemory, Whole, memVars, Goes, poolVars
  <2>. QED  BY <2>1, <2>2, <2>3, MemGoes
<1>2. CASE request_write(s)
  <2>1. /\ step[s] \in {"send", "error"} /\ Goes(s) /\ UNCHANGED memVars
        /\ step'[s] \notin {"idle", "init"}
        /\ UsesCache' = UsesCache
        BY <1>2, ServeGoes DEF request_write, config, UsesCache
  <2>0. PICK k \in 1 .. Len(conn), piece \in Seq(Pieces), rest \in Seq(Pieces) :
          WritesPiece(s, k, piece, rest)
        BY <1>0, <1>2, Writes
  <2>2. /\ out' = [out EXCEPT ![s] = rest]
        /\ step'[s] = IF rest # << >> THEN step[s]
                      ELSE IF step[s] = "error" THEN "fail"
                      ELSE IF UsesCache THEN "insert" ELSE "destroy"
        BY <2>0 DEF WritesPiece
  <2>3. out' \in [T -> Seq(Pieces)]
        BY <1>0, <2>2
  <2>4. ThreadMemory(s)'
        BY <2>1, <2>2 DEF MemInv, ThreadMemory, Whole, memVars, Goes, poolVars, Data
  <2>. QED  BY <2>1, <2>2, <2>3, <2>4, MemGoes
<1>3. CASE request_destroy(s)
  <2>1. /\ step[s] \in {"destroy", "fail"} /\ Goes(s) /\ UNCHANGED << memVars, out >>
        /\ step'[s] = IF step[s] = "destroy" /\ UsesCache THEN "return" ELSE "free"
        /\ UsesCache' = UsesCache
        BY <1>3, ServeGoes DEF request_destroy, config, UsesCache, Goto, PoolInv, PoolType
  <2>2. ThreadMemory(s)'
        BY <2>1 DEF MemInv, ThreadMemory, Whole, memVars, Goes, poolVars, Data
  <2>. QED  BY <1>0, <2>1, <2>2, MemGoes
<1>4. CASE Cache_insert(s)
  <2>1. /\ step[s] = "insert" /\ Goes(s) /\ UNCHANGED << file_data, file_buf, out >>
        /\ step'[s] = "destroy" /\ UsesCache' = UsesCache
        BY <1>4, ServeGoes DEF Cache_insert, At, config, UsesCache, Goto, PoolInv, PoolType
  <2>2. PICK n : n = Data(s).name
        OBVIOUS
  <2>3. CASE cache' = With(cache, n, serving[s])
        BY <2>1, <2>2, <2>3, MemInsert
  <2>4. CASE UNCHANGED cache
    <3>1. ThreadMemory(s)'
          BY <2>1, <2>4 DEF MemInv, ThreadMemory, Whole, Goes, poolVars, Data
    <3>. QED  BY <1>0, <2>1, <2>4, <3>1, MemGoes DEF memVars
  <2>. QED  BY <1>4, <2>2, <2>3, <2>4 DEF Cache_insert
<1>5. CASE do_server_request_returns(s)
      BY <1>5, MemReturn DEF do_server_request_returns, At
<1>. QED  BY <1>1, <1>2, <1>3, <1>4, <1>5, MemInit, MemReadfile, MemLookup, MemFree, MemEvict
          DEF Serve

-----------------------------------------------------------------------------
(* Answers                                                                  *)

(* What has come of the answer, and what is to come, are sequences.         *)
LEMMA ArrivingSeq ==
  ASSUME NetType, ClientInv, NEW c \in Clients, Live(c)
  PROVE  Arriving(c) \in Seq(Pieces)
BY LiveFacts, ConcatProperties DEF Arriving

(* A thread at work has begun its connection unless it has still to read    *)
(* the request.                                                             *)
LEMMA BegunFacts ==
  ASSUME PoolInv, NEW s \in T, step[s] # "idle"
  PROVE  Begun(serving[s]) <=> step[s] # "init"
BY ThreadHas DEF Begun, Past

(* A step that leaves the connection k of the client c alone, and the       *)
(* thread that serves it.                                                   *)
LEMMA AnswerStays ==
  ASSUME PoolInv, NEW c \in Clients, ClientOK(c), NEW k, k = fd[c], k # 0,
         at'[c] = at[c] /\ fd'[c] = fd[c] /\ asked'[c] = asked[c],
         Arriving(c)' = Arriving(c),
         conn'[k].peer = conn[k].peer /\ conn'[k].request = conn[k].request,
         up' => up /\ conn'[k].served = conn[k].served /\ conn'[k].unread = conn[k].unread,
         k \in done' <=> k \in done,
         \A t \in T : serving'[t] = k <=> serving[t] = k,
         \A t \in T : serving[t] = k => step'[t] = step[t] /\ out'[t] = out[t],
         \A t \in T : serving[t] = k /\ step[t] # "init" => file_data'[k].name = file_data[k].name
  PROVE  ClientOK(c)'
<1>1. Begun(k)' <=> Begun(k)
      BY DEF Begun, Past
<1>2. ASSUME NEW t \in T, serving'[t] = k, Begun(k)
      PROVE  Reply(c, t)'
  <2>1. serving[t] = k /\ step'[t] = step[t] /\ out'[t] = out[t] /\ step[t] # "idle"
        BY <1>2 DEF PoolInv
  <2>2. file_data'[k].name = file_data[k].name
        BY <1>2, <2>1, BegunFacts
  <2>3. Reply(c, t)
        BY <1>2, <2>1 DEF ClientOK
  <2>4. Closed(t)' <=> Closed(t)
        BY <2>1 DEF Closed
  <2>. QED  BY <2>1, <2>2, <2>3, <2>4 DEF Reply
<1>3. fd'[c] = k
      OBVIOUS
<1>. QED  BY <1>1, <1>2, <1>3 DEF ClientOK

(* A thread begins a connection: the answer of its client is not begun.     *)
LEMMA AnswerBegin ==
  ASSUME PoolInv, PoolInv', NEW c \in Clients, Live(c), ClientOK(c), fd[c] # 0,
         NEW s \in T, step[s] = "idle", step'[s] = "init",
         \A t \in T \ {s} : serving'[t] = serving[t] /\ step'[t] = step[t],
         UNCHANGED << netVars, clientVars, done, file_data, out >>
  PROVE  ClientOK(c)'
<1>1. PICK k : k = fd[c] /\ k # 0
      OBVIOUS
<1>2. /\ UNCHANGED << conn, up, at, fd, asked, received >>
      /\ Arriving(c)' = Arriving(c)
      BY DEF netVars, clientVars, Arriving
<1>3. CASE serving'[s] # k
  <2>1. serving[s] # k
        BY <1>1 DEF PoolInv
  <2>2. \A t \in T : (serving'[t] = k <=> serving[t] = k) /\ (serving[t] = k => step'[t] = step[t])
        BY <1>3, <2>1
  <2>. QED  BY <1>1, <1>2, <2>2, AnswerStays
<1>4. CASE serving'[s] = k
  <2>1. k \notin done /\ \A t \in T \ {s} : serving[t] # k
        BY <1>1, <1>4 DEF PoolInv
  <2>2. ~Begun(k) /\ ~Begun(k)'
        BY <1>4, <2>1 DEF Begun, Past
  <2>. QED  BY <1>1, <1>2, <2>2 DEF ClientOK
<1>. QED  BY <1>3, <1>4

(* What a thread does with its connection does not touch another one.       *)
LEMMA ServeOther ==
  ASSUME PoolInv, NetType, DescInv, MemInv, NEW s \in T, Serve(s),
         NEW k \in 1 .. Len(conn), k # serving[s]
  PROVE  /\ conn'[k].peer = conn[k].peer /\ conn'[k].request = conn[k].request
         /\ conn'[k].response = conn[k].response
         /\ up' => up /\ conn'[k].served = conn[k].served /\ conn'[k].unread = conn[k].unread
         /\ k \in done' <=> k \in done
         /\ \A t \in T : serving'[t] = k <=> serving[t] = k
         /\ \A t \in T : serving[t] = k => step'[t] = step[t] /\ out'[t] = out[t]
         /\ \A t \in T : serving[t] = k /\ step[t] # "init"
              => file_data'[k].name = file_data[k].name
<1>1. out \in [T -> Seq(Pieces)] /\ out[s] \in Seq(Pieces) /\ k # 0
      BY DEF MemInv, MemType
<1>2. \A t \in T : serving[t] = k /\ step[t] # "init" => k \in DOMAIN file_data
      BY <1>1 DEF MemInv, ThreadMemory, PoolInv
<1>3. /\ conn'[k].peer = conn[k].peer /\ conn'[k].request = conn[k].request
      /\ conn'[k].response = conn[k].response
      /\ up' => up /\ conn'[k].served = conn[k].served /\ conn'[k].unread = conn[k].unread
  <2>1. CASE \/ Cache_lookup(s) \/ request_readfile(s) \/ request_sendfile(s) \/ Cache_insert(s)
             \/ file_data_free(s) \/ do_server_request_returns(s)
        BY <2>1 DEF Cache_lookup, request_readfile, request_sendfile, Cache_insert,
                    file_data_free, do_server_request_returns, Return, netVars
  <2>2. CASE request_init(s)
    <3>1. PICK j \in 1 .. Len(conn), r \in Lines, rest \in BOOLEAN : ReadsLine(s, j, r, rest)
          BY <2>2, Reads
    <3> DEFINE v == [conn[j] EXCEPT !.request = << >>, !.unread = rest]
    <3> HIDE DEF v
    <3>2. conn'[k] = conn[k] /\ up' = up
          BY <3>1 DEF ReadsLine, OneChanges, NetType, v
    <3>3. up
          BY <2>2 DEF request_init, At
    <3>. QED  BY <3>2, <3>3
  <2>3. CASE request_write(s)
    <3>1. PICK j \in 1 .. Len(conn), piece \in Seq(Pieces), rest \in Seq(Pieces) :
            WritesPiece(s, j, piece, rest)
          BY <1>1, <2>3, Writes
    <3>2. CASE OneChanges(j, [conn[j] EXCEPT !.response = @ \o piece])
      <4> DEFINE v == [conn[j] EXCEPT !.response = @ \o piece]
      <4> HIDE DEF v
      <4>1. conn'[k] = conn[k] /\ up' = up
            BY <3>1, <3>2 DEF WritesPiece, OneChanges, NetType, v
      <4>. QED  BY <4>1
    <3>3. CASE UNCHANGED netVars
          BY <3>3 DEF netVars
    <3>4. CASE ServerEnds
          BY <3>4, NetEnds
    <3>. QED  BY <3>1, <3>2, <3>3, <3>4 DEF WritesPiece
  <2>4. CASE request_destroy(s)
    <3>1. PICK j \in 1 .. Len(conn), rest \in Seq(Pieces) : ClosesConn(s, j, rest)
          BY <2>4, Closes
    <3> DEFINE v == [conn[j] EXCEPT !.served = FALSE, !.response = rest]
    <3> HIDE DEF v
    <3>2. conn'[k] = conn[k]
          BY <3>1 DEF ClosesConn, v
    <3>. QED  BY <3>1, <3>2 DEF ClosesConn
  <2>. QED  BY <2>1, <2>2, <2>3, <2>4 DEF Serve
<1>4. CASE file_data_free(s) \/ do_server_request_returns(s)
  <2>1. Return(s) /\ UNCHANGED << out, accepted >>
        BY <1>4 DEF file_data_free, do_server_request_returns, Return, netVars
  <2>2. /\ step[s] # "idle" /\ done' = done \cup {serving[s]} /\ serving'[s] = 0
        /\ \A t \in T \ {s} : serving'[t] = serving[t] /\ step'[t] = step[t]
        BY <2>1, PoolReturn
  <2>3. k \in DOMAIN file_data => file_data'[k] = file_data[k]
        BY <1>4 DEF file_data_free, do_server_request_returns, Without
  <2>. QED  BY <1>1, <1>2, <1>3, <2>1, <2>2, <2>3
<1>5. CASE \/ request_init(s) \/ Cache_lookup(s) \/ request_readfile(s) \/ request_sendfile(s)
           \/ request_write(s) \/ Cache_insert(s) \/ request_destroy(s)
  <2>1. /\ UNCHANGED << serving, done >> /\ \A t \in T \ {s} : step'[t] = step[t]
        BY <1>5, ServeGoes, PoolGoes DEF Goes, poolVars
  <2>2. \A t \in T \ {s} : out'[t] = out[t]
        BY <1>1, <1>5 DEF request_init, Cache_lookup, request_readfile, request_sendfile,
                    request_write, Cache_insert, request_destroy, request_error
  <2>3. k \in DOMAIN file_data => file_data'[k] = file_data[k]
        BY <1>5 DEF request_init, Cache_lookup, request_readfile, request_sendfile,
                    request_write, Cache_insert, request_destroy, request_error, With, memVars
  <2>. QED  BY <1>2, <1>3, <2>1, <2>2, <2>3
<1>. QED  BY <1>4, <1>5 DEF Serve

(* The client of a thread that has read its request.                        *)
LEMMA ReplyFacts ==
  ASSUME PoolInv, NEW c \in Clients, Live(c), ClientOK(c), NEW s \in T,
         step[s] \notin {"idle", "init"}, fd[c] = serving[s]
  PROVE  /\ at[c] = "receive" /\ asked[c] \in Lines /\ conn[fd[c]].peer /\ Reply(c, s)
         /\ IsPrefix(Arriving(c), Answer(asked[c]))
<1>1. Begun(fd[c])
      BY BegunFacts
<1>2. at[c] = "receive"
      BY <1>1 DEF ClientOK, Live
<1>. QED  BY <1>1, <1>2 DEF ClientOK

(* A thread goes on with the answer.                                        *)
LEMMA AnswerGoes ==
  ASSUME PoolInv, NEW c \in Clients, NEW s \in T, Goes(s), step'[s] \notin {"idle", "init"},
         at[c] = "receive", asked[c] \in Lines, fd[c] = serving[s], UNCHANGED clientVars,
         conn'[fd[c]].peer, IsPrefix(Arriving(c)', Answer(asked[c])), Reply(c, s)'
  PROVE  ClientOK(c)'
<1>1. PICK k : k = fd[c] /\ k = serving[s]
      OBVIOUS
<1>2. /\ UNCHANGED << serving, done, at, fd, asked, received >>
      /\ k \notin done /\ \A t \in T \ {s} : serving[t] # k
      BY <1>1, ThreadHas DEF Goes, poolVars, clientVars
<1>3. Begun(k)' /\ fd'[c] = k /\ at'[c] = "receive"
      BY <1>1, <1>2 DEF Begun, Past
<1>4. \A t \in T : serving'[t] = k => Reply(c, t)'
      BY <1>2
<1>5. IsPrefix(Arriving(c), Answer(asked[c]))'
      BY <1>2 DEF Answer
<1>. QED  BY <1>1, <1>2, <1>3, <1>4, <1>5 DEF ClientOK

(* The request of the client is read.                                       *)
LEMMA AnswerInit ==
  ASSUME PoolInv, NetType, DescInv, MemInv, ClientInv, NEW c \in Clients, Live(c), ClientOK(c),
         NEW s \in T, request_init(s), fd[c] = serving[s], UNCHANGED clientVars
  PROVE  ClientOK(c)'
<1>1. PICK k \in 1 .. Len(conn), r \in Lines, rest \in BOOLEAN : ReadsLine(s, k, r, rest)
      BY Reads
<1>2. k = serving[s] /\ k = fd[c] /\ step[s] = "init" /\ up /\ conn[k].request = << r >>
      BY <1>1 DEF ReadsLine, request_init, At
<1>3. ~Begun(k)
      BY <1>2, BegunFacts
<1>4. /\ at[c] = "receive" /\ asked[c] = r /\ conn[k].peer /\ conn[k].served
      /\ Arriving(c) = << >>
      BY <1>2, <1>3 DEF ClientOK, Live
<1> DEFINE v == [conn[k] EXCEPT !.request = << >>, !.unread = rest]
<1>5. v \in Conns /\ v.response = conn[k].response /\ v.unread = rest
      /\ v.peer = conn[k].peer /\ v.served = conn[k].served
      BY ConnType DEF Conns
<1>6. OneChanges(k, v)
      BY <1>1 DEF ReadsLine
<1> HIDE DEF v
<1>7. conn'[k] = v /\ up' = up
      BY <1>5, <1>6, NetOne DEF OneChanges
<1>8. UNCHANGED << at, fd, asked, received, serving >> /\ Goes(s) /\ step'[s] \notin {"idle", "init"}
      /\ ~Closed(s)'
      BY <1>2, ServeGoes DEF clientVars, Goes, poolVars
<1>9. Arriving(c)' = << >>
      BY <1>2, <1>4, <1>5, <1>7, <1>8 DEF Arriving
<1>10. << >> \in Seq(Pieces) /\ \A a \in Seq(Pieces) : << >> \o a = a
      BY EmptySeq, ConcatEmptySeq
<1>11. Answer(r) \in Seq(Pieces) /\ IsPrefix(<< >>, Answer(r))
      BY AnswerExists, PrefixFacts
<1>12. file_data'[k].name = r.uri
      BY <1>1 DEF ReadsLine, With
<1>13. CASE /\ r.method = "GET" /\ ~rest
            /\ step'[s] = IF UsesCache THEN "lookup" ELSE "readfile"
  <2>1. Reply(c, s)'
        BY <1>2, <1>4, <1>5, <1>7, <1>8, <1>9, <1>12, <1>13 DEF Reply
  <2>. QED  BY <1>2, <1>4, <1>5, <1>7, <1>8, <1>9, <1>11, <2>1, AnswerGoes
<1>14. CASE /\ r.method # "GET" /\ step'[s] = "error"
            /\ out' = [out EXCEPT ![s] = Response(501, ErrorPage)]
  <2>1. out'[s] = Answer(r)
        BY <1>14, AnswerParts DEF MemInv, MemType
  <2>2. Arriving(c)' \o out'[s] = Answer(r)
        BY <1>9, <1>10, <1>11, <2>1
  <2>3. Answer(asked[c])' = Answer(r)
        BY <1>4, <1>8 DEF Answer
  <2>4. Reply(c, s)'
        BY <1>2, <1>4, <1>5, <1>7, <1>8, <1>12, <1>14, <2>2, <2>3 DEF Reply
  <2>. QED  BY <1>2, <1>4, <1>5, <1>7, <1>8, <1>9, <1>11, <2>4, AnswerGoes
<1>. QED  BY <1>1, <1>13, <1>14 DEF ReadsLine

(* The file is looked for: nothing is written yet.                          *)
LEMMA AnswerFinds ==
  ASSUME PoolInv, NetType, MemInv, NEW c \in Clients, Live(c), ClientOK(c), NEW s \in T,
         Cache_lookup(s) \/ request_readfile(s), fd[c] = serving[s], UNCHANGED clientVars
  PROVE  ClientOK(c)'
<1>1. /\ step[s] \in {"lookup", "readfile"} /\ up /\ UNCHANGED << conn, up >>
      BY DEF Cache_lookup, request_readfile, At, netVars
<1>2. PICK k : k = fd[c] /\ k = serving[s] /\ k \in DOMAIN file_data
      BY <1>1 DEF MemInv, ThreadMemory
<1>3. /\ at[c] = "receive" /\ asked[c] \in Lines /\ conn[k].peer
      /\ IsPrefix(Arriving(c), Answer(asked[c]))
      /\ asked[c].method = "GET" /\ Arriving(c) = << >> /\ file_data[k].name = asked[c].uri
      /\ conn[k].served /\ ~conn[k].unread
      BY <1>1, <1>2, ReplyFacts DEF Reply, Closed
<1>4. /\ UNCHANGED << at, fd, asked, received, serving >> /\ Goes(s)
      /\ step'[s] \notin {"idle", "init"} /\ ~Closed(s)'
      BY <1>1, ServeGoes DEF clientVars, Goes, poolVars
<1>5. Arriving(c)' = Arriving(c) /\ Answer(asked[c])' = Answer(asked[c])
      BY <1>1, <1>4 DEF Arriving, Answer
<1>6. file_data'[k].name = file_data[k].name
  <2>1. file_data[k] \in [name : Names, buf : Nat]
        BY <1>2 DEF MemInv, MemType
  <2>2. CASE UNCHANGED file_data
        BY <2>2
  <2>3. ASSUME NEW b, file_data' = [file_data EXCEPT ![k] = [file_data[k] EXCEPT !.buf = b]]
        PROVE  file_data'[k].name = file_data[k].name
        BY <1>2, <2>1, <2>3
  <2>4. \/ UNCHANGED file_data
        \/ \E b : file_data' = [file_data EXCEPT ![k] = [file_data[k] EXCEPT !.buf = b]]
        BY <1>2 DEF Cache_lookup, request_readfile
  <2>. QED  BY <2>2, <2>3, <2>4
<1>7. CASE step'[s] \in {"sendfile", "readfile"}
  <2>1. Reply(c, s)'
        BY <1>1, <1>2, <1>3, <1>4, <1>5, <1>6, <1>7 DEF Reply
  <2>. QED  BY <1>1, <1>2, <1>3, <1>4, <1>5, <2>1, AnswerGoes
<1>8. CASE request_readfile(s) /\ Data(s).name \notin DOMAIN Contents
  <2>1. step'[s] = "error" /\ out' = [out EXCEPT ![s] = Response(Refused[Data(s).name], ErrorPage)]
        BY <1>8 DEF request_readfile, request_error, Goto, PoolInv, PoolType
  <2>2. out'[s] = Answer(asked[c])
        BY <1>2, <1>3, <1>8, <2>1, AnswerParts DEF Data, MemInv, MemType
  <2>3. Arriving(c)' \o out'[s] = Answer(asked[c])
    <3>1. Answer(asked[c]) \in Seq(Pieces)
          BY <1>3, AnswerExists
    <3>. QED  BY <1>3, <1>5, <2>2, <3>1, ConcatEmptySeq
  <2>4. Reply(c, s)'
        BY <1>1, <1>2, <1>3, <1>4, <1>5, <1>6, <2>1, <2>3 DEF Reply
  <2>. QED  BY <1>1, <1>2, <1>3, <1>4, <1>5, <2>4, AnswerGoes
<1>9. \/ step'[s] \in {"sendfile", "readfile"}
      \/ request_readfile(s) /\ Data(s).name \notin DOMAIN Contents
      BY DEF Cache_lookup, request_readfile, Goto, PoolInv, PoolType
<1>. QED  BY <1>7, <1>8, <1>9

(* The response is made: it is the answer.                                  *)
LEMMA AnswerSendfile ==
  ASSUME PoolInv, NetType, MemInv, NEW c \in Clients, Live(c), ClientOK(c), NEW s \in T,
         request_sendfile(s), fd[c] = serving[s], UNCHANGED clientVars
  PROVE  ClientOK(c)'
<1>1. /\ step[s] = "sendfile" /\ up /\ UNCHANGED << conn, up, file_data >>
      /\ out' = [out EXCEPT ![s] = Response(200, Bytes(s))] /\ step'[s] = "send"
      BY DEF request_sendfile, At, netVars, memVars, Goto, PoolInv, PoolType
<1>2. PICK k : k = fd[c] /\ k = serving[s]
      OBVIOUS
<1>3. /\ at[c] = "receive" /\ asked[c] \in Lines /\ conn[k].peer
      /\ IsPrefix(Arriving(c), Answer(asked[c]))
      /\ asked[c].method = "GET" /\ Arriving(c) = << >> /\ file_data[k].name = asked[c].uri
      /\ conn[k].served /\ ~conn[k].unread
      BY <1>1, <1>2, ReplyFacts DEF Reply, Closed
<1>4. /\ UNCHANGED << at, fd, asked, received, serving >> /\ Goes(s)
      BY <1>1, ServeGoes DEF clientVars, Goes, poolVars
<1>5. Arriving(c)' = Arriving(c) /\ Answer(asked[c])' = Answer(asked[c])
      BY <1>1, <1>4 DEF Arriving, Answer
<1>6. out'[s] = Answer(asked[c])
  <2>1. /\ asked[c].uri \in DOMAIN Contents /\ Bytes(s) = Contents[asked[c].uri]
        BY <1>1, <1>2, <1>3, SendsFile DEF Data
  <2>2. out'[s] = Response(200, Bytes(s))
        BY <1>1 DEF MemInv, MemType
  <2>. QED  BY <1>3, <2>1, <2>2, AnswerParts
<1>7. Arriving(c)' \o out'[s] = Answer(asked[c])
  <2>1. Answer(asked[c]) \in Seq(Pieces)
        BY <1>3, AnswerExists
  <2>. QED  BY <1>3, <1>5, <1>6, <2>1, ConcatEmptySeq
<1>8. Reply(c, s)'
      BY <1>1, <1>2, <1>3, <1>4, <1>5, <1>7 DEF Reply, Closed
<1>. QED  BY <1>1, <1>2, <1>3, <1>4, <1>5, <1>8, AnswerGoes

(* A piece of the answer is written.                                        *)
LEMMA AnswerWrite ==
  ASSUME PoolInv, NetType, DescInv, MemInv, ClientInv, NEW c \in Clients, Live(c), ClientOK(c),
         NEW s \in T, request_write(s), fd[c] = serving[s], UNCHANGED clientVars
  PROVE  ClientOK(c)'
<1>1. step[s] \in {"send", "error"} /\ up /\ UNCHANGED file_data
      BY DEF request_write, memVars
<1>2. PICK k \in 1 .. Len(conn), piece \in Seq(Pieces), rest \in Seq(Pieces) :
        WritesPiece(s, k, piece, rest)
      BY Writes DEF MemInv, MemType
<1>3. k = serving[s] /\ k = fd[c] /\ out[s] = piece \o rest /\ out'[s] = rest
      BY <1>2 DEF WritesPiece, MemInv, MemType
<1>4. /\ at[c] = "receive" /\ asked[c] \in Lines /\ conn[k].peer
      /\ file_data[k].name = asked[c].uri /\ (step[s] = "send" => asked[c].method = "GET")
      /\ Arriving(c) \o out[s] = Answer(asked[c])
      /\ conn[k].served /\ (asked[c].method = "GET" => ~conn[k].unread)
      BY <1>1, <1>3, ReplyFacts DEF Reply, Closed
<1>5. /\ UNCHANGED << at, fd, asked, received, serving >> /\ Goes(s)
      /\ step'[s] \notin {"idle", "init"} /\ ~Closed(s)'
      BY <1>1, ServeGoes DEF clientVars, Goes, poolVars
<1> DEFINE v == [conn[k] EXCEPT !.response = @ \o piece]
<1>6. /\ v \in Conns /\ v.response = conn[k].response \o piece
      /\ v.peer = conn[k].peer /\ v.served = conn[k].served /\ v.unread = conn[k].unread
  <2>1. conn[k].response \o piece \in Seq(Pieces)
        BY ConnType, ConcatProperties
  <2>. QED  BY <2>1, ConnType DEF Conns
<1>7. OneChanges(k, v)
      BY <1>2, <1>4 DEF WritesPiece
<1> HIDE DEF v
<1>8. conn'[k] = v /\ up' = up
      BY <1>6, <1>7, NetOne DEF OneChanges
<1>9. Arriving(c)' = Arriving(c) \o piece
  <2>1. received[c] \in Seq(Pieces) /\ conn[k].response \in Seq(Pieces)
        BY <1>3, LiveFacts
  <2>2. Arriving(c)' = received[c] \o (conn[k].response \o piece)
        BY <1>3, <1>5, <1>6, <1>8 DEF Arriving
  <2>3. Arriving(c) = received[c] \o conn[k].response
        BY <1>3 DEF Arriving
  <2>4. PICK r \in Seq(Pieces), a \in Seq(Pieces) : r = received[c] /\ a = conn[k].response
        BY <2>1
  <2>5. (r \o a) \o piece = r \o (a \o piece)
    <3>1. r \in Seq(Pieces) /\ a \in Seq(Pieces) /\ piece \in Seq(Pieces)
          OBVIOUS
    <3>. QED  BY <3>1, PiecesAssociate, Zenon
  <2>. QED  BY <2>2, <2>3, <2>4, <2>5
<1>10. Arriving(c)' \o rest = Answer(asked[c]) /\ Arriving(c)' \in Seq(Pieces)
  <2>1. Arriving(c) \in Seq(Pieces)
        BY ArrivingSeq
  <2>2. (Arriving(c) \o piece) \o rest = Arriving(c) \o (piece \o rest)
    <3>1. Arriving(c) \in Seq(Pieces) /\ piece \in Seq(Pieces) /\ rest \in Seq(Pieces)
          BY <2>1
    <3>. QED  BY <3>1, PiecesAssociate, Zenon
  <2>3. Arriving(c) \o piece \in Seq(Pieces)
        BY <2>1, ConcatProperties
  <2>. QED  BY <1>3, <1>4, <1>9, <2>2, <2>3
<1>11. IsPrefix(Arriving(c)', Answer(asked[c])) /\ (rest = << >> => Arriving(c)' = Answer(asked[c]))
  <2>1. Answer(asked[c]) \in Seq(Pieces)
        BY <1>4, AnswerExists
  <2>2. PICK a \in Seq(Pieces) : a = Arriving(c)'
        BY <1>10
  <2>3. a \o rest = Answer(asked[c])
        BY <1>10, <2>2
  <2>4. IsPrefix(a, Answer(asked[c])) /\ (rest = << >> => a = Answer(asked[c]))
        BY <2>1, <2>3, PrefixFacts, ConcatEmptySeq
  <2>. QED  BY <2>2, <2>4
<1>12. step'[s] = IF rest # << >> THEN step[s]
                  ELSE IF step[s] = "error" THEN "fail"
                  ELSE IF UsesCache THEN "insert" ELSE "destroy"
      BY <1>2 DEF WritesPiece
<1>13. Answer(asked[c])' = Answer(asked[c])
      BY <1>5 DEF Answer
<1>14. Reply(c, s)'
      BY <1>1, <1>3, <1>4, <1>5, <1>6, <1>8, <1>10, <1>11, <1>12, <1>13 DEF Reply
<1>. QED  BY <1>1, <1>3, <1>4, <1>5, <1>6, <1>8, <1>11, <1>14, AnswerGoes

(* The file enters the cache or not: the answer is written.                 *)
LEMMA AnswerInsert ==
  ASSUME PoolInv, NetType, NEW c \in Clients, Live(c), ClientOK(c), NEW s \in T,
         Cache_insert(s), fd[c] = serving[s], UNCHANGED clientVars
  PROVE  ClientOK(c)'
<1>1. /\ step[s] = "insert" /\ up /\ UNCHANGED << conn, up, file_data, out >> /\ step'[s] = "destroy"
      BY DEF Cache_insert, At, netVars, Goto, PoolInv, PoolType
<1>2. PICK k : k = fd[c] /\ k = serving[s]
      OBVIOUS
<1>3. /\ at[c] = "receive" /\ asked[c] \in Lines /\ conn[k].peer
      /\ IsPrefix(Arriving(c), Answer(asked[c])) /\ Reply(c, s)
      BY <1>1, <1>2, ReplyFacts
<1>4. /\ UNCHANGED << at, fd, asked, received, serving >> /\ Goes(s)
      BY <1>1, ServeGoes DEF clientVars, Goes, poolVars
<1>5. Arriving(c)' = Arriving(c) /\ Answer(asked[c])' = Answer(asked[c])
      BY <1>1, <1>4 DEF Arriving, Answer
<1>6. Reply(c, s)'
      BY <1>1, <1>2, <1>3, <1>4, <1>5 DEF Reply, Closed
<1>. QED  BY <1>1, <1>2, <1>3, <1>4, <1>5, <1>6, AnswerGoes

(* The connection is closed behind the answer.                              *)
LEMMA AnswerDestroy ==
  ASSUME PoolInv, NetType, DescInv, ClientInv, NEW c \in Clients, Live(c), ClientOK(c),
         NEW s \in T, request_destroy(s), fd[c] = serving[s], UNCHANGED clientVars
  PROVE  ClientOK(c)'
<1>1. step[s] \in {"destroy", "fail"} /\ up /\ UNCHANGED << file_data, out >>
      BY DEF request_destroy, memVars
<1>2. PICK k \in 1 .. Len(conn), rest \in Seq(Pieces) : ClosesConn(s, k, rest)
      BY Closes
<1>3. /\ k = serving[s] /\ k = fd[c] /\ IsPrefix(rest, conn[k].response)
      /\ ~conn[k].unread => rest = conn[k].response
      BY <1>2 DEF ClosesConn
<1>4. /\ at[c] = "receive" /\ asked[c] \in Lines /\ conn[k].peer
      /\ file_data[k].name = asked[c].uri /\ Arriving(c) = Answer(asked[c])
      /\ (asked[c].method = "GET" => ~conn[k].unread)
      BY <1>1, <1>3, ReplyFacts DEF Reply, Closed
<1>5. /\ UNCHANGED << at, fd, asked, received, serving >> /\ Goes(s)
      /\ step'[s] \in {"free", "return"}
      BY <1>1, ServeGoes DEF clientVars, Goes, poolVars, Closed
<1> DEFINE v == [conn[k] EXCEPT !.served = FALSE, !.response = rest]
<1>6. v.response = rest /\ v.peer = conn[k].peer
      BY ConnType DEF Conns
<1>7. conn' = [conn EXCEPT ![k] = v]
      BY <1>2 DEF ClosesConn
<1> HIDE DEF v
<1>8. conn'[k] = v
  <2>1. DOMAIN conn = 1 .. Len(conn)
        BY LenProperties DEF NetType
  <2>. QED  BY <1>7, <2>1
<1>9. received[c] \in Seq(Pieces) /\ conn[k].response \in Seq(Pieces)
      /\ Arriving(c) = received[c] \o conn[k].response
      BY <1>3, LiveFacts DEF Arriving
<1>10. Arriving(c)' = received[c] \o rest
      BY <1>3, <1>5, <1>6, <1>8 DEF Arriving
<1>11. IsPrefix(received[c] \o rest, Answer(asked[c]))
  <2>1. PICK q \in Seq(Pieces) : conn[k].response = rest \o q
    <3>1. PICK a \in Seq(Pieces) : a = conn[k].response
          BY <1>9
    <3>2. \E q \in Seq(Pieces) : a = rest \o q
          BY <1>3, <3>1, PrefixIsPart, ZenonT(40)
    <3>. QED  BY <3>1, <3>2
  <2>2. (received[c] \o rest) \o q = Answer(asked[c])
    <3>1. PICK r \in Seq(Pieces) : r = received[c]
          BY <1>9
    <3>2. (r \o rest) \o q = r \o (rest \o q)
      <4>1. r \in Seq(Pieces) /\ rest \in Seq(Pieces) /\ q \in Seq(Pieces)
            OBVIOUS
      <4>. QED  BY <4>1, PiecesAssociate, Zenon
    <3>. QED  BY <1>4, <1>9, <2>1, <3>1, <3>2
  <2>3. received[c] \o rest \in Seq(Pieces) /\ Answer(asked[c]) \in Seq(Pieces)
        BY <1>4, <1>9, ConcatProperties, AnswerExists
  <2>. QED  BY <2>2, <2>3, PrefixFacts
<1>12. asked[c].method = "GET" => Arriving(c)' = Answer(asked[c])
      BY <1>3, <1>4, <1>9, <1>10
<1>13. Answer(asked[c])' = Answer(asked[c])
      BY <1>5 DEF Answer
<1>14. Reply(c, s)'
      BY <1>1, <1>3, <1>4, <1>5, <1>12, <1>13 DEF Reply, Closed
<1>. QED  BY <1>3, <1>4, <1>5, <1>6, <1>8, <1>10, <1>11, <1>14, AnswerGoes

(* The thread forgets the connection.                                       *)
LEMMA AnswerReturn ==
  ASSUME PoolInv, NetType, NEW c \in Clients, Live(c), ClientOK(c), NEW s \in T,
         step[s] \in {"free", "return"}, Return(s), fd[c] = serving[s], UNCHANGED clientVars
  PROVE  ClientOK(c)'
<1>1. PICK k : k = fd[c] /\ k = serving[s]
      OBVIOUS
<1>2. /\ at[c] = "receive" /\ asked[c] \in Lines /\ conn[k].peer
      /\ IsPrefix(Arriving(c), Answer(asked[c])) /\ Reply(c, s)
      BY <1>1, ReplyFacts
<1>3. /\ UNCHANGED << conn, up, accepted, at, fd, asked, received >>
      BY DEF Return, netVars, clientVars
<1>4. /\ done' = done \cup {k} /\ serving'[s] = 0 /\ k # 0
      /\ \A t \in T \ {s} : serving'[t] = serving[t] /\ serving[t] # k
  <2>1. /\ done' = done \cup {k} /\ serving'[s] = 0 /\ step[s] # "idle"
        /\ \A t \in T \ {s} : serving'[t] = serving[t]
        BY <1>1, <1>3, PoolReturn
  <2>2. k \in 1 .. arrived /\ \A t \in T \ {s} : serving[t] # k
        BY <1>1, <2>1, ThreadHas
  <2>. QED  BY <2>1, <2>2
<1>5. /\ Arriving(c)' = Arriving(c) /\ Answer(asked[c])' = Answer(asked[c])
      /\ IsPrefix(Arriving(c), Answer(asked[c]))'
  <2>1. Arriving(c)' = Arriving(c)
        BY <1>3 DEF Arriving
  <2>2. Answer(asked[c])' = Answer(asked[c])
        BY <1>3 DEF Answer
  <2>. QED  BY <1>2, <2>1, <2>2
<1>6. Begun(k)' /\ \A t \in T : serving'[t] # k
      BY <1>4 DEF Begun, Past
<1>7. up /\ asked[c].method = "GET" => Arriving(c) = Answer(asked[c])
      BY <1>1, <1>2 DEF Reply, Closed
<1>. QED  BY <1>1, <1>2, <1>3, <1>5, <1>6, <1>7 DEF ClientOK

(* The answers in a step of the server.                                     *)
LEMMA AnswerServer ==
  ASSUME WebInv, PoolInv', ServerStep, UNCHANGED clientVars
  PROVE  AnswersInv'
<1> USE DEF WebInv
<1>0. /\ UNCHANGED << at, fd, asked, received >> /\ \A c \in Clients : Live(c)' <=> Live(c)
      BY DEF clientVars, Live
<1> SUFFICES ASSUME NEW c \in Clients, Live(c)
             PROVE  ClientOK(c)'
    BY <1>0 DEF AnswersInv
<1>1. ClientOK(c)
      BY DEF AnswersInv
<1>2. PICK k \in 1 .. Len(conn) : k = fd[c] /\ k # 0
      BY LiveFacts
<1>3. ASSUME UNCHANGED << conn, up, serving, step, done, out, file_data >>
      PROVE  ClientOK(c)'
  <2>1. Arriving(c)' = Arriving(c)
        BY <1>0, <1>3 DEF Arriving
  <2>. QED  BY <1>0, <1>1, <1>2, <1>3, <2>1, AnswerStays
<1>4. CASE main_accept
      BY <1>3, <1>4 DEF main_accept, accept, poolVars, memVars
<1>5. CASE server_request
  <2>1. CASE Pool!Arrive /\ UNCHANGED step
        BY <1>3, <1>5, <2>1 DEF server_request, Pool!Arrive, netVars, memVars
  <2>2. CASE /\ nr_threads = {} /\ Goto(Main, "init") /\ UNCHANGED done
             /\ serving' = [serving EXCEPT ![Main] = accepted]
    <3>1. Main \in T /\ step[Main] = "idle"
          BY <1>5, <2>2 DEF PoolInv, T, server_request
    <3>2. /\ step'[Main] = "init"
          /\ \A t \in T \ {Main} : serving'[t] = serving[t] /\ step'[t] = step[t]
          BY <2>2, <3>1 DEF Goto, PoolInv, PoolType
    <3>3. UNCHANGED << netVars, file_data, out >>
          BY <1>5 DEF server_request, memVars
    <3>. QED  BY <1>1, <1>2, <2>2, <3>1, <3>2, <3>3, AnswerBegin
  <2>. QED  BY <1>5, <2>1, <2>2 DEF server_request
<1>6. ASSUME NEW w \in Workers, request_stub(w)
      PROVE  ClientOK(c)'
  <2>1. /\ w \in T /\ step[w] = "idle" /\ step' = [step EXCEPT ![w] = "init"] /\ UNCHANGED done
        /\ \A t \in T \ {w} : serving'[t] = serving[t] /\ step'[t] = step[t]
        BY <1>6, PoolTake DEF T
  <2>2. step'[w] = "init"
        BY <2>1 DEF PoolInv, PoolType
  <2>3. UNCHANGED << netVars, file_data, out >>
        BY <1>6 DEF request_stub, memVars
  <2>. QED  BY <1>1, <1>2, <2>1, <2>2, <2>3, AnswerBegin
<1>7. ASSUME NEW s \in T, Serve(s)
      PROVE  ClientOK(c)'
  <2>1. CASE k # serving[s]
    <3>1. /\ conn'[k].peer = conn[k].peer /\ conn'[k].request = conn[k].request
          /\ conn'[k].response = conn[k].response
          /\ up' => up /\ conn'[k].served = conn[k].served /\ conn'[k].unread = conn[k].unread
          /\ k \in done' <=> k \in done
          /\ \A t \in T : serving'[t] = k <=> serving[t] = k
          /\ \A t \in T : serving[t] = k => step'[t] = step[t] /\ out'[t] = out[t]
          /\ \A t \in T : serving[t] = k /\ step[t] # "init"
               => file_data'[k].name = file_data[k].name
          BY <1>7, <2>1, ServeOther
    <3>2. Arriving(c)' = Arriving(c)
          BY <1>0, <1>2, <3>1 DEF Arriving
    <3>. QED  BY <1>0, <1>1, <1>2, <3>1, <3>2, AnswerStays
  <2>2. CASE k = serving[s]
    <3>1. CASE request_init(s)
          BY <1>1, <1>2, <2>2, <3>1, AnswerInit
    <3>2. CASE Cache_lookup(s) \/ request_readfile(s)
          BY <1>1, <1>2, <2>2, <3>2, AnswerFinds
    <3>3. CASE request_sendfile(s)
          BY <1>1, <1>2, <2>2, <3>3, AnswerSendfile
    <3>4. CASE request_write(s)
          BY <1>1, <1>2, <2>2, <3>4, AnswerWrite
    <3>5. CASE Cache_insert(s)
          BY <1>1, <1>2, <2>2, <3>5, AnswerInsert
    <3>6. CASE request_destroy(s)
          BY <1>1, <1>2, <2>2, <3>6, AnswerDestroy
    <3>7. CASE file_data_free(s) \/ do_server_request_returns(s)
      <4>1. step[s] \in {"free", "return"} /\ Return(s)
            BY <3>7 DEF file_data_free, do_server_request_returns, At
      <4>. QED  BY <1>1, <1>2, <2>2, <4>1, AnswerReturn
    <3>. QED  BY <1>7, <3>1, <3>2, <3>3, <3>4, <3>5, <3>6, <3>7 DEF Serve
  <2>. QED  BY <2>1, <2>2
<1>8. ASSUME NEW s \in T, Cache_evict(s)
      PROVE  ClientOK(c)'
      BY <1>3, <1>8 DEF Cache_evict, netVars, poolVars
<1>. QED  BY <1>4, <1>5, <1>6, <1>7, <1>8 DEF ServerStep, T

(* A client that takes no step, nor its connection.                         *)
LEMMA AnswerIdle ==
  ASSUME WebInv, NEW c \in Clients, Live(c), UNCHANGED << serverVars, up >>,
         at'[c] = at[c] /\ fd'[c] = fd[c] /\ asked'[c] = asked[c] /\ received'[c] = received[c],
         conn'[fd[c]] = conn[fd[c]]
  PROVE  ClientOK(c)'
<1>1. ClientOK(c)
      BY DEF WebInv, AnswersInv
<1>2. PICK k \in 1 .. Len(conn) : k = fd[c] /\ k # 0
      BY LiveFacts DEF WebInv
<1>3. Arriving(c)' = Arriving(c)
      BY <1>2 DEF Arriving
<1>. QED  BY <1>1, <1>2, <1>3, AnswerStays DEF WebInv, serverVars, poolVars, memVars

(* The answers in a step of a client.                                       *)
LEMMA AnswerClient ==
  ASSUME WebInv, NEW c \in Clients, ClientStep(c) \/ client_killed(c), UNCHANGED serverVars
  PROVE  AnswersInv'
<1> USE DEF WebInv
<1>0. UNCHANGED up /\ Len(conn) \in Nat
      BY ClientNet
<1> SUFFICES ASSUME NEW d \in Clients, Live(d)'
             PROVE  ClientOK(d)'
    BY DEF AnswersInv
<1>1. UNCHANGED << done, serving, step, out, file_data >>
      BY DEF serverVars, poolVars, memVars
<1>2. \A j : Begun(j)' <=> Begun(j)
      BY <1>1 DEF Begun, Past
<1>3. CASE client_connect(c)
  <2>1. /\ conn'[Len(conn) + 1] = NewConnection /\ at[c] = "connect"
        /\ \A j \in 1 .. Len(conn) : conn'[j] = conn[j]
        /\ at' = [at EXCEPT ![c] = "send"] /\ fd' = [fd EXCEPT ![c] = Len(conn) + 1]
        /\ UNCHANGED << asked, received >>
        BY <1>3, NetOpen DEF client_connect
  <2>2. CASE d = c
    <3>1. PICK k : k = Len(conn) + 1
          OBVIOUS
    <3>2. fd'[c] = k /\ at'[c] = "send" /\ conn'[k] = NewConnection /\ received'[c] = << >>
          BY <2>1, <3>1 DEF ClientInv, ClientType
    <3>3. ~Begun(k)
      <4>1. k \notin done /\ \A s \in T : serving[s] # k
        <5>1. arrived \in Nat /\ accepted \in 0 .. Len(conn) /\ accepted \in {arrived, arrived + 1}
              BY DEF PoolInv, PoolType, NetType
        <5>2. k \notin 0 .. arrived
              BY <1>0, <3>1, <5>1
        <5>. QED  BY <5>1, <5>2 DEF PoolInv, PoolType
      <4>. QED  BY <4>1 DEF Begun, Past
    <3>4. Arriving(c)' = << >>
          BY <3>2 DEF Arriving, NewConnection
    <3>. QED  BY <1>2, <2>2, <3>2, <3>3, <3>4 DEF ClientOK, NewConnection
  <2>3. CASE d # c
    <3>1. at'[d] = at[d] /\ fd'[d] = fd[d] /\ Live(d)
          BY <2>1, <2>3 DEF ClientInv, ClientType, Live
    <3>2. conn'[fd[d]] = conn[fd[d]]
          BY <2>1, <3>1, LiveFacts
    <3>. QED  BY <1>0, <2>1, <3>1, <3>2, AnswerIdle
  <2>. QED  BY <2>2, <2>3
<1>4. CASE client_send(c)
  <2>1. PICK k \in 1 .. Len(conn), r \in Lines :
           /\ k = fd[c] /\ OneChanges(k, [conn[k] EXCEPT !.request = << r >>, !.unread = TRUE])
           /\ asked' = [asked EXCEPT ![c] = r]
        BY <1>4, Sends
  <2>2. at[c] = "send" /\ at' = [at EXCEPT ![c] = "receive"] /\ UNCHANGED << fd, received >>
        BY <1>4 DEF client_send
  <2> DEFINE v == [conn[k] EXCEPT !.request = << r >>, !.unread = TRUE]
  <2>3. /\ v \in Conns /\ v.request = << r >> /\ v.response = conn[k].response
        /\ v.peer = conn[k].peer /\ v.served = conn[k].served
        BY ConnType DEF Conns
  <2>4. OneChanges(k, v)
        BY <2>1
  <2> HIDE DEF v
  <2>5. conn'[k] = v /\ \A j \in 1 .. Len(conn) \ {k} : conn'[j] = conn[j]
        BY <2>3, <2>4, NetOne
  <2>6. CASE d = c
    <3>1. ClientOK(c) /\ Live(c)
          BY <2>2 DEF AnswersInv, Live
    <3>2. ~Begun(k) /\ Arriving(c) = << >> /\ conn[k].peer /\ (up => conn[k].served)
          BY <2>1, <2>2, <3>1 DEF ClientOK
    <3>3. at'[c] = "receive" /\ asked'[c] = r /\ fd'[c] = k
          BY <2>1, <2>2 DEF ClientInv, ClientType
    <3>4. Arriving(c)' = << >>
          BY <2>1, <2>2, <2>3, <2>5, <3>2, <3>3 DEF Arriving
    <3>. QED  BY <1>0, <1>2, <2>3, <2>5, <2>6, <3>2, <3>3, <3>4 DEF ClientOK
  <2>7. CASE d # c
    <3>1. at'[d] = at[d] /\ asked'[d] = asked[d] /\ Live(d)
          BY <2>1, <2>2, <2>7 DEF ClientInv, ClientType, Live
    <3>2. conn'[fd[d]] = conn[fd[d]]
      <4>1. fd[d] \in 1 .. Len(conn) /\ fd[d] # k
            BY <2>1, <2>7, <3>1, LiveFacts
      <4>. QED  BY <2>5, <4>1
    <3>. QED  BY <1>0, <2>2, <3>1, <3>2, AnswerIdle
  <2>. QED  BY <2>6, <2>7
<1>5. CASE client_read(c)
  <2>1. PICK k \in 1 .. Len(conn), piece \in Seq(Pieces), rest \in Seq(Pieces) :
           /\ k = fd[c] /\ conn[k].response = piece \o rest
           /\ OneChanges(k, [conn[k] EXCEPT !.response = rest])
           /\ received[c] \o piece \in Seq(Pieces)
           /\ received' = [received EXCEPT ![c] = received[c] \o piece]
        BY <1>5, Receives
  <2>2. at[c] = "receive" /\ UNCHANGED << at, fd, asked >>
        BY <1>5 DEF client_read
  <2> DEFINE v == [conn[k] EXCEPT !.response = rest]
  <2>3. /\ v \in Conns /\ v.request = conn[k].request /\ v.response = rest
        /\ v.peer = conn[k].peer /\ v.served = conn[k].served /\ v.unread = conn[k].unread
        BY ConnType DEF Conns
  <2>4. OneChanges(k, v)
        BY <2>1
  <2> HIDE DEF v
  <2>5. conn'[k] = v /\ \A j \in 1 .. Len(conn) \ {k} : conn'[j] = conn[j]
        BY <2>3, <2>4, NetOne
  <2>6. CASE d = c
    <3>1. ClientOK(c) /\ Live(c)
          BY <2>2 DEF AnswersInv, Live
    <3>2. PICK a \in Seq(Pieces) : a = received[c]
          BY <3>1, LiveFacts
    <3>3. (a \o piece) \o rest = a \o (piece \o rest)
      <4>1. a \in Seq(Pieces) /\ piece \in Seq(Pieces) /\ rest \in Seq(Pieces)
            OBVIOUS
      <4>. QED  BY <4>1, PiecesAssociate, Zenon
    <3>4. received'[c] = a \o piece
          BY <2>1, <3>2 DEF ClientInv, ClientType
    <3>5. Arriving(c)' = Arriving(c)
          BY <2>1, <2>2, <2>3, <2>5, <3>2, <3>3, <3>4 DEF Arriving
    <3>6. k # 0
          OBVIOUS
    <3>. QED  BY <1>0, <1>1, <2>1, <2>2, <2>3, <2>5, <2>6, <3>1, <3>5, <3>6, AnswerStays
  <2>7. CASE d # c
    <3>1. received'[d] = received[d] /\ Live(d)
          BY <2>1, <2>2, <2>7 DEF ClientInv, ClientType, Live
    <3>2. conn'[fd[d]] = conn[fd[d]]
      <4>1. fd[d] \in 1 .. Len(conn) /\ fd[d] # k
            BY <2>1, <2>7, <3>1, LiveFacts
      <4>. QED  BY <2>5, <4>1
    <3>. QED  BY <1>0, <2>2, <3>1, <3>2, AnswerIdle
  <2>. QED  BY <2>6, <2>7
<1>6. CASE client_close(c)
  <2>1. /\ at' = [at EXCEPT ![c] = IF left[c] > 1 THEN "connect" ELSE "done"]
        /\ fd' = [fd EXCEPT ![c] = 0]
        /\ asked' = [asked EXCEPT ![c] = NoRequest]
        /\ received' = [received EXCEPT ![c] = << >>]
        /\ ClientCloses({fd[c]}) /\ Live(c)
        BY <1>6 DEF client_close, Live
  <2>2. d # c
        BY <2>1 DEF Live, ClientInv, ClientType
  <2>3. /\ at'[d] = at[d] /\ fd'[d] = fd[d] /\ asked'[d] = asked[d] /\ received'[d] = received[d]
        /\ Live(d)
        BY <2>1, <2>2 DEF Live, ClientInv, ClientType
  <2>4. conn'[fd[d]] = conn[fd[d]]
    <3>1. \A j \in 1 .. Len(conn) \ {fd[c]} : conn'[j] = conn[j]
          BY <2>1, NetClientCloses
    <3>2. fd[d] \in 1 .. Len(conn) /\ fd[d] # fd[c]
          BY <2>1, <2>2, <2>3, LiveFacts
    <3>. QED  BY <3>1, <3>2
  <2>. QED  BY <1>0, <2>3, <2>4, AnswerIdle
<1>7. CASE ProcessEnds(Process[c])
  <2> DEFINE D == Threads(Process[c])
             C == {fd[e] : e \in D}
  <2>1. D \subseteq Clients
        BY DEF Threads
  <2> HIDE DEF D
  <2>2. /\ ClientCloses(C) /\ UNCHANGED fd
        /\ at' = [e \in Clients |-> IF e \in D THEN "dead" ELSE at[e]]
        /\ received' = [e \in Clients |-> IF e \in D THEN << >> ELSE received[e]]
        /\ asked' = [e \in Clients |-> IF e \in D THEN NoRequest ELSE asked[e]]
        BY <1>7 DEF ProcessEnds, D
  <2>3. d \notin D
        BY <2>2 DEF Live
  <2>4. at'[d] = at[d] /\ received'[d] = received[d] /\ asked'[d] = asked[d] /\ Live(d)
        BY <2>2, <2>3 DEF Live
  <2>5. fd[d] \in 1 .. Len(conn) /\ fd[d] \notin C
    <3>1. fd[d] \in 1 .. Len(conn) /\ \A e \in Clients \ {d} : fd[e] # fd[d]
          BY <2>4, LiveFacts
    <3>. QED  BY <2>1, <2>3, <3>1
  <2> HIDE DEF C
  <2>6. conn'[fd[d]] = conn[fd[d]]
        BY <2>2, <2>5, NetClientCloses
  <2>. QED  BY <1>0, <2>2, <2>4, <2>6, AnswerIdle
<1>. QED  BY <1>3, <1>4, <1>5, <1>6, <1>7
          DEF ClientStep, client_aborts, client_fails, client_killed

-----------------------------------------------------------------------------
(* The invariant, and what follows from it                                  *)

(* It holds at the start,                                                   *)
LEMMA InitWeb == Init => WebInv
<1> SUFFICES ASSUME Init PROVE WebInv
    OBVIOUS
<1> USE DEF Init
<1>0. /\ DOMAIN << >> = {} /\ << >> \in Seq({}) /\ \A S : << >> \in Seq(S)
      BY EmptySeq
<1>1. NetType
  <2>1. conn = << >> /\ Len(conn) = 0 /\ accepted = 0 /\ fdTable = << >> /\ up = TRUE
        BY DEF NetInit
  <2>2. fdTable \in [DOMAIN fdTable -> 1 .. accepted] /\ IsFiniteSet(DOMAIN fdTable)
        BY <2>1, FS_EmptySet
  <2>. QED  BY <1>0, <2>1, <2>2 DEF NetType
<1>2. PoolInv
  <2>1. /\ arrived = 0 /\ queue = << >> /\ serving = [s \in T |-> 0] /\ done = {}
        /\ connfd = << >> /\ step = [s \in T |-> "idle"] /\ accepted = 0
        BY DEF ServerInit, NetInit, Pool!AbsInit, T
  <2>2. ToSet(queue) = {} /\ Once(queue) /\ queue \in Seq(1 .. arrived)
        BY <1>0, <2>1 DEF ToSet, Once
  <2>3. connfd \in [DOMAIN connfd -> Nat \ {0}] /\ DOMAIN connfd = 1 .. accepted \ done
        BY <2>1
  <2>. QED  BY <2>1, <2>2, <2>3 DEF PoolInv, PoolType, Steps
<1>3. DescInv
  <2>1. fdTable = << >> /\ connfd = << >> /\ step = [s \in T |-> "idle"]
        BY DEF NetInit, ServerInit, T
  <2>. QED  BY <2>1 DEF DescInv, Closed
<1>4. MemInv
  <2>1. /\ file_data = << >> /\ file_buf = << >> /\ cache = << >> /\ out = [s \in T |-> << >>]
        /\ step = [s \in T |-> "idle"]
        BY DEF ServerInit, T
  <2>2. MemType
    <3>1. out \in [T -> Seq(Pieces)]
          BY <1>0, <2>1
    <3>2. file_data \in [DOMAIN file_data -> [name : Names, buf : Nat]]
          /\ cache \in [DOMAIN cache -> Nat]
          BY <2>1
    <3>. QED  BY <3>1, <3>2 DEF MemType
  <2>3. \A s \in T : ThreadMemory(s)
        BY <2>1 DEF ThreadMemory
  <2>4. DOMAIN file_data = {} /\ DOMAIN file_buf = {} /\ DOMAIN cache = {}
        BY <1>0, <2>1
  <2>. QED  BY <2>2, <2>3, <2>4 DEF MemInv
<1>5. ClientInv /\ AnswersInv
  <2>1. /\ left \in [Clients -> Nat] /\ fd = [c \in Clients |-> 0]
        /\ at = [c \in Clients |-> IF left[c] = 0 THEN "done" ELSE "connect"]
        /\ asked = [c \in Clients |-> NoRequest] /\ received = [c \in Clients |-> << >>]
        BY ClientAssumption DEF ClientInit
  <2>2. Len(conn) \in Nat
        BY <1>1, LenProperties DEF NetType
  <2>3. received \in [Clients -> Seq(Pieces)] /\ fd \in [Clients -> 0 .. Len(conn)]
        BY <1>0, <2>1, <2>2
  <2>4. \A c \in Clients : at[c] \in {"connect", "done"} /\ (at[c] = "connect" => left[c] > 0)
        BY <2>1
  <2>5. ClientType
        BY <2>1, <2>3, <2>4 DEF ClientType
  <2>. QED  BY <2>1, <2>4, <2>5 DEF ClientInv, AnswersInv, Live
<1>. QED  BY <1>1, <1>2, <1>3, <1>4, <1>5 DEF WebInv

(* and every step keeps it.                                                 *)
LEMMA NextWeb == WebInv /\ [Next]_allVars => WebInv'
<1> SUFFICES ASSUME WebInv, [Next]_allVars PROVE WebInv'
    OBVIOUS
<1> USE DEF WebInv
<1>1. ASSUME NEW c \in Clients, ClientStep(c) \/ client_killed(c), UNCHANGED serverVars
      PROVE  WebInv'
  <2>1. NetType' /\ UNCHANGED << fdTable, accepted, up >>
        BY <1>1, ClientNet
  <2>2. PoolInv' /\ DescInv'
        BY <1>1, <2>1, ClientDesc
  <2>3. MemInv'
        BY <1>1, MemStays DEF serverVars, poolVars
  <2>4. ClientInv' /\ AnswersInv'
        BY <1>1, ClientGoes, AnswerClient
  <2>. QED  BY <2>1, <2>2, <2>3, <2>4
<1>2. ASSUME ServerStep, UNCHANGED clientVars
      PROVE  WebInv'
  <2>1. PoolInv' /\ NetType' /\ DescInv' /\ Len(conn') = Len(conn)
        BY <1>2, ServerDesc DEF MemInv, MemType
  <2>2. ClientInv' /\ AnswersInv'
        BY <1>2, <2>1, ClientStays, AnswerServer
  <2>3. MemInv'
    <3>1. CASE main_accept
          BY <3>1, MemStays DEF main_accept, poolVars
    <3>2. CASE server_request
      <4>1. UNCHANGED << config, out, memVars >>
            BY <3>2 DEF server_request
      <4>2. CASE Pool!Arrive /\ UNCHANGED step
            BY <4>1, <4>2, MemStays DEF Pool!Arrive
      <4>3. CASE /\ nr_threads = {} /\ Goto(Main, "init") /\ UNCHANGED done
                 /\ serving' = [serving EXCEPT ![Main] = accepted]
        <5>1. Main \in T /\ step[Main] = "idle"
              BY <3>2, <4>3 DEF PoolInv, T, server_request
        <5>2. /\ step'[Main] = "init"
              /\ \A t \in T \ {Main} : serving'[t] = serving[t] /\ step'[t] = step[t]
              BY <4>3, <5>1 DEF Goto, PoolInv, PoolType
        <5>. QED  BY <2>1, <4>1, <4>3, <5>1, <5>2, MemBegin
      <4>. QED  BY <3>2, <4>2, <4>3 DEF server_request
    <3>3. ASSUME NEW w \in Workers, request_stub(w)
          PROVE  MemInv'
      <4>1. /\ w \in T /\ step[w] = "idle" /\ step' = [step EXCEPT ![w] = "init"] /\ UNCHANGED done
            /\ \A t \in T \ {w} : serving'[t] = serving[t] /\ step'[t] = step[t]
            BY <3>3, PoolTake DEF T
      <4>2. step'[w] = "init"
            BY <4>1 DEF PoolInv, PoolType
      <4>. QED  BY <2>1, <3>3, <4>1, <4>2, MemBegin DEF request_stub
    <3>. QED  BY <1>2, <3>1, <3>2, <3>3, MemServe DEF ServerStep, T
  <2>. QED  BY <2>1, <2>2, <2>3
<1>3. ASSUME UNCHANGED allVars
      PROVE  WebInv'
  <2>1. UNCHANGED << netVars, clientVars, serverVars >>
        BY <1>3 DEF allVars
  <2>2. NetType' /\ PoolInv' /\ DescInv'
        BY <2>1, ClientDesc DEF NetType, netVars
  <2>3. MemInv'
        BY <2>1, MemStays DEF serverVars, poolVars
  <2>4. ClientInv'
        BY <2>1, ClientStays DEF netVars
  <2>5. ASSUME NEW c \in Clients, Live(c)'
        PROVE  ClientOK(c)'
    <3>1. Live(c) /\ UNCHANGED << at, fd, asked, received, conn, up >>
          BY <2>1, <2>5 DEF Live, clientVars, netVars
    <3>. QED  BY <2>1, <3>1, AnswerIdle
  <2>. QED  BY <2>2, <2>3, <2>4, <2>5 DEF AnswersInv
<1>. QED  BY <1>1, <1>2, <1>3 DEF Next

(* The invariant holds always.                                              *)
THEOREM WebInvariant == Spec => []WebInv
BY InitWeb, NextWeb, PTL DEF Spec

(* Every variable has its type; numbers of connections and allocations are  *)
(* those of connections that were accepted.                                 *)
THEOREM WebTypeOK == Spec => []TypeOK
<1>1. WebInv => TypeOK
  <2> SUFFICES ASSUME WebInv PROVE TypeOK
      OBVIOUS
  <2> USE DEF WebInv
  <2>1. Len(conn) \in Nat /\ Numbers = 1 .. Len(conn)
        BY LenProperties DEF NetType, Numbers
  <2>2. ASSUME NEW k \in Numbers
        PROVE  conn[k].unread \in BOOLEAN /\ Len(conn[k].request) <= 1
    <3>1. conn[k] \in Conns
          BY <2>1, <2>2, ConnType
    <3>2. conn[k].request = << >> \/ \E r \in Lines : conn[k].request = << r >>
          BY <3>1 DEF Conns
    <3>3. CASE conn[k].request = << >>
          BY <3>1, <3>3 DEF Conns
    <3>4. ASSUME NEW r \in Lines, conn[k].request = << r >>
          PROVE  conn[k].unread \in BOOLEAN /\ Len(conn[k].request) <= 1
      <4>1. Len(<< r >>) = 1
            OBVIOUS
      <4>2. Len(conn[k].request) = 1
            BY <3>4, <4>1
      <4>. QED  BY <3>1, <4>2 DEF Conns
    <3>. QED  BY <3>2, <3>3, <3>4
  <2>3. 0 .. arrived \subseteq 0 .. accepted /\ \A s \in T : serving[s] \in 0 .. accepted
        BY DEF PoolInv, PoolType
  <2>4. ASSUME NEW k, NEW steps, Past(k, steps), "idle" \in steps
        PROVE  k \in 1 .. accepted
    <3>1. CASE k \in done
          BY <2>3, <3>1 DEF PoolInv, PoolType
    <3>2. CASE k \notin done
      <4>1. PICK s \in T : serving[s] = k /\ step[s] # "idle"
            BY <2>4, <3>2 DEF Past
      <4>. QED  BY <4>1, ThreadHas
    <3>. QED  BY <3>1, <3>2
  <2>5. DOMAIN file_data \subseteq 1 .. accepted /\ DOMAIN file_buf \subseteq 1 .. accepted
        BY <2>4 DEF MemInv
  <2>6. \A k \in DOMAIN file_data : file_data[k].buf \in {0} \cup 1 .. accepted
        BY <2>5 DEF MemInv, BufferOK
  <2>7. DOMAIN cache \subseteq DOMAIN Contents
        BY DEF MemInv, CacheMemory, Whole
  <2>8. /\ DOMAIN fdTable \subseteq Nat \ {0} /\ \A f \in DOMAIN fdTable : fdTable[f] \in 1 .. accepted
        /\ accepted \in 0 .. Len(conn) /\ DOMAIN connfd \subseteq 1 .. accepted
        BY DEF NetType, PoolInv
  <2>9. /\ at \in [Clients -> {"connect", "send", "receive", "done", "dead"}]
        /\ left \in [Clients -> Nat] /\ fd \in [Clients -> Numbers \cup {0}]
    <3>1. 0 .. Len(conn) \subseteq Numbers \cup {0}
          BY <2>1
    <3>. QED  BY <3>1 DEF ClientInv, ClientType
  <2>10. step \in [Workers \cup {Main} -> Steps]
        BY DEF PoolInv, PoolType, T
  <2>. QED  BY <2>2, <2>5, <2>6, <2>7, <2>8, <2>9, <2>10 DEF TypeOK
<1>. QED  BY <1>1, WebInvariant, PTL

(* However often the system gives out a descriptor again, an open one is    *)
(* that of the connection which the server holds it for, and a connection   *)
(* loses its descriptor exactly when its own handler closes it.             *)
THEOREM WebDescriptors == Spec => []DescriptorsHeldOnce
<1>1. WebInv => DescriptorsHeldOnce
  <2> SUFFICES ASSUME WebInv, up PROVE DescriptorsHeldOnce
      BY DEF DescriptorsHeldOnce
  <2> USE DEF WebInv
  <2>1. \A k : k \in Range(fdTable) <=> \E f \in DOMAIN fdTable : fdTable[f] = k
        BY DEF Range
  <2>2. \A f \in DOMAIN fdTable : fdTable[f] \in DOMAIN connfd /\ connfd[fdTable[f]] = f
        BY DEF DescInv
  <2>3. ASSUME NEW s \in T, serving[s] # 0
        PROVE  step[s] \in {"free", "return"} <=> serving[s] \notin Range(fdTable)
    <3>1. step[s] # "idle"
          BY <2>3 DEF PoolInv
    <3>2. CASE Closed(s)
          BY <2>1, <3>2 DEF DescInv, Closed
    <3>3. CASE ~Closed(s)
          BY <2>1, <3>1, <3>3, OpenFacts DEF Closed
    <3>. QED  BY <3>2, <3>3
  <2>. QED  BY <2>1, <2>2, <2>3 DEF DescriptorsHeldOnce, T
<1>. QED  BY <1>1, WebInvariant, PTL

(* The cache and the threads that send a file always find its bytes in a    *)
(* buffer that was not freed; without a cache all memory belongs to         *)
(* requests that are being served.                                          *)
THEOREM WebMemory == Spec => []FileDataLives
<1>1. WebInv => FileDataLives
  <2> SUFFICES ASSUME WebInv PROVE FileDataLives
      OBVIOUS
  <2> USE DEF WebInv
  <2>1. ASSUME NEW k, Whole(k)
        PROVE  Holds(k, file_data[k].name)
    <3>1. k \in DOMAIN file_data /\ BufferOK(k)
          BY <2>1 DEF Whole, MemInv
    <3>. QED  BY <2>1, <3>1 DEF Whole, BufferOK, Holds
  <2>2. \A n \in DOMAIN cache : Holds(cache[n], n)
        BY <2>1 DEF MemInv, CacheMemory
  <2>3. \A s \in T : step[s] \in {"sendfile", "send", "insert"} => Holds(serving[s], Data(s).name)
        BY <2>1 DEF MemInv, ThreadMemory, Data
  <2>4. ASSUME ~UsesCache, NEW k \in DOMAIN file_data \cup DOMAIN file_buf
        PROVE  k \in Range(serving)
    <3>1. k \in DOMAIN file_data /\ k \notin done
          BY <2>4 DEF MemInv
    <3>2. PICK s \in T : serving[s] = k
          BY <3>1 DEF MemInv, Past
    <3>. QED  BY <3>2 DEF Range, PoolInv, PoolType
  <2>. QED  BY <2>2, <2>3, <2>4 DEF FileDataLives, T
<1>. QED  BY <1>1, WebInvariant, PTL

(* Each client is sent the answer to its own request and nothing else, and  *)
(* while the server runs the end of the stream stands behind the whole of   *)
(* it only, unless the client made a request that is not read to its end.   *)
THEOREM WebAnswers == Spec => []AnswersTheAsker
<1>1. WebInv => AnswersTheAsker
  <2> SUFFICES ASSUME WebInv, NEW c \in Clients, at[c] = "receive"
               PROVE  /\ IsPrefix(Arriving(c), Answer(asked[c]))
                      /\ AtEnd(fd[c]) /\ up /\ asked[c].method = "GET"
                           => received[c] = Answer(asked[c])
      BY DEF AnswersTheAsker
  <2> USE DEF WebInv
  <2>1. Live(c) /\ ClientOK(c)
        BY DEF Live, AnswersInv
  <2>2. asked[c] \in Lines
        BY <2>1 DEF ClientOK
  <2>3. PICK k : k = fd[c]
        OBVIOUS
  <2>4. IsPrefix(Arriving(c), Answer(asked[c]))
    <3>1. CASE Begun(k)
          BY <2>1, <2>3, <3>1 DEF ClientOK
    <3>2. CASE ~Begun(k)
      <4>1. Arriving(c) = << >>
            BY <2>1, <2>3, <3>2 DEF ClientOK
      <4>2. IsPrefix(<< >>, Answer(asked[c]))
            BY <2>2, AnswerExists, PrefixFacts
      <4>. QED  BY <4>1, <4>2
    <3>. QED  BY <3>1, <3>2
  <2>5. ASSUME AtEnd(k), up, asked[c].method = "GET"
        PROVE  received[c] = Answer(asked[c])
    <3>1. conn[k].response = << >> /\ ~conn[k].served
          BY <2>5 DEF AtEnd
    <3>2. Arriving(c) = received[c]
      <4>1. received[c] \in Seq(Pieces)
            BY <2>1, LiveFacts
      <4>. QED  BY <2>3, <3>1, <4>1, ConcatEmptySeq DEF Arriving
    <3>3. Begun(k)
          BY <2>1, <2>3, <2>5, <3>1 DEF ClientOK
    <3>4. CASE k \in done
          BY <2>1, <2>3, <2>5, <3>2, <3>3, <3>4 DEF ClientOK
    <3>5. ASSUME NEW s \in T, serving[s] = k
          PROVE  received[c] = Answer(asked[c])
      <4>1. Reply(c, s)
            BY <2>1, <2>3, <3>3, <3>5 DEF ClientOK
      <4>. QED  BY <2>3, <2>5, <3>1, <3>2, <4>1 DEF Reply
    <3>. QED  BY <3>3, <3>4, <3>5 DEF Begun, Past
  <2>. QED  BY <2>3, <2>4, <2>5
<1>. QED  BY <1>1, WebInvariant, PTL

=============================================================================
