----------------------------- MODULE WebServer ------------------------------
(***************************************************************************)
(* The web server of src/webserver: the accept loop of server.c, the       *)
(* handlers do_server_request and do_server_request_nocache of             *)
(* server_thread.c, and request.c, which reads requests and files and      *)
(* writes responses.                                                       *)
(*                                                                         *)
(* The request pool is the service of RequestService, which RequestPool    *)
(* implements.  The cache holds what was inserted last and drops what it   *)
(* likes while a file is inserted; when it does, is the matter of          *)
(* FileCache.  What is modelled here and nowhere else is the memory: who   *)
(* allocates and frees the file data and the buffers that requests and     *)
(* cache share.  Allocations of request k are named k.                     *)
(***************************************************************************)
EXTENDS Sockets

CONSTANTS
  Workers,         \* the worker threads, when there are any
  Main,            \* the thread that accepts connections
  max_requests,
  MaxConnections,  \* bound: how many connections come
  Refused          \* Refused[n]: the status for a name that is not served

ASSUME ServerAssumption ==
  /\ IsFiniteSet(Workers) /\ Workers # {} /\ Main \notin Workers
  /\ max_requests \in Nat \ {0}
  /\ DOMAIN Contents \cap DOMAIN Refused = {}

VARIABLES
  arrived, queue, serving, done,  \* the request pool
  nr_threads,      \* the worker threads there are: all, or none
  max_cache_size,  \* how many files the cache may hold, as far as this matters
  connfd,          \* the descriptor of each connection in hand or in the pool
  step,            \* what a thread does next
  out,             \* what it still has to write
  file_data,       \* allocated file data: the name and the buffer, 0 for none
  file_buf,        \* allocated buffers: their contents
  cache            \* m_pCache: the file data of each name in the cache

poolVars == << arrived, queue, serving, done >>
memVars == << file_data, file_buf, cache >>
config == << nr_threads, max_cache_size >>
serverVars == << poolVars, config, connfd, step, out, memVars >>

Pool == INSTANCE RequestService
          WITH Servers <- Workers \cup {Main}, Capacity <- max_requests,
               Arrivals <- MaxConnections

ServerInit ==
  /\ Pool!AbsInit
  /\ nr_threads \in {{}, Workers}
  /\ max_cache_size \in {0, Cardinality(DOMAIN Contents)}
  /\ connfd = << >>
  /\ step = [s \in Workers \cup {Main} |-> "idle"]
  /\ out = [s \in Workers \cup {Main} |-> << >>]
  /\ file_data = << >>
  /\ file_buf = << >>
  /\ cache = << >>

-----------------------------------------------------------------------------
(* Helpers *)

(* f with value v at k, and f without k.                                    *)
With(f, k, v) == [i \in DOMAIN f \cup {k} |-> IF i = k THEN v ELSE f[i]]
Without(f, k) == [i \in DOMAIN f \ {k} |-> f[i]]

(* Whether requests go to do_server_request, not do_server_request_nocache. *)
UsesCache == nr_threads = {} \/ max_cache_size > 0

Fd(s) == connfd[serving[s]]
Conn(s) == conn[fdTable[Fd(s)]]
Data(s) == file_data[serving[s]]
Bytes(s) == IF Data(s).buf = 0 THEN << >> ELSE file_buf[Data(s).buf]

At(s, here) == up /\ step[s] = here
Goto(s, there) == step' = [step EXCEPT ![s] = there]

-----------------------------------------------------------------------------
(* main of server.c *)

main_accept ==
  /\ up
  /\ accepted = arrived
  /\ nr_threads = {} => serving[Main] = 0
  /\ accept
  /\ connfd' = With(connfd, accepted + 1, NewDescriptor)
  /\ UNCHANGED << poolVars, config, step, out, memVars >>

(* Into the pool, when there is room; or served at once by the main thread. *)
server_request ==
  /\ up
  /\ accepted > arrived
  /\ \/ /\ nr_threads # {}
        /\ Pool!Arrive
        /\ UNCHANGED step
     \/ /\ nr_threads = {}
        /\ arrived' = accepted
        /\ serving' = [serving EXCEPT ![Main] = accepted]
        /\ Goto(Main, "init")
        /\ UNCHANGED << queue, done >>
  /\ UNCHANGED << netVars, config, connfd, out, memVars >>

request_stub(w) ==
  /\ w \in nr_threads
  /\ up
  /\ Pool!Take(w)
  /\ Goto(w, "init")
  /\ UNCHANGED << netVars, config, connfd, out, memVars >>

-----------------------------------------------------------------------------
(* request.c.  An error page is one byte here.                              *)

ErrorPage == << 60 >>

request_error(s, status) ==
  /\ out' = [out EXCEPT ![s] = Response(status, ErrorPage)]
  /\ Goto(s, "error")

(* Reads the request line, and the headers if it is a GET.  The first read  *)
(* takes all that has come, for another request perhaps not all of it.     *)
request_init(s) ==
  /\ At(s, "init")
  /\ Conn(s).request # << >>
  /\ LET request == Conn(s).request[1] IN
       /\ file_data' = With(file_data, serving[s], [name |-> request.uri, buf |-> 0])
       /\ \E rest \in {FALSE, request.method # "GET"} :
            conn' = [conn EXCEPT ![fdTable[Fd(s)]].request = << >>,
                                 ![fdTable[Fd(s)]].unread = rest]
       /\ \/ /\ request.method = "GET"
             /\ Goto(s, IF UsesCache THEN "lookup" ELSE "readfile")
             /\ UNCHANGED out
          \/ /\ request.method # "GET"
             /\ request_error(s, 501)
  /\ UNCHANGED << fdTable, accepted, up, poolVars, config, connfd, file_buf, cache >>

request_readfile(s) ==
  LET n == Data(s).name
      k == serving[s]
  IN
  /\ At(s, "readfile")
  /\ \/ /\ n \in DOMAIN Contents
        /\ \/ /\ Contents[n] # << >>
              /\ file_buf' = With(file_buf, k, Contents[n])
              /\ file_data' = [file_data EXCEPT ![k].buf = k]
           \/ /\ Contents[n] = << >>
              /\ UNCHANGED << file_buf, file_data >>
        /\ Goto(s, "sendfile")
        /\ UNCHANGED out
     \/ /\ n \notin DOMAIN Contents
        /\ request_error(s, Refused[n])
        /\ UNCHANGED << file_buf, file_data >>
  /\ UNCHANGED << netVars, poolVars, config, connfd, cache >>

request_sendfile(s) ==
  /\ At(s, "sendfile")
  /\ out' = [out EXCEPT ![s] = Response(200, Bytes(s))]
  /\ Goto(s, "send")
  /\ UNCHANGED << netVars, poolVars, config, connfd, memVars >>

(* Mutant: a short write is taken for the whole.                            *)
request_write_short(s) ==
  /\ up /\ step[s] \in {"send", "error"}
  /\ \E n \in 1 .. Len(out[s]) : rio_write(Fd(s), out[s], n)
  /\ out' = [out EXCEPT ![s] = << >>]
  /\ Goto(s, IF step[s] = "error" THEN "fail"
             ELSE IF UsesCache THEN "insert" ELSE "destroy")
  /\ UNCHANGED << poolVars, config, connfd, memVars >>

(* Rio_write of request_sendfile and request_error.                         *)
request_write(s) ==
  /\ up /\ step[s] \in {"send", "error"}
  /\ \E n \in 1 .. Len(out[s]) :
       /\ rio_write(Fd(s), out[s], n)
       /\ out' = [out EXCEPT ![s] = SubSeq(@, n + 1, Len(@))]
  /\ Goto(s, IF out'[s] # << >> THEN step[s]
             ELSE IF step[s] = "error" THEN "fail"
             ELSE IF UsesCache THEN "insert" ELSE "destroy")
  /\ UNCHANGED << poolVars, config, connfd, memVars >>

(* Mutant: a request that failed is forgotten without closing it.          *)
request_destroy_onlyServed(s) ==
  /\ up /\ step[s] \in {"destroy", "fail"}
  /\ \/ step[s] = "destroy" /\ Close(Fd(s))
     \/ step[s] = "fail" /\ UNCHANGED netVars
  /\ Goto(s, IF step[s] = "destroy" /\ UsesCache THEN "return" ELSE "free")
  /\ UNCHANGED << poolVars, config, connfd, out, memVars >>

request_destroy(s) ==
  /\ up /\ step[s] \in {"destroy", "fail"}
  /\ Close(Fd(s))
  /\ Goto(s, IF step[s] = "destroy" /\ UsesCache THEN "return" ELSE "free")
  /\ UNCHANGED << poolVars, config, connfd, out, memVars >>

-----------------------------------------------------------------------------
(* do_server_request and do_server_request_nocache *)

(* A hit shares the buffer of the file data in the cache.                  *)
Cache_lookup(s) ==
  LET n == Data(s).name IN
  /\ At(s, "lookup")
  /\ \/ /\ n \in DOMAIN cache
        /\ file_data' = [file_data EXCEPT ![serving[s]].buf = file_data[cache[n]].buf]
        /\ Goto(s, "sendfile")
     \/ /\ n \notin DOMAIN cache
        /\ Goto(s, "readfile")
        /\ UNCHANGED file_data
  /\ UNCHANGED << netVars, poolVars, config, connfd, out, file_buf, cache >>

(* Mutant: the memory of a dropped block is freed.                          *)
Cache_evict_frees(s) ==
  /\ At(s, "insert") /\ Data(s).name \notin DOMAIN cache
  /\ \E n \in DOMAIN cache :
       /\ cache' = Without(cache, n)
       /\ file_buf' = Without(file_buf, file_data[cache[n]].buf)
       /\ file_data' = Without(file_data, cache[n])
  /\ UNCHANGED << netVars, poolVars, config, connfd, step, out >>

(* A block is dropped to make room; neither its file data nor its buffer   *)
(* is freed.                                                                *)
Cache_evict(s) ==
  /\ At(s, "insert") /\ Data(s).name \notin DOMAIN cache
  /\ \E n \in DOMAIN cache : cache' = Without(cache, n)
  /\ UNCHANGED << netVars, poolVars, config, connfd, step, out, file_data, file_buf >>

Cache_insert(s) ==
  LET n == Data(s).name IN
  /\ At(s, "insert")
  /\ \/ /\ n \notin DOMAIN cache /\ max_cache_size > 0
        /\ cache' = With(cache, n, serving[s])
     \/ UNCHANGED cache
  /\ Goto(s, "destroy")
  /\ UNCHANGED << netVars, poolVars, config, connfd, out, file_data, file_buf >>

(* The handler returns and forgets the descriptor, which was closed.        *)
Return(s) ==
  /\ Pool!Finish(s)
  /\ connfd' = Without(connfd, serving[s])
  /\ Goto(s, "idle")
  /\ UNCHANGED << netVars, config, out, cache >>

(* Mutant: the connection is closed here too.                               *)
file_data_free_closes(s) ==
  /\ At(s, "free")
  /\ \/ Fd(s) \in DOMAIN fdTable /\ Close(Fd(s))
     \/ Fd(s) \notin DOMAIN fdTable /\ UNCHANGED netVars
  /\ file_data' = Without(file_data, serving[s])
  /\ file_buf' = Without(file_buf, Data(s).buf)
  /\ Pool!Finish(s)
  /\ connfd' = Without(connfd, serving[s])
  /\ Goto(s, "idle")
  /\ UNCHANGED << config, out, cache >>

file_data_free(s) ==
  /\ At(s, "free")
  /\ file_data' = Without(file_data, serving[s])
  /\ file_buf' = Without(file_buf, Data(s).buf)
  /\ Return(s)

do_server_request_returns(s) ==
  /\ At(s, "return")
  /\ Return(s)
  /\ UNCHANGED << file_data, file_buf >>

-----------------------------------------------------------------------------
Serve(s) ==
  \/ request_init(s) \/ Cache_lookup(s) \/ request_readfile(s) \/ request_sendfile(s)
  \/ request_write(s) \/ Cache_insert(s) \/ request_destroy(s)
  \/ file_data_free(s) \/ do_server_request_returns(s)

ServerStep ==
  \/ main_accept \/ server_request
  \/ \E w \in Workers : request_stub(w)
  \/ \E s \in Workers \cup {Main} : Serve(s) \/ Cache_evict(s)

=============================================================================
