--------------------------- MODULE RequestService ---------------------------
(***************************************************************************)
(* What the request pool of the web server promises: connections are taken *)
(* in the order they came, each by one server, and none is forgotten.      *)
(* There is no lock, no wakeup and no waiting here.                        *)
(***************************************************************************)
EXTENDS Integers, Sequences

CONSTANTS
  Servers,   \* who serves
  Capacity,  \* how many connections may wait
  Arrivals   \* bound: how many connections come

VARIABLES
  arrived,   \* how many connections have come; they are numbered from 1
  queue,     \* those that wait, first come first
  serving,   \* the connection of each server, 0 when it has none
  done       \* those that were served

absVars == << arrived, queue, serving, done >>

AbsInit ==
  /\ arrived = 0
  /\ queue = << >>
  /\ serving = [s \in Servers |-> 0]
  /\ done = {}

Arrive ==
  /\ arrived < Arrivals
  /\ Len(queue) < Capacity
  /\ arrived' = arrived + 1
  /\ queue' = Append(queue, arrived + 1)
  /\ UNCHANGED << serving, done >>

Take(s) ==
  /\ serving[s] = 0
  /\ queue # << >>
  /\ serving' = [serving EXCEPT ![s] = Head(queue)]
  /\ queue' = Tail(queue)
  /\ UNCHANGED << arrived, done >>

Finish(s) ==
  /\ serving[s] # 0
  /\ done' = done \cup {serving[s]}
  /\ serving' = [serving EXCEPT ![s] = 0]
  /\ UNCHANGED << arrived, queue >>

AbsNext == Arrive \/ \E s \in Servers : Take(s) \/ Finish(s)

AbsSpec == AbsInit /\ [][AbsNext]_absVars

(* The safety part above, and: a connection that waits is taken while       *)
(* somebody is free, and a service ends.                                    *)
AbsFairSpec ==
  /\ AbsSpec
  /\ WF_absVars(\E s \in Servers : Take(s))
  /\ \A s \in Servers : WF_absVars(Finish(s))

=============================================================================
