--------------------------- MODULE FileCacheProofs ---------------------------
(***************************************************************************)
(* What FileCache guarantees for every number of workers and of files, and *)
(* whatever the sizes of the files: the two indexes of the cache and its   *)
(* counters agree, and the pins are those of the requests that send.       *)
(*                                                                         *)
(* The current size is a sum over the cached files.  What a sum over a     *)
(* finite set is follows from the definition of SumFunction; where other   *)
(* provers would use induction, these proofs look at a least set for which *)
(* the claim fails.                                                        *)
(***************************************************************************)
EXTENDS FileCache, SequenceFacts

-----------------------------------------------------------------------------
(* Sums over finite sets                                                    *)

(* The element that a sum takes first, and the sums over the subsets of S. *)
Pick(s) == CHOOSE x \in s : TRUE

IsPart(f, S, g) ==
  g = [s \in SUBSET S |-> IF s = {} THEN 0 ELSE f[Pick(s)] + g[s \ {Pick(s)}]]

(* Taking an element out of a set makes the set smaller.                    *)
LEMMA PickFacts == ASSUME NEW s, s # {}
  PROVE Pick(s) \in s /\ s \ {Pick(s)} # s /\ s \ {Pick(s)} \subseteq s
BY DEF Pick

(* One step of a sum.                                                       *)
LEMMA PartStep ==
  ASSUME NEW f, NEW S, NEW g, IsPart(f, S, g), NEW s \in SUBSET S
  PROVE  /\ s = {} => g[s] = 0
         /\ s # {} => g[s] = f[Pick(s)] + g[s \ {Pick(s)}]
BY DEF IsPart

(* Sums over one set agree, whatever set they were started from.            *)
LEMMA PartsAgree ==
  ASSUME NEW f1, NEW S1, NEW g1, IsPart(f1, S1, g1), IsFiniteSet(S1),
         NEW f2, NEW S2, NEW g2, IsPart(f2, S2, g2),
         NEW T \in SUBSET S1, T \subseteq S2, \A x \in T : f1[x] = f2[x]
  PROVE  g1[T] = g2[T]
<1> DEFINE B == {U \in SUBSET T : g1[U] # g2[U]}
<1>1. IsFiniteSet(T)
      BY FS_Subset
<1>2. B = {}
  <2> SUFFICES ASSUME B # {} PROVE FALSE
      OBVIOUS
  <2>1. PICK U \in B : \A V \in B : V \subseteq U => V = U
    <3>1. B \in SUBSET SUBSET T
          OBVIOUS
    <3> HIDE DEF B
    <3>. QED  BY <1>1, <3>1, LeastSet
  <2>2. U \in SUBSET T /\ g1[U] # g2[U] /\ U \in SUBSET S1 /\ U \in SUBSET S2
        BY <2>1
  <2>3. U # {}
        BY <2>2, PartStep
  <2> DEFINE p == Pick(U)
             V == U \ {p}
  <2>4. p \in U /\ V # U /\ V \subseteq U
        BY <2>3, PickFacts
  <2>5. g1[V] = g2[V]
        BY <2>1, <2>2, <2>4
  <2>6. g1[U] = f1[p] + g1[V] /\ g2[U] = f2[p] + g2[V]
        BY <2>2, <2>3, PartStep
  <2>. QED  BY <2>2, <2>4, <2>5, <2>6
<1>. QED  BY <1>2

(* The definition by recursion defines something.                           *)
LEMMA PartExists ==
  ASSUME NEW D, IsFiniteSet(D), NEW f \in [D -> Int]
  PROVE  \A S \in SUBSET D : \E g \in [SUBSET S -> Int] : IsPart(f, S, g)
<1> DEFINE Good(S) == \E g \in [SUBSET S -> Int] : IsPart(f, S, g)
           B == {S \in SUBSET D : ~Good(S)}
<1>1. B = {}
  <2> SUFFICES ASSUME B # {} PROVE FALSE
      OBVIOUS
  <2>1. PICK S \in B : \A V \in B : V \subseteq S => V = S
    <3>1. B \in SUBSET SUBSET D
          OBVIOUS
    <3> HIDE DEF B
    <3>. QED  BY <3>1, LeastSet
  <2>2. S \in SUBSET D /\ ~Good(S) /\ IsFiniteSet(S)
        BY <2>1, FS_Subset
  <2> DEFINE G(s) == CHOOSE g : g \in [SUBSET s -> Int] /\ IsPart(f, s, g)
             value(s) == IF s = {} THEN 0 ELSE f[Pick(s)] + G(s \ {Pick(s)})[s \ {Pick(s)}]
             h == [s \in SUBSET S |-> value(s)]
  <2>3. ASSUME NEW s \in SUBSET S, s # S
        PROVE  G(s) \in [SUBSET s -> Int] /\ IsPart(f, s, G(s)) /\ IsFiniteSet(s)
    <3>1. Good(s)
          BY <2>1, <2>2, <2>3
    <3>2. IsFiniteSet(s)
          BY <2>2, <2>3, FS_Subset
    <3>. QED  BY <3>1, <3>2
  <2> HIDE DEF G, B
  <2>4. ASSUME NEW s \in SUBSET S, s # {}
        PROVE  /\ Pick(s) \in D
               /\ s \ {Pick(s)} \in SUBSET S /\ s \ {Pick(s)} # S
               /\ f[Pick(s)] \in Int
               /\ G(s \ {Pick(s)})[s \ {Pick(s)}] \in Int
    <3> DEFINE u == s \ {Pick(s)}
    <3>1. Pick(s) \in s /\ u \subseteq s
          BY <2>4, PickFacts
    <3>2. u \in SUBSET S /\ u # S /\ Pick(s) \in D
          BY <2>2, <3>1
    <3>3. G(u) \in [SUBSET u -> Int]
          BY <2>3, <3>2
    <3>. QED  BY <3>2, <3>3
  <2>5. h \in [SUBSET S -> Int]
        BY <2>4
  <2>6. ASSUME NEW s \in SUBSET S, s # {}
        PROVE  h[s \ {Pick(s)}] = G(s \ {Pick(s)})[s \ {Pick(s)}]
    <3> DEFINE u == s \ {Pick(s)}
               w == u \ {Pick(u)}
    <3>1. u \in SUBSET S /\ u # S /\ h[u] = value(u)
          BY <2>4, <2>6
    <3>2. IsPart(f, u, G(u)) /\ IsFiniteSet(u) /\ u \in SUBSET u
          BY <2>3, <3>1
    <3>3. CASE u = {}
      <4>1. value(u) = 0
            BY <3>3
      <4> HIDE DEF u
      <4>2. G(u)[u] = 0
            BY <3>2, <3>3, PartStep
      <4>. QED  BY <3>1, <4>1, <4>2 DEF u
    <3>4. CASE u # {}
      <4> HIDE DEF u
      <4>1. value(u) = f[Pick(u)] + G(w)[w] /\ w \in SUBSET u /\ w \subseteq S /\ w # S
            BY <2>4, <3>1, <3>4, PickFacts
      <4> HIDE DEF w
      <4>2. IsPart(f, w, G(w)) /\ IsFiniteSet(w) /\ w \in SUBSET w
            BY <2>3, <4>1
      <4>3. G(w)[w] = G(u)[w]
            BY <3>2, <4>1, <4>2, PartsAgree
      <4>4. G(u)[u] = f[Pick(u)] + G(u)[w]
            BY <3>2, <3>4, PartStep DEF w
      <4>. QED  BY <3>1, <4>1, <4>3, <4>4 DEF u
    <3>. QED  BY <3>3, <3>4
  <2>7. h = [s \in SUBSET S |-> IF s = {} THEN 0 ELSE f[Pick(s)] + h[s \ {Pick(s)}]]
    <3>1. \A s \in SUBSET S : h[s] = IF s = {} THEN 0 ELSE f[Pick(s)] + h[s \ {Pick(s)}]
          BY <2>6
    <3>2. h = [s \in SUBSET S |-> h[s]]
          OBVIOUS
    <3> HIDE DEF h
    <3>. QED  BY <3>1, <3>2
  <2> HIDE DEF h
  <2>. QED  BY <2>2, <2>5, <2>7 DEF IsPart
<1>. QED  BY <1>1

(* What SumFunctionOnSet starts with.                                       *)
SumStart(f, S) == CHOOSE g : IsPart(f, S, g)

(* The sum of the community modules is one of these.                        *)
LEMMA SumIsPart == ASSUME NEW f, NEW S
  PROVE SumFunctionOnSet(f, S) = SumStart(f, S)[S]
BY DEF SumFunctionOnSet, FoldFunctionOnSet, MapThenFoldSet, SumStart, IsPart, Pick

(* It satisfies its own definition.                                         *)
LEMMA SumStarts ==
  ASSUME NEW D, IsFiniteSet(D), NEW f \in [D -> Int], NEW S \in SUBSET D
  PROVE  /\ IsPart(f, S, SumStart(f, S)) /\ SumStart(f, S) \in [SUBSET S -> Int]
         /\ IsFiniteSet(S) /\ S \in SUBSET S
<1>1. PICK g \in [SUBSET S -> Int] : IsPart(f, S, g)
      BY PartExists
<1> DEFINE k == SumStart(f, S)
<1>2. IsPart(f, S, k)
      BY <1>1 DEF SumStart
<1>3. IsFiniteSet(S)
      BY FS_Subset
<1> HIDE DEF k
<1>4. \A s \in SUBSET S : k[s] = g[s]
  <2> TAKE s \in SUBSET S
  <2>. QED  BY <1>1, <1>2, <1>3, PartsAgree
<1>5. k = [s \in SUBSET S |-> k[s]]
      BY <1>2 DEF IsPart
<1>6. k \in [SUBSET S -> Int]
      BY <1>4, <1>5
<1>. QED  BY <1>2, <1>3, <1>6 DEF k

(* The sum, one element at a time.                                          *)
LEMMA SumFacts ==
  ASSUME NEW D, IsFiniteSet(D), NEW f \in [D -> Int], NEW T \in SUBSET D
  PROVE  /\ SumFunctionOnSet(f, T) \in Int
         /\ T = {} => SumFunctionOnSet(f, T) = 0
         /\ T # {} => SumFunctionOnSet(f, T) =
                        f[Pick(T)] + SumFunctionOnSet(f, T \ {Pick(T)})
<1>1. \A S \in SUBSET D :
        /\ IsPart(f, S, SumStart(f, S)) /\ SumStart(f, S) \in [SUBSET S -> Int]
        /\ IsFiniteSet(S) /\ S \in SUBSET S
      BY SumStarts
<1>2. SumFunctionOnSet(f, T) = SumStart(f, T)[T]
      BY SumIsPart
<1> DEFINE g == SumStart(f, T)
<1>5. IsPart(f, T, g) /\ g \in [SUBSET T -> Int] /\ T \in SUBSET T
      BY <1>1
<1> HIDE DEF g
<1>6. /\ T = {} => g[T] = 0
      /\ T # {} => g[T] = f[Pick(T)] + g[T \ {Pick(T)}]
      BY <1>5, PartStep
<1>3. SumFunctionOnSet(f, T) \in Int /\ (T = {} => SumFunctionOnSet(f, T) = 0)
      BY <1>2, <1>5, <1>6 DEF g
<1>4. ASSUME T # {}
      PROVE  SumFunctionOnSet(f, T) = f[Pick(T)] + SumFunctionOnSet(f, T \ {Pick(T)})
  <2> DEFINE U == T \ {Pick(T)}
             h == SumStart(f, U)
  <2>1. U \in SUBSET D /\ U \in SUBSET T
        OBVIOUS
  <2>2. g[T] = f[Pick(T)] + g[U]
        BY <1>4, <1>6
  <2> HIDE DEF U
  <2>5. IsPart(f, U, h) /\ IsFiniteSet(U) /\ U \in SUBSET U
        BY <1>1, <2>1
  <2> HIDE DEF h
  <2>3. h[U] = g[U]
        BY <1>5, <2>1, <2>5, PartsAgree
  <2>4. SumFunctionOnSet(f, U) = SumStart(f, U)[U]
        BY SumIsPart
  <2>. QED  BY <1>2, <2>2, <2>3, <2>4 DEF U, g, h
<1>. QED  BY <1>3, <1>4

(* One more element, whichever the sum would take first.                    *)
LEMMA SumAdd ==
  ASSUME NEW D, IsFiniteSet(D), NEW f \in [D -> Int], NEW T \in SUBSET D, NEW x \in D \ T
  PROVE  SumFunctionOnSet(f, T \cup {x}) = f[x] + SumFunctionOnSet(f, T)
<1> DEFINE Sum(U) == SumFunctionOnSet(f, U)
           B == {U \in SUBSET D : \E y \in D \ U : Sum(U \cup {y}) # f[y] + Sum(U)}
<1>1. B = {}
  <2> SUFFICES ASSUME B # {} PROVE FALSE
      OBVIOUS
  <2>1. PICK U \in B : \A V \in B : V \subseteq U => V = U
    <3>1. B \in SUBSET SUBSET D
          OBVIOUS
    <3> HIDE DEF B
    <3>. QED  BY <3>1, LeastSet
  <2>2. PICK y \in D \ U : Sum(U \cup {y}) # f[y] + Sum(U)
        BY <2>1
  <2> DEFINE W == U \cup {y}
             p == Pick(W)
  <2>3. W \in SUBSET D /\ W # {} /\ U \in SUBSET D /\ p \in W
        BY <2>1, PickFacts
  <2>4. Sum(W) = f[p] + Sum(W \ {p})
    <3> HIDE DEF W
    <3>. QED  BY <2>3, SumFacts
  <2>5. CASE p = y
    <3>1. W \ {p} = U
          BY <2>2, <2>5
    <3>. QED  BY <2>2, <2>4, <2>5, <3>1
  <2>6. CASE p # y
    <3> DEFINE V == U \ {p}
    <3>1. /\ p \in U /\ V \in SUBSET D /\ V \subseteq U /\ V # U /\ y \in D \ V /\ p \in D \ V
          /\ W \ {p} = V \cup {y} /\ V \cup {p} = U
          BY <2>2, <2>3, <2>6
    <3>2. Sum(V \cup {y}) = f[y] + Sum(V) /\ Sum(V \cup {p}) = f[p] + Sum(V)
          BY <2>1, <3>1
    <3>3. Sum(V) \in Int /\ f[y] \in Int /\ f[p] \in Int
          BY <3>1, SumFacts
    <3> HIDE DEF V, W, p, Sum
    <3>4. f[p] + (f[y] + Sum(V)) = f[y] + (f[p] + Sum(V))
          BY <3>3
    <3>. QED  BY <2>2, <2>4, <3>1, <3>2, <3>4 DEF W
  <2>. QED  BY <2>5, <2>6
<1>. QED  BY <1>1

(* A function gets one more element in its domain.                          *)
LEMMA SumGrows ==
  ASSUME NEW C, IsFiniteSet(C), NEW x, x \notin C, NEW f \in [C -> Nat],
         NEW h \in [C \cup {x} -> Nat], \A n \in C : h[n] = f[n]
  PROVE  /\ SumFunction(f) \in Nat
         /\ SumFunction(h) = SumFunction(f) + h[x]
<1>1. IsFiniteSet(C \cup {x}) /\ f \in [C -> Int] /\ h \in [C \cup {x} -> Int]
      BY FS_AddElement
<1>2. SumFunctionOnSet(h, C \cup {x}) = h[x] + SumFunctionOnSet(h, C)
      BY <1>1, SumAdd
<1>3. SumFunctionOnSet(h, C) = SumFunctionOnSet(f, C)
  <2> DEFINE D == C \cup {x}
  <2>3. IsFiniteSet(D) /\ h \in [D -> Int] /\ C \in SUBSET D /\ C \in SUBSET C
        BY <1>1
  <2> HIDE DEF D
  <2>4. IsPart(f, C, SumStart(f, C))
        BY <1>1, <2>3, SumStarts
  <2>5. IsPart(h, C, SumStart(h, C))
        BY <2>3, SumStarts
  <2>1. /\ IsPart(f, C, SumStart(f, C)) /\ IsPart(h, C, SumStart(h, C))
        BY <2>4, <2>5
  <2>2. SumStart(h, C)[C] = SumStart(f, C)[C]
        BY <2>1, PartsAgree
  <2>. QED  BY <2>2, SumIsPart
<1>4. \A T \in SUBSET C : SumFunctionOnSet(f, T) \in Nat
  <2> DEFINE B == {T \in SUBSET C : SumFunctionOnSet(f, T) \notin Nat}
  <2> SUFFICES ASSUME B # {} PROVE FALSE
      OBVIOUS
  <2>1. PICK U \in B : \A V \in B : V \subseteq U => V = U
    <3>1. B \in SUBSET SUBSET C
          OBVIOUS
    <3> HIDE DEF B
    <3>. QED  BY <3>1, LeastSet
  <2>2. U \in SUBSET C /\ SumFunctionOnSet(f, U) \notin Nat
        BY <2>1
  <2>3. U # {} /\ SumFunctionOnSet(f, U) = f[Pick(U)] + SumFunctionOnSet(f, U \ {Pick(U)})
        BY <1>1, <2>2, SumFacts
  <2>4. Pick(U) \in U /\ U \ {Pick(U)} # U /\ U \ {Pick(U)} \in SUBSET C
        BY <2>2, <2>3, PickFacts
  <2>5. SumFunctionOnSet(f, U \ {Pick(U)}) \in Nat /\ f[Pick(U)] \in Nat
        BY <2>1, <2>2, <2>4
  <2>. QED  BY <2>2, <2>3, <2>5
<1>5. SumFunctionOnSet(f, C) \in Nat /\ h[x] \in Nat
      BY <1>4
<1>6. SumFunction(f) = SumFunctionOnSet(f, C) /\ SumFunction(h) = SumFunctionOnSet(h, C \cup {x})
      BY DEF SumFunction
<1>. QED  BY <1>2, <1>3, <1>5, <1>6

(* A function loses an element of its domain.                               *)
LEMMA SumShrinks ==
  ASSUME NEW A, IsFiniteSet(A), NEW x \in A, NEW f \in [A \ {x} -> Nat],
         NEW h \in [A -> Nat], \A n \in A \ {x} : h[n] = f[n]
  PROVE  /\ SumFunction(f) \in Nat
         /\ SumFunction(h) = SumFunction(f) + h[x]
<1> DEFINE C == A \ {x}
<1>1. /\ x \notin C /\ f \in [C -> Nat] /\ h \in [C \cup {x} -> Nat]
      /\ \A n \in C : h[n] = f[n]
  <2>1. C \cup {x} = A
        OBVIOUS
  <2>. QED  BY <2>1
<1>2. IsFiniteSet(C)
      BY FS_Subset
<1> HIDE DEF C
<1>. QED  BY <1>1, <1>2, SumGrows

-----------------------------------------------------------------------------
(* The invariant                                                            *)

(* The list and the table, and what the cache counts of them.               *)
IndexInv ==
  /\ CacheAccounted
  /\ \A n \in Cached : Cacheable(table[n].size)

(* What a request has in hand, and what is known while blocks are evicted   *)
(* for it: its file is not in the cache and will fit.                       *)
RequestOK(w) ==
  /\ lock = w <=> pc[w] = "evict"
  /\ pc[w] = "idle" => file[w] = NoFile
  /\ pc[w] # "idle" => file[w].name \in Files
  /\ pc[w] = "read" => ~file[w].hit
  /\ file[w].hit => Cacheable(file[w].size)
  /\ pc[w] = "evict" => /\ file[w].name \notin Cached
                        /\ Cacheable(file[w].size)
                        /\ file[w].hit => file[w].name \in missedTwice
                        /\ iCurrentSize - amount + file[w].size <= iTotalSize

RequestsInv == \A w \in Workers : RequestOK(w)

(* Who missed file n and may insert it.                                     *)
Fetching(n) ==
  {w \in Workers : pc[w] \in {"read", "send", "evict"} /\ file[w].name = n /\ ~file[w].hit}

(* Of a file that no two requests missed at the same time at most one has   *)
(* it in hand without a pin, and that one while the file is not cached.     *)
PinsOf(n) ==
  /\ n \in Cached => table[n].pin <= Cardinality(Hits(n))
  /\ n \notin missedTwice =>
       /\ \A v, w \in Fetching(n) : v = w
       /\ n \in Cached => table[n].pin = Cardinality(Hits(n)) /\ Fetching(n) = {}
       /\ n \notin Cached => Hits(n) = {}

PinsInv == \A n \in Files : PinsOf(n)

CacheInv == TypeOK /\ IndexInv /\ RequestsInv /\ PinsInv

-----------------------------------------------------------------------------
(* The list of names                                                        *)

(* A cached name moves to the top.                                          *)
LEMMA MoveKeeps ==
  ASSUME TypeOK, IndexInv, NEW n \in Cached
  PROVE  /\ List_pmovetop(n) \in Seq(Files)
         /\ IsInjective(List_pmovetop(n)) /\ ToSet(List_pmovetop(n)) = Cached
<1>1. /\ nameList \in Seq(Files) /\ Once(nameList) /\ ToSet(nameList) = Cached
      /\ DOMAIN nameList = 1 .. Len(nameList)
      BY LenProperties DEF TypeOK, IndexInv, CacheAccounted, IsInjective, Once
<1>2. Place(n) \in 1 .. Len(nameList) /\ nameList[Place(n)] = n
      BY <1>1 DEF Place, ToSet
<1> DEFINE k == Place(n)
           m == << nameList[k] >> \o RemoveAt(nameList, k)
<1> HIDE DEF k
<1>3. m \in Seq(Files) /\ Once(m) /\ ToSet(m) = ToSet(nameList)
      BY <1>1, <1>2, MoveOnce DEF k
<1>4. m = List_pmovetop(n)
      BY <1>2 DEF List_pmovetop, k
<1> HIDE DEF m
<1>5. IsInjective(m)
      BY <1>3, LenProperties DEF IsInjective, Once
<1>. QED  BY <1>1, <1>3, <1>4, <1>5

(* The bottom leaves.                                                       *)
LEMMA PullKeeps ==
  ASSUME TypeOK, IndexInv, nameList # << >>
  PROVE  /\ Bottom \in Cached
         /\ List_pull \in Seq(Files)
         /\ IsInjective(List_pull) /\ ToSet(List_pull) = Cached \ {Bottom}
<1> DEFINE k == Len(nameList) - 1
           a == SubSeq(nameList, 1, k)
           b == SubSeq(nameList, k + 1, Len(nameList))
<1>1. /\ nameList \in Seq(Files) /\ Once(nameList) /\ ToSet(nameList) = Cached
      /\ Len(nameList) \in Nat /\ Len(nameList) # 0
      BY LenProperties, EmptySeq DEF TypeOK, IndexInv, CacheAccounted, IsInjective, Once
<1>2. k \in 0 .. Len(nameList) /\ k + 1 = Len(nameList) /\ Len(nameList) - k = 1
      BY <1>1
<1>3. a = List_pull /\ nameList[k + 1] = Bottom
      BY <1>2 DEF List_pull, Front, Bottom, Last
<1> HIDE DEF k
<1>4. /\ a \in Seq(Files) /\ b \in Seq(Files) /\ Once(a)
      /\ ToSet(a) \cap ToSet(b) = {} /\ ToSet(a) \cup ToSet(b) = ToSet(nameList)
      /\ Len(b) = Len(nameList) - k
      /\ \A i \in 1 .. Len(nameList) - k : b[i] = nameList[k + i]
      BY <1>1, <1>2, SplitOnce
<1> HIDE DEF a, b
<1>5. ToSet(b) = {Bottom}
  <2>1. Len(b) = 1 /\ b[1] = Bottom
        BY <1>2, <1>3, <1>4
  <2>2. \A x : x \in ToSet(b) <=> \E i \in 1 .. Len(b) : b[i] = x
        BY <1>4, ToSetOfSeq
  <2>3. 1 .. Len(b) = {1}
        BY <2>1
  <2>. QED  BY <2>1, <2>2, <2>3
<1>6. IsInjective(a)
      BY <1>4, LenProperties DEF IsInjective, Once
<1>. QED  BY <1>1, <1>3, <1>4, <1>5, <1>6

(* A new name comes to the top.                                             *)
LEMMA PutKeeps ==
  ASSUME TypeOK, IndexInv, NEW n \in Files \ Cached
  PROVE  /\ List_put(n) \in Seq(Files)
         /\ IsInjective(List_put(n)) /\ ToSet(List_put(n)) = Cached \cup {n}
<1> DEFINE h == << n >>
           m == h \o nameList
<1>1. nameList \in Seq(Files) /\ Once(nameList) /\ ToSet(nameList) = Cached
      BY LenProperties DEF TypeOK, IndexInv, CacheAccounted, IsInjective, Once
<1>2. h \in Seq(Files) /\ Once(h) /\ ToSet(h) = {n}
      BY DEF Once, ToSet
<1> HIDE DEF h
<1>3. m \in Seq(Files) /\ Once(m) /\ ToSet(m) = {n} \cup Cached
      BY <1>1, <1>2, ConcatOnce
<1>4. m = List_put(n)
      BY DEF List_put, h
<1> HIDE DEF m
<1>5. IsInjective(m)
      BY <1>3, LenProperties DEF IsInjective, Once
<1>. QED  BY <1>3, <1>4, <1>5

-----------------------------------------------------------------------------
(* The counters of the cache                                                *)

Sizes == [n \in Cached |-> table[n].size]

Pinned == {n \in Cached : table[n].pin > 0}

(* A block is pinned or unpinned once more: only its pin changes, and the   *)
(* count of pinned blocks follows.                                          *)
LEMMA RepinStep ==
  ASSUME TypeOK, IndexInv, NEW n \in Cached, NEW k \in Int,
         table' = [table EXCEPT ![n].pin = k],
         \/ /\ k = table[n].pin + 1
            /\ nPinned' = IF table[n].pin = 0 THEN nPinned + 1 ELSE nPinned
         \/ /\ k = table[n].pin - 1
            /\ nPinned' = IF table[n].pin = 1 THEN nPinned - 1 ELSE nPinned,
         nameList' \in Seq(Files), IsInjective(nameList'), ToSet(nameList') = Cached,
         UNCHANGED iCurrentSize
  PROVE  /\ IndexInv' /\ Cached' = Cached /\ table' \in [Cached -> Blocks]
         /\ nPinned' \in Nat
         /\ table'[n].pin = k /\ \A m \in Cached \ {n} : table'[m] = table[m]
<1>1. /\ table \in [Cached -> Blocks] /\ table[n] \in Blocks /\ IsFiniteSet(Cached)
      /\ nPinned = Cardinality(Pinned) /\ iCurrentSize <= iTotalSize
      /\ iCurrentSize = SumFunction(Sizes)
      /\ \A m \in Cached : Cacheable(table[m].size)
      BY CacheAssumption, FS_Subset DEF TypeOK, IndexInv, CacheAccounted, Pinned, Sizes
<1>2. table' = [table EXCEPT ![n] = [table[n] EXCEPT !.pin = k]]
      OBVIOUS
<1>3. /\ [table[n] EXCEPT !.pin = k] \in Blocks
      /\ [table[n] EXCEPT !.pin = k].pin = k
      /\ [table[n] EXCEPT !.pin = k].size = table[n].size
      BY <1>1 DEF Blocks
<1>4. /\ Cached' = Cached /\ table' \in [Cached -> Blocks]
      /\ table'[n].pin = k /\ \A m \in Cached \ {n} : table'[m] = table[m]
      /\ \A m \in Cached : table'[m].size = table[m].size
      BY <1>1, <1>2, <1>3 DEF Cached
<1>5. Sizes' = Sizes
      BY <1>4 DEF Sizes
<1>6. IsFiniteSet(Pinned) /\ Cardinality(Pinned) \in Nat /\ table[n].pin \in Int
      BY <1>1, FS_Subset, FS_CardinalityType DEF Pinned, Blocks
<1>7. nPinned' = Cardinality(Pinned') /\ nPinned' \in Nat
  <2>1. /\ IsFiniteSet(Pinned \cup {n})
        /\ n \notin Pinned => Cardinality(Pinned \cup {n}) = Cardinality(Pinned) + 1
        /\ IsFiniteSet(Pinned \ {n})
        /\ n \in Pinned => Cardinality(Pinned \ {n}) = Cardinality(Pinned) - 1
        /\ Cardinality(Pinned \cup {n}) \in Nat /\ Cardinality(Pinned \ {n}) \in Nat
        BY <1>6, FS_AddElement, FS_RemoveElement, FS_CardinalityType
  <2>2. /\ n \in Pinned <=> table[n].pin > 0
        /\ Pinned' = IF k > 0 THEN Pinned \cup {n} ELSE Pinned \ {n}
        BY <1>4 DEF Pinned
  <2>3. CASE k > 0 /\ table[n].pin > 0
    <3>1. Pinned' = Pinned
          BY <2>2, <2>3
    <3>2. nPinned' = nPinned
          BY <1>6, <2>3
    <3>. QED  BY <1>1, <1>6, <3>1, <3>2
  <2>4. CASE k > 0 /\ ~(table[n].pin > 0)
    <3>1. nPinned' = nPinned + 1
          BY <1>6, <2>4
    <3>. QED  BY <1>1, <1>6, <2>1, <2>2, <2>4, <3>1
  <2>5. CASE ~(k > 0) /\ table[n].pin > 0
    <3>1. nPinned' = nPinned - 1
          BY <1>6, <2>5
    <3>. QED  BY <1>1, <1>6, <2>1, <2>2, <2>5, <3>1
  <2>6. CASE ~(k > 0) /\ ~(table[n].pin > 0)
    <3>1. Pinned' = Pinned
          BY <2>2, <2>6
    <3>2. nPinned' = nPinned
          BY <1>6, <2>6
    <3>. QED  BY <1>1, <1>6, <3>1, <3>2
  <2>. QED  BY <2>3, <2>4, <2>5, <2>6
<1>8. \A m \in Cached' : Cacheable(table'[m].size)
      BY <1>1, <1>4
<1>9. CacheAccounted'
      BY <1>1, <1>4, <1>5, <1>7 DEF CacheAccounted, Sizes, Pinned
<1>. QED  BY <1>4, <1>7, <1>8, <1>9 DEF IndexInv, Cacheable

(* A file is added to the cache.                                            *)
LEMMA AddStep ==
  ASSUME TypeOK, IndexInv, NEW f \in [name : Files \cup {None}, size : Nat, hit : BOOLEAN],
         f.name \in Files \ Cached, Cacheable(f.size),
         iCurrentSize + f.size <= iTotalSize, AddBlock(f), UNCHANGED nPinned
  PROVE  /\ IndexInv' /\ Cached' = Cached \cup {f.name}
         /\ nameList' \in Seq(Files) /\ table' \in [Cached' -> Blocks] /\ iCurrentSize' \in Nat
         /\ table'[f.name].pin = 0 /\ \A m \in Cached : table'[m] = table[m]
<1> DEFINE n == f.name
<1>1. /\ table \in [Cached -> Blocks] /\ IsFiniteSet(Cached) /\ n \notin Cached
      /\ nPinned = Cardinality(Pinned) /\ iCurrentSize = SumFunction(Sizes)
      /\ \A m \in Cached : Cacheable(table[m].size)
      /\ f.size \in Nat /\ n \in Files /\ iCurrentSize \in Nat
      BY CacheAssumption, FS_Subset DEF TypeOK, IndexInv, CacheAccounted, Pinned, Sizes
<1>2. /\ table' = [m \in Cached \cup {n} |-> IF m = n THEN [pin |-> 0, size |-> f.size] ELSE table[m]]
      /\ nameList' = List_put(n)
      /\ iCurrentSize' = iCurrentSize + f.size
      BY DEF AddBlock
<1> HIDE DEF n
<1>3. [pin |-> 0, size |-> f.size] \in Blocks
      BY <1>1 DEF Blocks
<1>4. /\ Cached' = Cached \cup {n} /\ table' \in [Cached' -> Blocks]
      /\ table'[n].pin = 0 /\ table'[n].size = f.size
      /\ \A m \in Cached : table'[m] = table[m]
      BY <1>1, <1>2, <1>3 DEF Cached
<1>5. nameList' \in Seq(Files) /\ IsInjective(nameList') /\ ToSet(nameList') = Cached'
      BY <1>1, <1>2, <1>4, PutKeeps
<1>6. SumFunction(Sizes') = SumFunction(Sizes) + f.size
  <2> DEFINE z == Sizes
             y == Sizes'
             C == Cached
  <2>1. /\ z \in [C -> Nat] /\ y \in [C \cup {n} -> Nat]
        /\ \A m \in C : y[m] = z[m]
        /\ y[n] = f.size
        BY <1>1, <1>4 DEF Sizes, Blocks
  <2> HIDE DEF z, y, C
  <2>2. IsFiniteSet(C) /\ n \notin C
        BY <1>1 DEF C
  <2>3. SumFunction(y) = SumFunction(z) + y[n]
        BY <2>1, <2>2, SumGrows
  <2>. QED  BY <2>1, <2>3 DEF y, z
<1>7. Pinned' = Pinned
      BY <1>1, <1>4 DEF Pinned
<1>8. \A m \in Cached' : Cacheable(table'[m].size)
      BY <1>1, <1>4
<1>9. iCurrentSize' = SumFunction(Sizes') /\ iCurrentSize' <= iTotalSize /\ iCurrentSize' \in Nat
      BY <1>1, <1>2, <1>6
<1>10. CacheAccounted'
      BY <1>1, <1>5, <1>7, <1>9 DEF CacheAccounted, Sizes, Pinned
<1>. QED  BY <1>4, <1>5, <1>8, <1>9, <1>10 DEF IndexInv, Cacheable, n

(* The bottom file is evicted, which nobody has pinned.                     *)
LEMMA EvictStep ==
  ASSUME TypeOK, IndexInv, nameList # << >>, table[Bottom].pin <= 0,
         iCurrentSize' = iCurrentSize - table[Bottom].size,
         nameList' = List_pull,
         table' = [n \in Cached \ {Bottom} |-> table[n]], UNCHANGED nPinned
  PROVE  /\ IndexInv' /\ Bottom \in Cached /\ Cached' = Cached \ {Bottom}
         /\ nameList' \in Seq(Files) /\ table' \in [Cached' -> Blocks] /\ iCurrentSize' \in Nat
         /\ \A m \in Cached' : table'[m] = table[m]
         /\ table[Bottom].size \in Nat
<1> DEFINE n == Bottom
<1>1. /\ n \in Cached /\ nameList' \in Seq(Files) /\ IsInjective(nameList')
      /\ ToSet(nameList') = Cached \ {n}
      BY PullKeeps
<1> HIDE DEF n
<1>2. /\ table \in [Cached -> Blocks] /\ IsFiniteSet(Cached)
      /\ nPinned = Cardinality(Pinned) /\ iCurrentSize = SumFunction(Sizes)
      /\ \A m \in Cached : Cacheable(table[m].size)
      /\ iCurrentSize \in Nat /\ iCurrentSize <= iTotalSize /\ iTotalSize \in Nat
      BY CacheAssumption, FS_Subset DEF TypeOK, IndexInv, CacheAccounted, Pinned, Sizes
<1>3. /\ Cached' = Cached \ {n} /\ table' \in [Cached' -> Blocks]
      /\ \A m \in Cached' : table'[m] = table[m]
      BY <1>2 DEF Cached, n
<1>4. table[n].size \in Nat /\ table[n].pin \in Int
      BY <1>1, <1>2 DEF Blocks
<1>5. /\ SumFunction(Sizes) = SumFunction(Sizes') + table[n].size
      /\ SumFunction(Sizes') \in Nat
  <2> DEFINE z == Sizes'
             y == Sizes
             A == Cached
  <2>1. /\ z \in [A \ {n} -> Nat] /\ y \in [A -> Nat]
        /\ \A m \in A \ {n} : y[m] = z[m]
        /\ n \in A /\ IsFiniteSet(A)
        BY <1>1, <1>2, <1>3 DEF Sizes, Blocks
  <2>2. y[n] = table[n].size
        BY <1>1 DEF Sizes
  <2> HIDE DEF z, y, A
  <2>3. ASSUME NEW a \in [A \ {n} -> Nat], NEW b \in [A -> Nat],
               \A m \in A \ {n} : b[m] = a[m]
        PROVE  SumFunction(b) = SumFunction(a) + b[n] /\ SumFunction(a) \in Nat
        BY ONLY <2>1, <2>3, SumShrinks
  <2>4. SumFunction(y) = SumFunction(z) + y[n] /\ SumFunction(z) \in Nat
        BY <2>1, <2>3
  <2>. QED  BY <2>2, <2>4 DEF y, z
<1>6. Pinned' = Pinned
  <2>1. n \notin Pinned
        BY <1>4 DEF Pinned, n
  <2>. QED  BY <1>3, <2>1 DEF Pinned
<1>7. \A m \in Cached' : Cacheable(table'[m].size)
      BY <1>2, <1>3
<1>8. iCurrentSize' = iCurrentSize - table[n].size
      BY DEF n
<1>9. iCurrentSize' = SumFunction(Sizes') /\ iCurrentSize' <= iTotalSize /\ iCurrentSize' \in Nat
      BY <1>2, <1>4, <1>5, <1>8
<1>10. CacheAccounted'
      BY <1>1, <1>2, <1>3, <1>6, <1>9 DEF CacheAccounted, Sizes, Pinned
<1>. QED  BY <1>1, <1>3, <1>4, <1>7, <1>9, <1>10 DEF IndexInv, Cacheable, n

-----------------------------------------------------------------------------
(* What a step of one worker does to the others, and to who sends and who   *)
(* fetches a file                                                           *)

Requests == [name : Files \cup {None}, size : Nat, hit : BOOLEAN]

(* Worker w takes a step: the others are where they were.                   *)
Alone(w) == \A v \in Workers \ {w} : pc'[v] = pc[v] /\ file'[v] = file[v]

(* A worker that is done has left both sets, and the others have not moved. *)
LEMMA DoneEffect ==
  ASSUME TypeOK, NEW w \in Workers, Done(w)
  PROVE  /\ pc' \in [Workers -> {"idle", "read", "send", "evict"}]
         /\ file' \in [Workers -> Requests]
         /\ pc'[w] = "idle" /\ file'[w] = NoFile /\ Alone(w)
         /\ \A n : Hits(n)' = Hits(n) \ {w} /\ Fetching(n)' = Fetching(n) \ {w}
<1>1. NoFile \in Requests /\ file \in [Workers -> Requests]
      BY DEF TypeOK, NoFile, Requests
<1>2. /\ pc' \in [Workers -> {"idle", "read", "send", "evict"}]
      /\ file' \in [Workers -> Requests]
      /\ pc'[w] = "idle" /\ file'[w] = NoFile /\ Alone(w)
      BY <1>1 DEF TypeOK, Done, Alone
<1>3. \A n : Hits(n)' = Hits(n) \ {w}
      BY <1>2 DEF Hits, Alone
<1>4. \A n : Fetching(n)' = Fetching(n) \ {w}
      BY <1>2 DEF Fetching, Alone
<1>. QED  BY <1>2, <1>3, <1>4

(* Who sends or fetches a file is a finite set.                             *)
LEMMA WhoFinite ==
  ASSUME NEW n
  PROVE  /\ IsFiniteSet(Hits(n)) /\ Cardinality(Hits(n)) \in Nat
         /\ Hits(n) \subseteq Workers /\ Fetching(n) \subseteq Workers
<1>1. Hits(n) \subseteq Workers /\ Fetching(n) \subseteq Workers
      BY DEF Hits, Fetching
<1>. QED  BY <1>1, CacheAssumption, FS_Subset, FS_CardinalityType

(* What holds of the other requests goes on to hold: what it says of the    *)
(* cache concerns the one who holds the lock.                               *)
LEMMA RequestsFrame ==
  ASSUME RequestsInv, NEW w \in Workers, Alone(w),
         \/ lock \in {w, None} /\ lock' \in {w, None}
         \/ UNCHANGED << table, iCurrentSize, lock, amount, missedTwice >>
  PROVE  \A v \in Workers \ {w} : RequestOK(v)'
<1> SUFFICES ASSUME NEW v \in Workers \ {w}
             PROVE  RequestOK(v)'
    OBVIOUS
<1>1. RequestOK(v) /\ pc'[v] = pc[v] /\ file'[v] = file[v]
      BY DEF RequestsInv, Alone
<1>2. CASE UNCHANGED << table, iCurrentSize, lock, amount, missedTwice >>
      BY <1>1, <1>2 DEF RequestOK, Cacheable, Cached
<1>3. CASE lock \in {w, None} /\ lock' \in {w, None}
  <2>1. lock # v /\ lock' # v
        BY <1>3, CacheAssumption
  <2>2. pc'[v] # "evict"
        BY <1>1, <2>1 DEF RequestOK
  <2>. QED  BY <1>1, <2>1, <2>2 DEF RequestOK, Cacheable
<1>. QED  BY <1>2, <1>3

(* What holds of the pins of a file goes on to hold when the same requests  *)
(* send it, no other fetches it, and its block stays as it is.              *)
LEMMA PinsFrame ==
  ASSUME NEW n, PinsOf(n), Hits(n)' = Hits(n), Fetching(n)' \subseteq Fetching(n),
         n \in Cached' <=> n \in Cached, n \in Cached => table'[n].pin = table[n].pin,
         n \notin missedTwice' => n \notin missedTwice
  PROVE  PinsOf(n)'
BY DEF PinsOf

-----------------------------------------------------------------------------
(* The steps of a request                                                   *)

(* A hit: the request joins those that send, and the block has one more     *)
(* pin.                                                                     *)
LEMMA LookupKeeps ==
  ASSUME CacheInv, NEW w \in Workers, NEW n \in Files, Cache_lookup(w, n)
  PROVE  CacheInv'
<1>1. /\ TypeOK /\ IndexInv /\ RequestsInv /\ PinsInv
      /\ n \in Cached /\ lock = None /\ pc[w] = "idle" /\ file[w] = NoFile
      BY DEF CacheInv, Cache_lookup, RequestsInv, RequestOK
<1>2. table[n] \in Blocks /\ Cacheable(table[n].size)
      BY <1>1 DEF TypeOK, IndexInv
<1> DEFINE f == [name |-> n, size |-> table[n].size, hit |-> TRUE]
<1>3. f \in Requests
      BY <1>2 DEF Requests, Blocks
<1>4. /\ f.name = n /\ f.hit = TRUE /\ f.size = table[n].size
      /\ file' = [file EXCEPT ![w] = f]
      BY DEF Cache_lookup
<1> HIDE DEF f
<1>5. /\ pc' \in [Workers -> {"idle", "read", "send", "evict"}]
      /\ file' \in [Workers -> Requests]
      /\ pc'[w] = "send" /\ file'[w] = f /\ Alone(w)
      BY <1>1, <1>3, <1>4 DEF TypeOK, Cache_lookup, Alone, Requests
<1>6. /\ Hits(n)' = Hits(n) \cup {w} /\ w \notin Hits(n)
      /\ \A m \in Files \ {n} : Hits(m)' = Hits(m)
      /\ \A m \in Files : Fetching(m)' = Fetching(m)
      BY <1>1, <1>4, <1>5 DEF Hits, Fetching, Alone
<1> DEFINE k == table[n].pin + 1
<1>7. /\ k \in Int /\ table[n].pin \in Int
      /\ table' = [table EXCEPT ![n].pin = k]
      /\ nPinned' = IF table[n].pin = 0 THEN nPinned + 1 ELSE nPinned
      BY <1>2 DEF Cache_lookup, Blocks
<1>8. nameList' \in Seq(Files) /\ IsInjective(nameList') /\ ToSet(nameList') = Cached
      BY <1>1, MoveKeeps DEF Cache_lookup
<1>9. UNCHANGED << iCurrentSize, lock, amount, missedTwice >>
      BY DEF Cache_lookup
<1>10. /\ IndexInv' /\ Cached' = Cached /\ table' \in [Cached -> Blocks]
       /\ nPinned' \in Nat
       /\ table'[n].pin = k /\ \A m \in Cached \ {n} : table'[m] = table[m]
  <2> HIDE DEF k
  <2>1. k = table[n].pin + 1
        BY DEF k
  <2>. QED  BY <1>1, <1>7, <1>8, <1>9, <2>1, RepinStep
<1>11. TypeOK'
       BY <1>1, <1>5, <1>8, <1>9, <1>10 DEF TypeOK, Requests, Cached, Blocks
<1>12. RequestsInv'
  <2>1. \A v \in Workers \ {w} : RequestOK(v)'
        BY <1>1, <1>5, <1>9, RequestsFrame
  <2>2. RequestOK(w)'
        BY <1>1, <1>2, <1>4, <1>5, <1>9, CacheAssumption DEF RequestOK, Cacheable
  <2>. QED  BY <2>1, <2>2 DEF RequestsInv
<1>13. PinsInv'
  <2>1. \A m \in Files \ {n} : PinsOf(m)'
        BY <1>1, <1>6, <1>9, <1>10, PinsFrame DEF PinsInv
  <2>2. /\ Cardinality(Hits(n)') = Cardinality(Hits(n)) + 1
        /\ Cardinality(Hits(n)) \in Nat
        BY <1>6, WhoFinite, FS_AddElement
  <2>3. PinsOf(n)
        BY <1>1 DEF PinsInv
  <2>4. PinsOf(n)'
        BY <1>1, <1>6, <1>7, <1>9, <1>10, <2>2, <2>3 DEF PinsOf
  <2>. QED  BY <2>1, <2>4 DEF PinsInv
<1>. QED  BY <1>10, <1>11, <1>12, <1>13 DEF CacheInv

(* A miss: the file is not cached, so nobody sends it unless two requests   *)
(* had missed it before.                                                    *)
LEMMA MissKeeps ==
  ASSUME CacheInv, NEW w \in Workers, NEW n \in Files, Cache_lookup_miss(w, n)
  PROVE  CacheInv'
<1>1. /\ TypeOK /\ IndexInv /\ RequestsInv /\ PinsInv
      /\ lock = None /\ pc[w] = "idle" /\ file[w] = NoFile
      BY DEF CacheInv, Cache_lookup_miss, RequestsInv, RequestOK
<1>2. UNCHANGED << nameList, table, iCurrentSize, nPinned, lock, amount >>
      BY DEF Cache_lookup_miss
<1>3. /\ pc' \in [Workers -> {"idle", "read", "send", "evict"}]
      /\ file' \in [Workers -> Requests]
      /\ pc'[w] = "read" /\ Alone(w)
      /\ file'[w].name = n /\ file'[w].hit = FALSE
  <2> DEFINE f == [file[w] EXCEPT !.name = n]
  <2>1. file' = [file EXCEPT ![w] = f]
        BY DEF Cache_lookup_miss
  <2>2. f \in Requests /\ f.name = n /\ f.hit = FALSE
    <3>1. file[w] \in Requests /\ file[w].hit = FALSE
          BY <1>1 DEF Requests, NoFile, TypeOK
    <3>. QED  BY <3>1 DEF Requests
  <2> HIDE DEF f
  <2>3. file' \in [Workers -> Requests] /\ file'[w] = f
        /\ \A v \in Workers \ {w} : file'[v] = file[v]
        BY <1>1, <2>1, <2>2 DEF TypeOK, Requests
  <2>4. /\ pc' \in [Workers -> {"idle", "read", "send", "evict"}]
        /\ pc'[w] = "read" /\ \A v \in Workers \ {w} : pc'[v] = pc[v]
        BY <1>1 DEF TypeOK, Cache_lookup_miss
  <2>. QED  BY <2>2, <2>3, <2>4 DEF Alone
<1>4. n \notin Cached
  <2>1. SUFFICES ASSUME n \in Cached PROVE FALSE
        OBVIOUS
  <2>2. table[n].size \in Nat /\ Cacheable(table[n].size)
        BY <1>1, <2>1 DEF TypeOK, IndexInv, Blocks
  <2>3. ~Cacheable(0)
        BY <2>1 DEF Cache_lookup_miss
  <2>. QED  BY <2>2, <2>3, CacheAssumption DEF Cacheable
<1>5. /\ \A m \in Files : Hits(m)' = Hits(m)
      /\ \A m \in Files \ {n} : Fetching(m)' = Fetching(m)
      /\ Fetching(n)' = Fetching(n) \cup {w}
      BY <1>1, <1>3, CacheAssumption DEF Hits, Fetching, Alone, NoFile
<1>6. missedTwice' = (IF Missing(n) = {} THEN missedTwice ELSE missedTwice \cup {n})
      BY DEF Cache_lookup_miss
<1>7. Missing(n) = {} => Fetching(n) = {}
      BY <1>1, CacheAssumption DEF Missing, Fetching, RequestsInv, RequestOK
<1>8. Cached' = Cached
      BY <1>2 DEF Cached
<1>9. TypeOK'
      BY <1>1, <1>2, <1>3, <1>6 DEF TypeOK, Requests, Cached
<1>10. IndexInv'
       BY <1>1, <1>2 DEF IndexInv, CacheAccounted, Cached, Cacheable
<1>11. RequestsInv'
  <2>1. \A v \in Workers \ {w} : RequestOK(v)'
        BY <1>1, <1>2, <1>3, RequestsFrame
  <2>2. RequestOK(w)'
        BY <1>1, <1>2, <1>3, CacheAssumption DEF RequestOK
  <2>. QED  BY <2>1, <2>2 DEF RequestsInv
<1>12. PinsInv'
  <2>1. \A m \in Files \ {n} : PinsOf(m)'
        BY <1>1, <1>2, <1>5, <1>6, <1>8, PinsFrame DEF PinsInv
  <2>2. PinsOf(n)
        BY <1>1 DEF PinsInv
  <2>3. PinsOf(n)'
        BY <1>4, <1>5, <1>6, <1>7, <1>8, <2>2 DEF PinsOf
  <2>. QED  BY <2>1, <2>3 DEF PinsInv
<1>. QED  BY <1>9, <1>10, <1>11, <1>12 DEF CacheInv

(* The file is read: its size is known, and it will be sent.                *)
LEMMA ReadKeeps ==
  ASSUME CacheInv, NEW w \in Workers, request_readfile(w)
  PROVE  CacheInv'
<1>1. /\ TypeOK /\ IndexInv /\ RequestsInv /\ PinsInv /\ pc[w] = "read"
      /\ RequestOK(w)
      BY DEF CacheInv, request_readfile, RequestsInv
<1>2. UNCHANGED << nameList, table, iCurrentSize, nPinned, lock, amount, missedTwice >>
      BY DEF request_readfile
<1>3. /\ pc' \in [Workers -> {"idle", "read", "send", "evict"}]
      /\ file' \in [Workers -> Requests]
      /\ pc'[w] = "send" /\ Alone(w)
      /\ file'[w].name = file[w].name /\ file'[w].hit = file[w].hit
  <2>1. PICK s \in FileSizes[file[w].name] : file' = [file EXCEPT ![w].size = s]
        BY DEF request_readfile
  <2>2. s \in Nat
    <3>1. file[w].name \in Files
          BY <1>1 DEF RequestOK
    <3>. QED  BY <2>1, <3>1, CacheAssumption
  <2> DEFINE f == [file[w] EXCEPT !.size = s]
  <2>3. file' = [file EXCEPT ![w] = f]
        BY <2>1
  <2>4. f \in Requests /\ f.name = file[w].name /\ f.hit = file[w].hit
        BY <1>1, <2>2 DEF TypeOK, Requests
  <2> HIDE DEF f
  <2>5. file' \in [Workers -> Requests] /\ file'[w] = f
        /\ \A v \in Workers \ {w} : file'[v] = file[v]
        BY <1>1, <2>3, <2>4 DEF TypeOK, Requests
  <2>6. /\ pc' \in [Workers -> {"idle", "read", "send", "evict"}]
        /\ pc'[w] = "send" /\ \A v \in Workers \ {w} : pc'[v] = pc[v]
        BY <1>1 DEF TypeOK, request_readfile
  <2>. QED  BY <2>4, <2>5, <2>6 DEF Alone
<1>4. \A m \in Files : Hits(m)' = Hits(m) /\ Fetching(m)' = Fetching(m)
      BY <1>1, <1>3 DEF Hits, Fetching, Alone, RequestOK
<1>5. TypeOK'
      BY <1>1, <1>2, <1>3 DEF TypeOK, Requests, Cached
<1>6. IndexInv'
      BY <1>1, <1>2 DEF IndexInv, CacheAccounted, Cached, Cacheable
<1>7. RequestsInv'
  <2>1. \A v \in Workers \ {w} : RequestOK(v)'
        BY <1>1, <1>2, <1>3, RequestsFrame
  <2>2. RequestOK(w)'
        BY <1>1, <1>2, <1>3 DEF RequestOK
  <2>. QED  BY <2>1, <2>2 DEF RequestsInv
<1>8. PinsInv'
      BY <1>1, <1>2, <1>4, PinsFrame DEF PinsInv, Cached
<1>. QED  BY <1>5, <1>6, <1>7, <1>8 DEF CacheInv

(* A worker is done with its request and leaves the cache as it is.  If it  *)
(* sent a file that it had found, the file has left the cache meanwhile.    *)
LEMMA DoneKeeps ==
  ASSUME CacheInv, NEW w \in Workers, Done(w), pc[w] \in {"read", "send"},
         \A n \in Files : w \in Hits(n) => n \notin Cached,
         UNCHANGED << nameList, table, iCurrentSize, nPinned, lock, amount, missedTwice >>
  PROVE  CacheInv'
<1>1. /\ TypeOK /\ IndexInv /\ RequestsInv /\ PinsInv /\ RequestOK(w)
      BY DEF CacheInv, RequestsInv
<1>2. /\ pc' \in [Workers -> {"idle", "read", "send", "evict"}]
      /\ file' \in [Workers -> Requests]
      /\ pc'[w] = "idle" /\ file'[w] = NoFile /\ Alone(w)
      /\ \A n : Hits(n)' = Hits(n) \ {w} /\ Fetching(n)' = Fetching(n) \ {w}
      BY <1>1, DoneEffect
<1>3. TypeOK'
      BY <1>1, <1>2 DEF TypeOK, Requests, Cached
<1>4. IndexInv'
      BY <1>1 DEF IndexInv, CacheAccounted, Cached, Cacheable
<1>5. RequestsInv'
  <2>1. \A v \in Workers \ {w} : RequestOK(v)'
        BY <1>1, <1>2, RequestsFrame
  <2>2. RequestOK(w)'
        BY <1>1, <1>2 DEF RequestOK, NoFile
  <2>. QED  BY <2>1, <2>2 DEF RequestsInv
<1>6. PinsInv'
  <2>1. SUFFICES ASSUME NEW n \in Files
                 PROVE  PinsOf(n)'
        BY DEF PinsInv
  <2>2. PinsOf(n) /\ Cached' = Cached
        BY <1>1 DEF PinsInv, Cached
  <2>3. CASE w \in Hits(n)
    <3>1. n \notin Cached'
          BY <2>2, <2>3
    <3>. QED  BY <1>2, <2>2, <3>1 DEF PinsOf
  <2>4. CASE w \notin Hits(n)
    <3>1. Hits(n)' = Hits(n)
          BY <1>2, <2>4
    <3>. QED  BY <1>2, <2>2, <3>1, PinsFrame
  <2>. QED  BY <2>3, <2>4
<1>. QED  BY <1>3, <1>4, <1>5, <1>6 DEF CacheInv

(* The file cannot be read.                                                 *)
LEMMA ReadFailsKeeps ==
  ASSUME CacheInv, NEW w \in Workers, request_readfile_fails(w)
  PROVE  CacheInv'
<1>1. pc[w] = "read" /\ Done(w)
      /\ UNCHANGED << nameList, table, iCurrentSize, nPinned, lock, amount, missedTwice >>
      BY DEF request_readfile_fails
<1>2. \A n \in Files : w \notin Hits(n)
      BY <1>1 DEF Hits
<1>. QED  BY <1>1, <1>2, DoneKeeps

(* The file that was sent is not kept.                                      *)
LEMMA UncachedKeeps ==
  ASSUME CacheInv, NEW w \in Workers, Cache_insert_uncached(w)
  PROVE  CacheInv'
<1>1. /\ pc[w] = "send" /\ Done(w)
      /\ UNCHANGED << nameList, table, iCurrentSize, nPinned, lock, amount, missedTwice >>
      /\ Cacheable(file[w].size) => file[w].name \notin Cached
      BY DEF Cache_insert_uncached, Inserting
<1>2. RequestOK(w)
      BY DEF CacheInv, RequestsInv
<1>3. \A n \in Files : w \in Hits(n) => n \notin Cached
      BY <1>1, <1>2 DEF Hits, RequestOK
<1>. QED  BY <1>1, <1>3, DoneKeeps

(* The block of the file that was sent loses a pin.  A request that has no  *)
(* pin to give back exists only if two requests missed the file.            *)
LEMMA UnpinKeeps ==
  ASSUME CacheInv, NEW w \in Workers, Cache_insert_unpin(w)
  PROVE  CacheInv'
<1>0. PICK n \in Files : n = file[w].name
      BY DEF CacheInv, Cache_insert_unpin, TypeOK
<1> DEFINE k == table[n].pin - 1
<1>1. /\ TypeOK /\ IndexInv /\ RequestsInv /\ PinsInv /\ RequestOK(w)
      /\ n \in Cached /\ lock = None /\ pc[w] = "send" /\ Done(w)
      BY <1>0 DEF CacheInv, Cache_insert_unpin, Inserting, RequestsInv, RequestOK
<1>2. /\ pc' \in [Workers -> {"idle", "read", "send", "evict"}]
      /\ file' \in [Workers -> Requests]
      /\ pc'[w] = "idle" /\ file'[w] = NoFile /\ Alone(w)
      /\ \A m : Hits(m)' = Hits(m) \ {w} /\ Fetching(m)' = Fetching(m) \ {w}
      BY <1>1, DoneEffect
<1>3. UNCHANGED << nameList, iCurrentSize, lock, amount, missedTwice >>
      BY DEF Cache_insert_unpin
<1>4. /\ table' = [table EXCEPT ![n].pin = k]
      /\ nPinned' = IF table[n].pin = 1 THEN nPinned - 1 ELSE nPinned
      BY <1>0 DEF Cache_insert_unpin
<1>5. table[n].pin \in Int /\ k \in Int /\ k = table[n].pin - 1
      BY <1>1 DEF TypeOK, Blocks
<1>6. \A m \in Files : w \in Hits(m) \cup Fetching(m) => m = n
      BY <1>0 DEF Hits, Fetching
<1>7. w \in Hits(n) <=> w \notin Fetching(n)
      BY <1>0, <1>1 DEF Hits, Fetching, TypeOK
<1> HIDE DEF k
<1>8. nameList' \in Seq(Files) /\ IsInjective(nameList') /\ ToSet(nameList') = Cached
      BY <1>1, <1>3 DEF TypeOK, IndexInv, CacheAccounted
<1>9. /\ IndexInv' /\ Cached' = Cached /\ table' \in [Cached -> Blocks]
      /\ nPinned' \in Nat
      /\ table'[n].pin = k /\ \A m \in Cached \ {n} : table'[m] = table[m]
      BY <1>1, <1>3, <1>4, <1>5, <1>8, RepinStep
<1>10. TypeOK'
       BY <1>1, <1>2, <1>3, <1>9 DEF TypeOK, Requests, Cached
<1>11. RequestsInv'
  <2>1. \A v \in Workers \ {w} : RequestOK(v)'
        BY <1>1, <1>2, <1>3, RequestsFrame
  <2>2. RequestOK(w)'
        BY <1>1, <1>2, <1>3, CacheAssumption DEF RequestOK, NoFile
  <2>. QED  BY <2>1, <2>2 DEF RequestsInv
<1>12. PinsInv'
  <2>1. \A m \in Files \ {n} : PinsOf(m)'
    <3>1. SUFFICES ASSUME NEW m \in Files \ {n}
                   PROVE  PinsOf(m)'
          OBVIOUS
    <3>2. PinsOf(m) /\ Hits(m)' = Hits(m) /\ Fetching(m)' = Fetching(m)
          BY <1>1, <1>2, <1>6 DEF PinsInv
    <3>. QED  BY <1>3, <1>9, <3>2, PinsFrame
  <2>2. /\ PinsOf(n) /\ n \in Cached /\ n \in Cached' /\ missedTwice' = missedTwice
        /\ table'[n].pin = table[n].pin - 1 /\ table[n].pin \in Int
        BY <1>1, <1>3, <1>5, <1>9 DEF PinsInv
  <2>3. PinsOf(n)'
    <3>1. CASE w \in Hits(n)
      <4>1. /\ Cardinality(Hits(n)') = Cardinality(Hits(n)) - 1
            /\ Cardinality(Hits(n)) \in Nat
            BY <1>2, <3>1, WhoFinite, FS_RemoveElement
      <4>2. Fetching(n)' = Fetching(n)
            BY <1>2, <1>7, <3>1
      <4>. QED  BY ONLY <2>2, <4>1, <4>2 DEF PinsOf
    <3>2. CASE w \in Fetching(n)
      <4>1. Hits(n)' = Hits(n) /\ Cardinality(Hits(n)) \in Nat
            BY <1>2, <1>7, <3>2, WhoFinite
      <4>2. n \in missedTwice
            BY <2>2, <3>2 DEF PinsOf
      <4>. QED  BY ONLY <2>2, <4>1, <4>2 DEF PinsOf
    <3>. QED  BY <1>7, <3>1, <3>2
  <2>. QED  BY <2>1, <2>3 DEF PinsInv
<1>. QED  BY <1>9, <1>10, <1>11, <1>12 DEF CacheInv

(* The file of w enters the cache, unpinned, when w inserts it at once or   *)
(* at the end of Cache_evict.                                               *)
LEMMA AddedKeeps ==
  ASSUME CacheInv, NEW w \in Workers, Done(w), AddBlock(file[w]),
         \/ pc[w] = "send" /\ lock = None /\ UNCHANGED << lock, amount >>
         \/ pc[w] = "evict" /\ lock' = None /\ amount' = 0,
         file[w].name \notin Cached, Cacheable(file[w].size),
         iCurrentSize + file[w].size <= iTotalSize,
         UNCHANGED << nPinned, missedTwice >>
  PROVE  CacheInv'
<1>a. file[w] \in Requests /\ file[w].name \in Files
      BY DEF CacheInv, RequestsInv, RequestOK, TypeOK, Requests
<1>b. PICK f \in Requests : f = file[w]
      BY <1>a
<1>c. PICK n \in Files : n = f.name
      BY <1>a, <1>b
<1>1. /\ TypeOK /\ IndexInv /\ RequestsInv /\ PinsInv /\ RequestOK(w)
      /\ pc[w] \in {"send", "evict"}
      /\ lock \in {w, None} /\ lock' \in {w, None} /\ amount' \in Int
      BY DEF CacheInv, RequestsInv, RequestOK, TypeOK, Requests
<1>2. /\ pc' \in [Workers -> {"idle", "read", "send", "evict"}]
      /\ file' \in [Workers -> Requests]
      /\ pc'[w] = "idle" /\ file'[w] = NoFile /\ Alone(w)
      /\ \A m : Hits(m)' = Hits(m) \ {w} /\ Fetching(m)' = Fetching(m) \ {w}
      BY <1>1, DoneEffect
<1>3. \A m \in Files : w \in Hits(m) \cup Fetching(m) => m = n
      BY <1>b, <1>c DEF Hits, Fetching
<1>4. n \notin missedTwice => w \notin Hits(n) /\ w \in Fetching(n)
  <2>1. SUFFICES ASSUME n \notin missedTwice
                 PROVE  w \notin Hits(n) /\ w \in Fetching(n)
        OBVIOUS
  <2>2. Hits(n) = {}
        BY <1>1, <1>b, <1>c, <2>1 DEF PinsInv, PinsOf
  <2>3. ~f.hit
        BY <1>1, <1>b, <1>c, <2>1, <2>2 DEF Hits, RequestOK
  <2>. QED  BY <1>1, <1>b, <1>c, <2>2, <2>3 DEF Fetching
<1>5. /\ IndexInv' /\ Cached' = Cached \cup {n}
      /\ nameList' \in Seq(Files) /\ table' \in [Cached' -> Blocks] /\ iCurrentSize' \in Nat
      /\ table'[n].pin = 0 /\ \A m \in Cached : table'[m] = table[m]
  <2>1. /\ f.name \in Files \ Cached /\ Cacheable(f.size)
        /\ iCurrentSize + f.size <= iTotalSize /\ AddBlock(f)
        BY <1>1, <1>b, <1>c
  <2>. QED  BY <1>1, <1>c, <2>1, AddStep DEF Requests
<1>6. TypeOK'
      BY <1>1, <1>2, <1>5, CacheAssumption DEF TypeOK, Requests, Cached
<1>7. RequestsInv'
  <2>1. \A v \in Workers \ {w} : RequestOK(v)'
        BY <1>1, <1>2, RequestsFrame
  <2>2. lock' # w
        BY <1>1, CacheAssumption DEF RequestOK
  <2>3. RequestOK(w)'
        BY <1>1, <1>2, <2>2 DEF RequestOK, NoFile
  <2>. QED  BY <2>1, <2>3 DEF RequestsInv
<1>8. PinsInv'
  <2>1. \A m \in Files \ {n} : PinsOf(m)'
    <3>1. SUFFICES ASSUME NEW m \in Files \ {n}
                   PROVE  PinsOf(m)'
          OBVIOUS
    <3>2. PinsOf(m) /\ Hits(m)' = Hits(m) /\ Fetching(m)' = Fetching(m)
          BY <1>1, <1>2, <1>3 DEF PinsInv
    <3>3. /\ m \in Cached' <=> m \in Cached
          /\ m \in Cached => table'[m].pin = table[m].pin
          BY <1>5
    <3>. QED  BY <3>2, <3>3, PinsFrame
  <2>2. PinsOf(n) /\ n \in Cached' /\ n \notin Cached /\ table'[n].pin = 0
        BY <1>1, <1>5, <1>b, <1>c DEF PinsInv
  <2>3. IsFiniteSet(Hits(n)) /\ IsFiniteSet(Hits(n)') /\ Cardinality(Hits(n)') \in Nat
    <3>1. IsFiniteSet(Hits(n)) /\ Hits(n)' \subseteq Hits(n)
          BY <1>2, WhoFinite
    <3>. QED  BY <3>1, FS_Subset, FS_CardinalityType
  <2>4. n \notin missedTwice => Fetching(n)' = {} /\ Cardinality(Hits(n)') = 0
    <3>1. SUFFICES ASSUME n \notin missedTwice
                   PROVE  Fetching(n)' = {} /\ Cardinality(Hits(n)') = 0
          OBVIOUS
    <3>2. Fetching(n) = {w} /\ Hits(n) = {}
          BY <1>4, <2>2, <3>1 DEF PinsOf
    <3>3. Fetching(n)' = {} /\ Hits(n)' = {}
          BY <1>2, <3>2
    <3>. QED  BY <3>3, FS_EmptySet
  <2>5. PinsOf(n)'
        BY <2>2, <2>3, <2>4 DEF PinsOf
  <2>. QED  BY <2>1, <2>5 DEF PinsInv
<1>. QED  BY <1>5, <1>6, <1>7, <1>8 DEF CacheInv

(* There is room for the file.                                              *)
LEMMA InsertKeeps ==
  ASSUME CacheInv, NEW w \in Workers, Cache_insert(w)
  PROVE  CacheInv'
<1>1. /\ pc[w] = "send" /\ lock = None /\ UNCHANGED << lock, amount >>
      /\ Done(w) /\ AddBlock(file[w])
      /\ file[w].name \notin Cached /\ Cacheable(file[w].size) /\ HasRoom(file[w].size)
      /\ UNCHANGED << nPinned, missedTwice >>
      BY DEF Cache_insert, Inserting
<1>2. iCurrentSize + file[w].size <= iTotalSize
      BY <1>1, CacheAssumption DEF HasRoom, CacheInv, TypeOK
<1>. QED  BY <1>1, <1>2, AddedKeeps

(* There is no room: the request takes the lock until there is.  What it    *)
(* has to free makes room for its file.                                     *)
LEMMA InsertEvictKeeps ==
  ASSUME CacheInv, NEW w \in Workers, Cache_insert_evict(w)
  PROVE  CacheInv'
<1>1. /\ TypeOK /\ IndexInv /\ RequestsInv /\ PinsInv /\ RequestOK(w)
      /\ pc[w] = "send" /\ lock = None /\ file[w] \in Requests
      /\ file[w].name \in Files \ Cached /\ Cacheable(file[w].size)
      BY DEF CacheInv, Cache_insert_evict, Inserting, RequestsInv, RequestOK, TypeOK, Requests
<1>2. /\ UNCHANGED << nameList, table, iCurrentSize, nPinned, file, missedTwice >>
      /\ lock' = w /\ amount' = file[w].size
      BY DEF Cache_insert_evict
<1>3. /\ pc' \in [Workers -> {"idle", "read", "send", "evict"}]
      /\ pc'[w] = "evict" /\ Alone(w)
      BY <1>1, <1>2 DEF TypeOK, Cache_insert_evict, Alone
<1>4. Cached' = Cached
      BY <1>2 DEF Cached
<1>5. PICK n \in Files : n = file[w].name
      BY <1>1
<1>6. file[w].hit => n \in missedTwice
  <2>1. SUFFICES ASSUME file[w].hit, n \notin missedTwice
                 PROVE  FALSE
        OBVIOUS
  <2>2. w \in Hits(n)
        BY <1>1, <1>5, <2>1 DEF Hits
  <2>. QED  BY <1>1, <1>5, <2>1, <2>2 DEF PinsInv, PinsOf
<1>7. TypeOK'
      BY <1>1, <1>2, <1>3 DEF TypeOK, Requests, Cached
<1>8. IndexInv'
      BY <1>1, <1>2 DEF IndexInv, CacheAccounted, Cached, Cacheable
<1>9. RequestsInv'
  <2>1. \A v \in Workers \ {w} : RequestOK(v)'
        BY <1>1, <1>2, <1>3, RequestsFrame
  <2>2. iCurrentSize' - amount' + file'[w].size <= iTotalSize
    <3>1. /\ iCurrentSize <= iTotalSize /\ iCurrentSize \in Nat /\ iTotalSize \in Nat
          /\ file[w].size \in Nat
          BY <1>1, CacheAssumption DEF TypeOK, IndexInv, CacheAccounted, Requests
    <3>. QED  BY ONLY <1>2, <3>1
  <2>3. RequestOK(w)'
        BY <1>1, <1>2, <1>3, <1>4, <1>5, <1>6, <2>2 DEF RequestOK, Cacheable
  <2>. QED  BY <2>1, <2>3 DEF RequestsInv
<1>10. PinsInv'
  <2>1. SUFFICES ASSUME NEW m \in Files
                 PROVE  PinsOf(m)'
        BY DEF PinsInv
  <2>2. PinsOf(m) /\ Fetching(m)' = Fetching(m)
        BY <1>1, <1>2, <1>3 DEF PinsInv, Fetching, Alone
  <2>3. CASE w \in Hits(m)
    <3>1. m = n /\ m \in missedTwice
          BY <1>5, <1>6, <2>3 DEF Hits
    <3>. QED  BY <1>1, <1>2, <1>4, <1>5, <3>1 DEF PinsOf
  <2>4. CASE w \notin Hits(m)
    <3>1. Hits(m)' = Hits(m)
          BY <1>1, <1>2, <1>3, <2>4 DEF Hits, Alone
    <3>. QED  BY <1>2, <1>4, <2>2, <3>1, PinsFrame
  <2>. QED  BY <2>3, <2>4
<1>. QED  BY <1>7, <1>8, <1>9, <1>10 DEF CacheInv

-----------------------------------------------------------------------------
(* The rounds of Cache_evict                                                *)

(* A pinned block goes to the top.  The request goes on, or gives up.       *)
LEMMA EvictPinnedKeeps ==
  ASSUME CacheInv, NEW w \in Workers, Cache_evict_pinned(w)
  PROVE  CacheInv'
<1>1. /\ TypeOK /\ IndexInv /\ RequestsInv /\ PinsInv /\ RequestOK(w)
      /\ pc[w] = "evict" /\ lock = w /\ nameList # << >>
      BY DEF CacheInv, Cache_evict_pinned, Evicting, RequestsInv, RequestOK
<1>2. /\ nameList' \in Seq(Files) /\ IsInjective(nameList') /\ ToSet(nameList') = Cached
      /\ UNCHANGED << table, iCurrentSize, nPinned, missedTwice >>
  <2>1. Bottom \in Cached /\ nameList' = List_pmovetop(Bottom)
        BY <1>1, PullKeeps DEF Cache_evict_pinned
  <2>. QED  BY <1>1, <2>1, MoveKeeps DEF Cache_evict_pinned
<1>3. IndexInv'
      BY <1>1, <1>2 DEF IndexInv, CacheAccounted, Cached, Cacheable
<1>4. Cached' = Cached /\ \A m \in Files : PinsOf(m)
      BY <1>1, <1>2 DEF Cached, PinsInv
<1>5. CASE UNCHANGED << lock, pc, file, amount >>
  <2>1. TypeOK'
        BY <1>1, <1>2, <1>5 DEF TypeOK, Cached
  <2>2. RequestsInv'
        BY <1>1, <1>2, <1>5 DEF RequestsInv, RequestOK, Cached, Cacheable
  <2>3. \A m \in Files : Hits(m)' = Hits(m) /\ Fetching(m)' = Fetching(m)
        BY <1>5 DEF Hits, Fetching
  <2>4. PinsInv'
        BY <1>2, <1>4, <2>3, PinsFrame DEF PinsInv
  <2>. QED  BY <1>3, <2>1, <2>2, <2>4 DEF CacheInv
<1>6. CASE lock' = None /\ amount' = 0 /\ Done(w)
  <2>1. /\ pc' \in [Workers -> {"idle", "read", "send", "evict"}]
        /\ file' \in [Workers -> Requests]
        /\ pc'[w] = "idle" /\ file'[w] = NoFile /\ Alone(w)
        /\ \A n : Hits(n)' = Hits(n) \ {w} /\ Fetching(n)' = Fetching(n) \ {w}
        BY <1>1, <1>6, DoneEffect
  <2>2. TypeOK'
        BY <1>1, <1>2, <1>6, <2>1 DEF TypeOK, Requests, Cached
  <2>3. RequestsInv'
    <3>1. \A v \in Workers \ {w} : RequestOK(v)'
          BY <1>1, <1>6, <2>1, RequestsFrame
    <3>2. RequestOK(w)'
          BY <1>6, <2>1, CacheAssumption DEF RequestOK, NoFile
    <3>. QED  BY <3>1, <3>2 DEF RequestsInv
  <2>4. \A m \in Files : Hits(m)' = Hits(m) /\ Fetching(m)' \subseteq Fetching(m)
    <3>1. \A m \in Files : w \notin Hits(m)
          BY <1>1 DEF Hits
    <3>. QED  BY <2>1, <3>1
  <2>5. PinsInv'
        BY <1>2, <1>4, <2>4, PinsFrame DEF PinsInv
  <2>. QED  BY <1>3, <2>2, <2>3, <2>5 DEF CacheInv
<1>. QED  BY <1>5, <1>6 DEF Cache_evict_pinned

(* A block that nobody has pinned is evicted: nobody sends its file, or two *)
(* requests missed it.                                                      *)
LEMMA EvictKeeps ==
  ASSUME CacheInv, NEW w \in Workers, Cache_evict(w)
  PROVE  CacheInv'
<1>1. /\ TypeOK /\ IndexInv /\ RequestsInv /\ PinsInv /\ RequestOK(w)
      /\ pc[w] = "evict" /\ lock = w /\ nameList # << >> /\ table[Bottom].pin <= 0
      BY DEF CacheInv, Cache_evict, Evicting, RequestsInv, RequestOK
<1>2. /\ iCurrentSize' = iCurrentSize - table[Bottom].size
      /\ nameList' = List_pull
      /\ table' = [n \in Cached \ {Bottom} |-> table[n]]
      /\ amount' = amount - table[Bottom].size
      /\ UNCHANGED << nPinned, lock, pc, file, missedTwice >>
      BY DEF Cache_evict
<1>3. /\ IndexInv' /\ Bottom \in Cached /\ Cached' = Cached \ {Bottom}
      /\ nameList' \in Seq(Files) /\ table' \in [Cached' -> Blocks] /\ iCurrentSize' \in Nat
      /\ \A m \in Cached' : table'[m] = table[m]
      /\ table[Bottom].size \in Nat
      BY <1>1, <1>2, EvictStep
<1>4. TypeOK'
      BY <1>1, <1>2, <1>3 DEF TypeOK, Cached
<1>5. RequestsInv'
  <2>1. \A v \in Workers \ {w} : RequestOK(v)'
        BY <1>1, <1>2, RequestsFrame DEF Alone
  <2>2. iCurrentSize' - amount' + file'[w].size <= iTotalSize
    <3>1. /\ iCurrentSize - amount + file[w].size <= iTotalSize
          /\ iCurrentSize \in Nat /\ amount \in Int /\ file[w].size \in Nat
          BY <1>1 DEF RequestOK, TypeOK
    <3>. QED  BY ONLY <1>2, <1>3, <3>1
  <2>3. RequestOK(w)'
        BY <1>1, <1>2, <1>3, <2>2 DEF RequestOK, Cacheable
  <2>. QED  BY <2>1, <2>3 DEF RequestsInv
<1>6. PinsInv'
  <2>1. SUFFICES ASSUME NEW m \in Files
                 PROVE  PinsOf(m)'
        BY DEF PinsInv
  <2>2. PinsOf(m) /\ Hits(m)' = Hits(m) /\ Fetching(m)' = Fetching(m)
        BY <1>1, <1>2 DEF PinsInv, Hits, Fetching
  <2>3. CASE m = Bottom
    <3>1. m \in Cached /\ m \notin Cached' /\ missedTwice' = missedTwice
          /\ table[m].pin <= 0
          BY <1>1, <1>2, <1>3, <2>3
    <3>2. m \notin missedTwice => Hits(m) = {}
      <4>1. SUFFICES ASSUME m \notin missedTwice
                     PROVE  Hits(m) = {}
            OBVIOUS
      <4>2. IsFiniteSet(Hits(m)) /\ Cardinality(Hits(m)) = 0
            BY <2>2, <3>1, <4>1, WhoFinite DEF PinsOf
      <4>. QED  BY <4>2, FS_EmptySet
    <3>. QED  BY <2>2, <3>1, <3>2 DEF PinsOf
  <2>4. CASE m # Bottom
    <3>1. m \in Cached' <=> m \in Cached
          BY <1>3, <2>4
    <3>. QED  BY <1>2, <1>3, <2>2, <3>1, PinsFrame
  <2>. QED  BY <2>3, <2>4
<1>. QED  BY <1>3, <1>4, <1>5, <1>6 DEF CacheInv

(* Enough has been freed: the file enters the cache.                        *)
LEMMA EvictDoneKeeps ==
  ASSUME CacheInv, NEW w \in Workers, Cache_evict_done(w)
  PROVE  CacheInv'
<1>1. /\ TypeOK /\ RequestOK(w) /\ pc[w] = "evict" /\ amount <= 0
      /\ Done(w) /\ AddBlock(file[w]) /\ lock' = None /\ amount' = 0
      /\ UNCHANGED << nPinned, missedTwice >>
      BY DEF CacheInv, Cache_evict_done, RequestsInv
<1>2. /\ file[w].name \notin Cached /\ Cacheable(file[w].size)
      /\ iCurrentSize - amount + file[w].size <= iTotalSize
      BY <1>1 DEF RequestOK
<1>3. iCurrentSize + file[w].size <= iTotalSize
  <2>1. iCurrentSize \in Nat /\ amount \in Int /\ file[w].size \in Nat /\ iTotalSize \in Nat
        BY <1>1, CacheAssumption DEF TypeOK
  <2>. QED  BY ONLY <1>1, <1>2, <2>1
<1>. QED  BY <1>1, <1>2, <1>3, AddedKeeps

-----------------------------------------------------------------------------
(* The theorems                                                             *)

(* The cache is empty at first.                                             *)
LEMMA InitCache == Init => CacheInv
<1>1. SUFFICES ASSUME Init
               PROVE  CacheInv
      OBVIOUS
<1>2. Cached = {} /\ nameList = << >> /\ ToSet(nameList) = {} /\ DOMAIN nameList = {}
      BY <1>1 DEF Init, Cached, ToSet
<1>3. table \in [Cached -> Blocks]
      BY <1>1, <1>2 DEF Init, Cached
<1>4. TypeOK
      BY <1>1, <1>2, <1>3 DEF Init, TypeOK, NoFile
<1>5. iCurrentSize = SumFunction(Sizes)
  <2>1. DOMAIN Sizes = {}
        BY <1>2 DEF Sizes
  <2> DEFINE y == Sizes
  <2>2. y \in [{} -> Int]
        BY <1>2 DEF Sizes
  <2> HIDE DEF y
  <2>3. SumFunctionOnSet(y, {}) = 0
    <3>1. IsFiniteSet({}) /\ {} \in SUBSET {}
          BY FS_EmptySet
    <3>. QED  BY <2>2, <3>1, SumFacts
  <2>. QED  BY <1>1, <2>1, <2>3 DEF Init, SumFunction, y
<1>6. nPinned = Cardinality(Pinned)
      BY <1>1, <1>2, FS_EmptySet DEF Init, Pinned
<1>7. IndexInv
      BY <1>1, <1>2, <1>5, <1>6, CacheAssumption
      DEF Init, IndexInv, CacheAccounted, Sizes, Pinned, IsInjective
<1>8. RequestsInv
      BY <1>1, CacheAssumption DEF Init, RequestsInv, RequestOK, NoFile
<1>9. PinsInv
      BY <1>1, <1>2 DEF Init, PinsInv, PinsOf, Hits, Fetching, NoFile
<1>. QED  BY <1>4, <1>7, <1>8, <1>9 DEF CacheInv

(* Every step keeps the invariant.                                          *)
LEMMA NextCache == CacheInv /\ [Next]_vars => CacheInv'
<1>1. SUFFICES ASSUME CacheInv, [Next]_vars
               PROVE  CacheInv'
      OBVIOUS
<1>2. ASSUME NEW w \in Workers, Request(w)
      PROVE  CacheInv'
      BY <1>1, <1>2, LookupKeeps, MissKeeps DEF Request
<1>3. ASSUME NEW w \in Workers, Read(w)
      PROVE  CacheInv'
      BY <1>1, <1>3, ReadKeeps, ReadFailsKeeps DEF Read
<1>4. ASSUME NEW w \in Workers, Insert(w)
      PROVE  CacheInv'
      BY <1>1, <1>4, UncachedKeeps, UnpinKeeps, InsertKeeps, InsertEvictKeeps DEF Insert
<1>5. ASSUME NEW w \in Workers, Evict(w)
      PROVE  CacheInv'
      BY <1>1, <1>5, EvictPinnedKeeps, EvictKeeps, EvictDoneKeeps DEF Evict
<1>6. ASSUME UNCHANGED vars
      PROVE  CacheInv'
  <2>1. TypeOK' /\ IndexInv' /\ RequestsInv'
        BY <1>1, <1>6 DEF vars, CacheInv, TypeOK, IndexInv, CacheAccounted, RequestsInv,
                          RequestOK, Cached, Cacheable
  <2>2. PinsInv'
        BY <1>1, <1>6 DEF vars, CacheInv, PinsInv, PinsOf, Hits, Fetching, Cached
  <2>. QED  BY <2>1, <2>2 DEF CacheInv
<1>. QED  BY <1>1, <1>2, <1>3, <1>4, <1>5, <1>6 DEF Next

(* The invariant of the cache holds always.                                 *)
THEOREM CacheInvariant == Spec => []CacheInv
<1>. QED  BY InitCache, NextCache, PTL DEF Spec

(* The state of the cache keeps its type; no size becomes negative.         *)
THEOREM CacheTypeOK == Spec => []TypeOK
<1>1. CacheInv => TypeOK
      BY DEF CacheInv
<1>. QED  BY <1>1, CacheInvariant, PTL

(* Cache_lookup, Cache_insert and Cache_evict keep the list, the table and  *)
(* the counters of the cache in agreement.                                  *)
THEOREM CacheCounts == Spec => []CacheAccounted
<1>1. CacheInv => CacheAccounted
      BY DEF CacheInv, IndexInv
<1>. QED  BY <1>1, CacheInvariant, PTL

(* The pins in the cache are those of the requests that send, but for what  *)
(* a second miss of the same file took away.                                *)
THEOREM CachePins == Spec => []PinsMatchSenders
<1>1. CacheInv => PinsMatchSenders
  <2>1. CacheInv => NoPinLeaks
        BY DEF CacheInv, PinsInv, PinsOf, NoPinLeaks, TypeOK
  <2>2. CacheInv => SentFilesStay
        BY DEF CacheInv, PinsInv, PinsOf, SentFilesStay
  <2>. QED  BY <2>1, <2>2 DEF PinsMatchSenders
<1>. QED  BY <1>1, CacheInvariant, PTL

=============================================================================
