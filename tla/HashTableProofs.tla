--------------------------- MODULE HashTableProofs ---------------------------
(***************************************************************************)
(* What HashTable guarantees for every set of keys and every hash, and     *)
(* whatever is inserted and deleted while its buckets are moved: the table *)
(* is a map, and the old buffer is empty when it is freed.                 *)
(***************************************************************************)
EXTENDS HashTable, SequenceFacts, FunctionTheorems

-----------------------------------------------------------------------------
(* The invariant                                                            *)

Rows(size) == 0 .. size - 1

Buckets(size) == [Rows(size) -> Seq(Keys)]

Buffers(size) ==
  [m_pList             : Buckets(size),
   m_iSize             : {size},
   m_iBucketNumber     : Nat,
   m_iReallocateCursor : 0 .. size]

(* Where the pairs of some keys stand in the buckets l.                     *)
In(K, bucket) == {n \in 1 .. Len(bucket) : bucket[n] \in K}

StandIn(K, l) == UNION {{i} \X In(K, l[i]) : i \in DOMAIN l}

Size(K, l) == Cardinality(StandIn(K, l))

(* How often a key stands in the two buffers.                               *)
Pairs(k, a, b) == Size({k}, a.m_pList) + Size({k}, b.m_pList)

(* The pairs of a and b are those of c and d.                               *)
SamePairs(a, b, c, d) == \A k \in Keys : Pairs(k, a, b) = Pairs(k, c, d)

(* The buckets with something in them.                                      *)
Used(l) == {i \in DOMAIN l : l[i] # << >>}

(* The count of a buffer is not below its pairs; deletions do not reduce it.*)
Counts(b) == Size(Keys, b.m_pList) <= b.m_iBucketNumber

(* The sub buffer s is ahead of the main buffer m: while it is not empty,   *)
(* the main buffer cannot become overloaded before the last bucket moves.   *)
Ahead(m, s) ==
  /\ Used(s.m_pList) \subseteq s.m_iReallocateCursor .. s.m_iSize - 1
  /\ Used(s.m_pList) # {} =>
       /\ s.m_iSize >= 2 /\ m.m_iSize >= 2 * s.m_iSize
       /\ 4 * (m.m_iBucketNumber + s.m_iBucketNumber) + 2 * Cardinality(Used(s.m_pList))
            <= 3 * (s.m_iSize + 1)

(* The main buffer m, the sub buffer s, the pairs owed o, and whether any   *)
(* strayed.                                                                 *)
InOrder(m, s, o, astray) ==
  /\ m \in Buffers(m.m_iSize) /\ m.m_iSize \in Nat /\ m.m_iSize >= 2
  /\ m.m_iReallocateCursor = 0 /\ 2 * m.m_iBucketNumber < m.m_iSize
  /\ s \in Buffers(s.m_iSize) /\ s.m_iSize \in Nat
  /\ s.m_iSize = 0 => s = NoBuffer
  /\ Counts(m) /\ Counts(s) /\ Ahead(m, s)
  /\ o \in [Keys -> Nat] /\ astray \in BOOLEAN
  /\ \A k \in Keys : o[k] = Pairs(k, m, s)
  /\ ~astray => AtHome(m) /\ AtHome(s) /\ \A k \in Keys : o[k] <= 1

TableInv == InOrder(main, sub, owed, strayed)

-----------------------------------------------------------------------------
(* How many pairs stand in the buckets                                      *)

(* A set that grows by elements it has not.                                 *)
LEMMA DisjointSize ==
  ASSUME NEW S, NEW T, IsFiniteSet(S), IsFiniteSet(T), S \cap T = {}
  PROVE  /\ IsFiniteSet(S \cup T)
         /\ Cardinality(S \cup T) = Cardinality(S) + Cardinality(T)
<1>1. /\ IsFiniteSet(S \cup T)
      /\ Cardinality(S \cup T) = Cardinality(S) + Cardinality(T) - Cardinality(S \cap T)
      BY FS_Union
<1>2. Cardinality(S \cap T) = 0
      BY FS_EmptySet
<1>3. Cardinality(S) \in Nat /\ Cardinality(T) \in Nat
      BY FS_CardinalityType
<1>. QED  BY <1>1, <1>2, <1>3

(* A function that is one to one and onto.                                  *)
LEMMA OneToOne ==
  ASSUME NEW S, NEW T, IsFiniteSet(S), NEW F \in [S -> T],
         \A x, y \in S : F[x] = F[y] => x = y, \A z \in T : \E x \in S : F[x] = z
  PROVE  IsFiniteSet(T) /\ Cardinality(T) = Cardinality(S)
<1>1. F \in Bijection(S, T)
      BY Fun_IsBij
<1>2. ExistsBijection(S, T)
      BY <1>1, Fun_ExistsBij
<1>. QED  BY <1>2, FS_Bijection

(* Pairs with the same first component.                                     *)
LEMMA RowSize ==
  ASSUME NEW i, NEW S, IsFiniteSet(S)
  PROVE  IsFiniteSet({i} \X S) /\ Cardinality({i} \X S) = Cardinality(S)
<1> DEFINE F == [x \in S |-> << i, x >>]
<1>1. F \in [S -> {i} \X S]
      OBVIOUS
<1>2. \A x, y \in S : F[x] = F[y] => x = y
      OBVIOUS
<1>3. \A z \in {i} \X S : \E x \in S : F[x] = z
      OBVIOUS
<1> HIDE DEF F
<1>. QED  BY <1>1, <1>2, <1>3, OneToOne

(* The positions of keys in a bucket.                                       *)
LEMMA InFacts ==
  ASSUME NEW K, NEW s \in Seq(Keys)
  PROVE  /\ In(K, s) \in SUBSET (1 .. Len(s)) /\ IsFiniteSet(In(K, s))
         /\ Cardinality(In(K, s)) \in Nat
         /\ Cardinality(In(Keys, s)) = Len(s)
         /\ Cardinality(In(K, s)) = 0 <=> \A n \in 1 .. Len(s) : s[n] \notin K
<1>1. Len(s) \in Nat /\ \A n \in 1 .. Len(s) : s[n] \in Keys
      BY LenProperties, ElementOfSeq
<1>2. IsFiniteSet(1 .. Len(s)) /\ Cardinality(1 .. Len(s)) = Len(s)
  <2>1. PICK z \in Nat : z = Len(s)
        BY <1>1
  <2>2. /\ IsFiniteSet(1 .. z)
        /\ Cardinality(1 .. z) = IF 1 > z THEN 0 ELSE z - 1 + 1
        BY FS_Interval
  <2>3. (IF 1 > z THEN 0 ELSE z - 1 + 1) = z
        OBVIOUS
  <2>. QED  BY <2>1, <2>2, <2>3
<1>3. In(K, s) \in SUBSET (1 .. Len(s)) /\ In(Keys, s) = 1 .. Len(s)
      BY <1>1 DEF In
<1>4. IsFiniteSet(In(K, s)) /\ Cardinality(In(K, s)) \in Nat
      BY <1>2, <1>3, FS_Subset, FS_CardinalityType
<1>5. Cardinality(In(K, s)) = 0 <=> In(K, s) = {}
      BY <1>4, FS_EmptySet
<1>. QED  BY <1>2, <1>3, <1>4, <1>5 DEF In

(* Those of two buckets that are concatenated.                              *)
LEMMA InConcat ==
  ASSUME NEW K, NEW s \in Seq(Keys), NEW t \in Seq(Keys)
  PROVE  Cardinality(In(K, s \o t)) = Cardinality(In(K, s)) + Cardinality(In(K, t))
<1> DEFINE c == s \o t
           T == {n \in Len(s) + 1 .. Len(s) + Len(t) : c[n] \in K}
           F == [n \in In(K, t) |-> Len(s) + n]
<1>1. /\ c \in Seq(Keys) /\ Len(c) = Len(s) + Len(t)
      /\ Len(s) \in Nat /\ Len(t) \in Nat
      /\ \A i \in 1 .. Len(s) + Len(t) : c[i] = IF i <= Len(s) THEN s[i] ELSE t[i - Len(s)]
      BY ConcatProperties, LenProperties
<1> HIDE DEF c
<1>2. IsFiniteSet(In(K, s)) /\ IsFiniteSet(In(K, t)) /\ In(K, t) \in SUBSET (1 .. Len(t))
      BY InFacts
<1>3. In(K, c) = In(K, s) \cup T /\ In(K, s) \cap T = {}
      BY <1>1 DEF In
<1>4. IsFiniteSet(T) /\ Cardinality(T) = Cardinality(In(K, t))
  <2>1. F \in [In(K, t) -> T]
    <3>1. \A n \in In(K, t) : Len(s) + n \in T
          BY <1>1 DEF In
    <3>. QED  BY <3>1
  <2>2. \A x, y \in In(K, t) : F[x] = F[y] => x = y
        BY <1>1, <1>2
  <2>3. ASSUME NEW z \in T PROVE \E x \in In(K, t) : F[x] = z
    <3>1. z - Len(s) \in In(K, t) /\ Len(s) + (z - Len(s)) = z
          BY <1>1 DEF In
    <3>. QED  BY <3>1
  <2> HIDE DEF F, T
  <2>. QED  BY <1>2, <2>1, <2>2, <2>3, OneToOne
<1> HIDE DEF T
<1>. QED  BY <1>2, <1>3, <1>4, DisjointSize DEF c

(* That of a single key.                                                    *)
LEMMA InSingle ==
  ASSUME NEW K, NEW k \in Keys
  PROVE  /\ << k >> \in Seq(Keys) /\ Len(<< k >>) = 1
         /\ Cardinality(In(K, << k >>)) = IF k \in K THEN 1 ELSE 0
         /\ Cardinality(In(K, << >>)) = 0
<1>1. << k >> \in Seq(Keys) /\ Len(<< k >>) = 1 /\ << k >>[1] = k
      OBVIOUS
<1>2. In(K, << k >>) = IF k \in K THEN {1} ELSE {}
      BY <1>1 DEF In
<1>3. In(K, << >>) = {}
      BY DEF In
<1>. QED  BY <1>1, <1>2, <1>3, FS_Singleton, FS_EmptySet

(* A key is pushed on a bucket.                                             *)
LEMMA InPush ==
  ASSUME NEW K, NEW s \in Seq(Keys), NEW k \in Keys
  PROVE  /\ Bucket_push(s, k) \in Seq(Keys) /\ Bucket_push(s, k) # << >>
         /\ \A n \in 1 .. Len(Bucket_push(s, k)) :
              Bucket_push(s, k)[n] = k \/ \E m \in 1 .. Len(s) : s[m] = Bucket_push(s, k)[n]
         /\ Cardinality(In(K, Bucket_push(s, k))) =
              Cardinality(In(K, s)) + (IF k \in K THEN 1 ELSE 0)
<1>1. Append(s, k) = s \o << k >>
      OBVIOUS
<1>2. /\ Append(s, k) \in Seq(Keys) /\ Append(s, k) # << >> /\ Len(Append(s, k)) = Len(s) + 1
      /\ \A i \in 1 .. Len(s) : Append(s, k)[i] = s[i]
      /\ Append(s, k)[Len(s) + 1] = k /\ Len(s) \in Nat
      BY AppendProperties, LenProperties
<1>3. << k >> \in Seq(Keys) /\ Cardinality(In(K, << k >>)) = IF k \in K THEN 1 ELSE 0
      BY InSingle
<1>4. Cardinality(In(K, s \o << k >>)) = Cardinality(In(K, s)) + Cardinality(In(K, << k >>))
      BY <1>3, InConcat
<1>. QED  BY <1>1, <1>2, <1>3, <1>4 DEF Bucket_push

(* A key that is there is taken out of a bucket.                            *)
LEMMA InDelete ==
  ASSUME NEW K, NEW s \in Seq(Keys), NEW k \in Keys, \E n \in 1 .. Len(s) : s[n] = k
  PROVE  /\ Bucket_delete(s, k) \in Seq(Keys)
         /\ \A n \in 1 .. Len(Bucket_delete(s, k)) :
              \E m \in 1 .. Len(s) : s[m] = Bucket_delete(s, k)[n]
         /\ Cardinality(In(K, Bucket_delete(s, k))) =
              Cardinality(In(K, s)) - (IF k \in K THEN 1 ELSE 0)
<1> DEFINE I == {i \in 1 .. Len(s) : s[i] = k}
           p == SelectInSeq(s, LAMBDA v : v = k)
<1>1. Len(s) \in Nat /\ \A n \in 1 .. Len(s) : s[n] \in Keys
      BY LenProperties, ElementOfSeq
<1>2. p \in 1 .. Len(s) /\ s[p] = k
  <2>1. p = Min(I) /\ I # {} /\ I \in SUBSET Nat
        BY <1>1 DEF SelectInSeq
  <2>2. Min(I) \in I
        BY <2>1, LeastNumber DEF Min
  <2>. QED  BY <2>1, <2>2
<1>3. Bucket_delete(s, k) = RemoveAt(s, p)
      BY DEF Bucket_delete, RemoveFirst
<1> HIDE DEF p
<1> DEFINE a == SubSeq(s, 1, p - 1)
           b == SubSeq(s, p + 1, Len(s))
<1>4. /\ a \in Seq(Keys) /\ b \in Seq(Keys)
      /\ Len(a) = p - 1 /\ Len(b) = Len(s) - p
      /\ \A n \in 1 .. Len(a) : a[n] = s[n]
      /\ \A n \in 1 .. Len(b) : b[n] = s[p + n]
  <2>1. \A i \in 1 .. p - 1 : s[i] \in Keys
        BY <1>1, <1>2
  <2>2. \A i \in p + 1 .. Len(s) : s[i] \in Keys
        BY <1>1, <1>2
  <2>3. p \in Int /\ p - 1 \in Int /\ p + 1 \in Int /\ Len(s) \in Int /\ p >= 1 /\ p <= Len(s)
        BY <1>1, <1>2
  <2>4. /\ a \in Seq(Keys) /\ Len(a) = (IF 1 <= p - 1 THEN p - 1 - 1 + 1 ELSE 0)
        /\ \A i \in 1 .. p - 1 - 1 + 1 : a[i] = s[1 + i - 1]
        BY <2>1, <2>3, SubSeqProperties
  <2>5. /\ b \in Seq(Keys) /\ Len(b) = (IF p + 1 <= Len(s) THEN Len(s) - (p + 1) + 1 ELSE 0)
        /\ \A i \in 1 .. Len(s) - (p + 1) + 1 : b[i] = s[p + 1 + i - 1]
        BY <2>2, <2>3, SubSeqProperties
  <2> HIDE DEF a, b
  <2>6. Len(a) = p - 1 /\ \A n \in 1 .. Len(a) : a[n] = s[n]
    <3>1. Len(a) = p - 1 /\ \A i \in 1 .. p - 1 : a[i] = s[1 + i - 1] /\ 1 + i - 1 = i
          BY <2>3, <2>4
    <3>. QED  BY <3>1
  <2>7. Len(b) = Len(s) - p
    <3>1. p + 1 <= Len(s) => Len(s) - (p + 1) + 1 = Len(s) - p
          BY <2>3
    <3>2. ~(p + 1 <= Len(s)) => Len(s) - p = 0
          BY <2>3
    <3>. QED  BY <2>5, <3>1, <3>2
  <2>8. ASSUME NEW n \in 1 .. Len(b) PROVE b[n] = s[p + n]
    <3>1. n \in 1 .. Len(s) - (p + 1) + 1 /\ p + 1 + n - 1 = p + n
          BY <2>3, <2>7
    <3>. QED  BY <2>5, <3>1
  <2>. QED  BY <2>4, <2>5, <2>6, <2>7, <2>8
<1>5. s = (a \o << k >>) \o b
  <2>1. SubSeq(s, 1, p) \o b = s
        BY <1>1, <1>2, CutSeq
  <2>2. SubSeq(s, 1, p) = a \o << k >>
        BY <1>1, <1>2, SubSeqRecursiveSecond
  <2>. QED  BY <2>1, <2>2
<1> HIDE DEF a, b
<1>6. << k >> \in Seq(Keys) /\ a \o << k >> \in Seq(Keys) /\ a \o b \in Seq(Keys)
      BY <1>4, InSingle, ConcatProperties
<1>7. Cardinality(In(K, s)) =
        Cardinality(In(K, a)) + (IF k \in K THEN 1 ELSE 0) + Cardinality(In(K, b))
  <2>1. Cardinality(In(K, (a \o << k >>) \o b)) =
          Cardinality(In(K, a \o << k >>)) + Cardinality(In(K, b))
        BY <1>4, <1>6, InConcat
  <2>2. Cardinality(In(K, a \o << k >>)) = Cardinality(In(K, a)) + Cardinality(In(K, << k >>))
        BY <1>4, <1>6, InConcat
  <2>3. Cardinality(In(K, << k >>)) = IF k \in K THEN 1 ELSE 0
        BY InSingle
  <2>. QED  BY <1>5, <2>1, <2>2, <2>3
<1>8. Cardinality(In(K, a \o b)) = Cardinality(In(K, a)) + Cardinality(In(K, b))
      BY <1>4, InConcat
<1>9. Cardinality(In(K, a)) \in Nat /\ Cardinality(In(K, b)) \in Nat
      BY <1>4, InFacts
<1>10. ASSUME NEW n \in 1 .. Len(a \o b)
       PROVE  \E m \in 1 .. Len(s) : s[m] = (a \o b)[n]
  <2>1. /\ Len(a \o b) = Len(a) + Len(b) /\ Len(a) \in Nat /\ Len(b) \in Nat
        /\ (a \o b)[n] = IF n <= Len(a) THEN a[n] ELSE b[n - Len(a)]
    <3>1. /\ Len(a \o b) = Len(a) + Len(b)
          /\ \A i \in 1 .. Len(a) + Len(b) :
               (a \o b)[i] = IF i <= Len(a) THEN a[i] ELSE b[i - Len(a)]
          BY <1>4, ConcatProperties
    <3>2. Len(a) \in Nat /\ Len(b) \in Nat
          BY <1>4, LenProperties
    <3>. QED  BY <1>10, <3>1, <3>2
  <2>2. CASE n <= Len(a)
    <3>1. (a \o b)[n] = a[n]
          BY <2>1, <2>2
    <3>2. n \in 1 .. Len(a)
          BY <2>1, <2>2
    <3>3. PICK q \in 1 .. Len(s) : q = n
          BY <1>1, <1>2, <1>4, <3>2
    <3>4. s[q] = (a \o b)[n]
          BY <1>4, <3>1, <3>2, <3>3
    <3>. QED  BY <3>4
  <2>3. CASE ~(n <= Len(a))
    <3>1. n - Len(a) \in 1 .. Len(b) /\ p + (n - Len(a)) \in 1 .. Len(s)
      <4>1. n \in Int /\ n <= Len(a) + Len(b) /\ n > Len(a)
            BY <2>1, <2>3
      <4>2. p \in Int /\ p >= 1 /\ Len(b) = Len(s) - p /\ Len(s) \in Int
            BY <1>1, <1>2, <1>4
      <4>. QED  BY <2>1, <4>1, <4>2
    <3>2. (a \o b)[n] = b[n - Len(a)]
          BY <2>1, <2>3
    <3>3. b[n - Len(a)] = s[p + (n - Len(a))]
          BY <1>4, <3>1
    <3>4. PICK q \in 1 .. Len(s) : q = p + (n - Len(a))
          BY <3>1
    <3>5. s[q] = (a \o b)[n]
          BY <3>2, <3>3, <3>4
    <3>. QED  BY <3>5
  <2>. QED  BY <2>2, <2>3
<1>11. Bucket_delete(s, k) = a \o b
       BY <1>3 DEF RemoveAt, a, b
<1>12. Cardinality(In(K, a \o b)) = Cardinality(In(K, s)) - (IF k \in K THEN 1 ELSE 0)
       BY <1>7, <1>8, <1>9
<1>. QED  BY <1>6, <1>10, <1>11, <1>12

(* The rows of a table of buckets.                                          *)
LEMMA RowFacts ==
  ASSUME NEW size \in Nat, NEW l \in Buckets(size)
  PROVE  /\ IsFiniteSet(Rows(size)) /\ DOMAIN l = Rows(size)
         /\ \A i \in Rows(size) : i \in Nat /\ i \in 0 .. size /\ i < size
         /\ \A i \in Rows(size) : l[i] \in Seq(Keys)
         /\ \A i \in Rows(size) : Len(l[i]) \in Nat /\ DOMAIN l[i] = 1 .. Len(l[i])
<1>1. IsFiniteSet(Rows(size))
      BY FS_Interval DEF Rows
<1>2. \A i \in Rows(size) : l[i] \in Seq(Keys)
      BY DEF Buckets
<1>3. \A i \in Rows(size) : i \in Nat /\ i \in 0 .. size /\ i < size
      BY DEF Rows
<1>4. DOMAIN l = Rows(size)
      BY DEF Buckets
<1>. QED  BY <1>1, <1>2, <1>3, <1>4, LenProperties

(* A table of which one bucket is replaced.                                 *)
LEMMA ReplaceFacts ==
  ASSUME NEW size \in Nat, NEW l \in Buckets(size), NEW i \in Rows(size), NEW s \in Seq(Keys)
  PROVE  /\ [l EXCEPT ![i] = s] \in Buckets(size)
         /\ [l EXCEPT ![i] = s][i] = s
         /\ \A j \in Rows(size) \ {i} : [l EXCEPT ![i] = s][j] = l[j]
BY DEF Buckets

(* Where they stand.                                                        *)
LEMMA StandMembers ==
  ASSUME NEW K, NEW size \in Nat, NEW l \in Buckets(size)
  PROVE  \A p : p \in StandIn(K, l) <=> \E i \in Rows(size) : \E n \in In(K, l[i]) : p = << i, n >>
BY RowFacts DEF StandIn

(* How many pairs there are.                                                *)
LEMMA StandFacts ==
  ASSUME NEW K, NEW size \in Nat, NEW l \in Buckets(size)
  PROVE  /\ IsFiniteSet(StandIn(K, l)) /\ Size(K, l) \in Nat
         /\ Size(K, l) = 0 <=> \A i \in Rows(size) : \A n \in 1 .. Len(l[i]) : l[i][n] \notin K
<1>1. \A p : p \in StandIn(K, l) <=> \E i \in Rows(size) : \E n \in In(K, l[i]) : p = << i, n >>
      BY StandMembers
<1>2. \A i \in Rows(size) : IsFiniteSet(In(K, l[i]))
      BY RowFacts, InFacts
<1>3. IsFiniteSet(StandIn(K, l))
  <2> DEFINE R == {{i} \X In(K, l[i]) : i \in Rows(size)}
  <2>1. IsFiniteSet(R)
    <3>2. IsFiniteSet(Rows(size))
          BY RowFacts
    <3> DEFINE F == [i \in Rows(size) |-> {i} \X In(K, l[i])]
    <3>1. F \in Surjection(Rows(size), R)
          BY DEF Surjection
    <3> HIDE DEF F, R
    <3>. QED  BY <3>1, <3>2, FS_Surjection
  <2>2. ASSUME NEW T \in R PROVE IsFiniteSet(T)
    <3>1. PICK i \in Rows(size) : T = {i} \X In(K, l[i])
          OBVIOUS
    <3>. QED  BY <1>2, <3>1, RowSize
  <2>3. StandIn(K, l) = UNION R
        BY RowFacts DEF StandIn
  <2> HIDE DEF R
  <2>. QED  BY <2>1, <2>2, <2>3, FS_UNION
<1>4. Size(K, l) = 0 <=> StandIn(K, l) = {}
      BY <1>3, FS_EmptySet DEF Size
<1>5. StandIn(K, l) = {} <=> \A i \in Rows(size) : In(K, l[i]) = {}
      BY <1>1
<1>6. Size(K, l) \in Nat
      BY <1>3, FS_CardinalityType DEF Size
<1>. QED  BY <1>3, <1>4, <1>5, <1>6 DEF In

(* The used buckets are not more than the pairs.                            *)
LEMMA UsedFacts ==
  ASSUME NEW size \in Nat, NEW l \in Buckets(size)
  PROVE  /\ Used(l) \subseteq Rows(size) /\ IsFiniteSet(Used(l)) /\ Cardinality(Used(l)) \in Nat
         /\ Cardinality(Used(l)) = 0 <=> Used(l) = {}
         /\ Cardinality(Used(l)) <= Size(Keys, l)
<1>1. Used(l) \in SUBSET Rows(size) /\ IsFiniteSet(Rows(size))
      BY RowFacts DEF Used
<1>2. IsFiniteSet(Used(l))
      BY <1>1, FS_Subset
<1> DEFINE T == {<< i, 1 >> : i \in Used(l)}
           F == [i \in Used(l) |-> << i, 1 >>]
<1>3. Cardinality(T) = Cardinality(Used(l))
  <2>1. F \in [Used(l) -> T]
        OBVIOUS
  <2>2. \A x, y \in Used(l) : F[x] = F[y] => x = y
        OBVIOUS
  <2>3. \A z \in T : \E x \in Used(l) : F[x] = z
        OBVIOUS
  <2> HIDE DEF F, T
  <2>. QED  BY <1>2, <2>1, <2>2, <2>3, OneToOne
<1>4. T \in SUBSET StandIn(Keys, l)
  <2>1. ASSUME NEW i \in Used(l) PROVE << i, 1 >> \in StandIn(Keys, l)
    <3>1. i \in Rows(size) /\ l[i] \in Seq(Keys) /\ l[i] # << >>
          BY RowFacts DEF Used
    <3>2. 1 \in 1 .. Len(l[i])
          BY <3>1, EmptySeq
    <3>3. l[i][1] \in Keys
          BY <3>1, <3>2, ElementOfSeq
    <3>4. 1 \in In(Keys, l[i])
          BY <3>2, <3>3 DEF In
    <3>. QED  BY <3>1, <3>4, StandMembers
  <2>. QED  BY <2>1
<1>5. IsFiniteSet(StandIn(Keys, l))
      BY StandFacts
<1> HIDE DEF T
<1>6. Cardinality(T) <= Size(Keys, l)
      BY <1>4, <1>5, FS_Subset DEF Size
<1>. QED  BY <1>1, <1>2, <1>3, <1>6, FS_CardinalityType, FS_EmptySet

(* What replacing a bucket does to the number of pairs.                     *)
LEMMA ReplaceSize ==
  ASSUME NEW size \in Nat, NEW l \in Buckets(size), NEW i \in Rows(size), NEW s \in Seq(Keys)
  PROVE  \A K : Size(K, [l EXCEPT ![i] = s]) =
                   Size(K, l) - Cardinality(In(K, l[i])) + Cardinality(In(K, s))
<1> TAKE K
<1>u. PICK m : m = [l EXCEPT ![i] = s]
      OBVIOUS
<1> DEFINE R == {p \in StandIn(K, l) : p[1] # i}
           A == {i} \X In(K, l[i])
           B == {i} \X In(K, s)
<1>1. m \in Buckets(size) /\ m[i] = s /\ \A j \in Rows(size) \ {i} : m[j] = l[j]
  <2>1. /\ [l EXCEPT ![i] = s] \in Buckets(size) /\ [l EXCEPT ![i] = s][i] = s
        /\ \A j \in Rows(size) \ {i} : [l EXCEPT ![i] = s][j] = l[j]
        BY ReplaceFacts
  <2>. QED  BY <2>1, <1>u
<1>2. /\ IsFiniteSet(A) /\ Cardinality(A) = Cardinality(In(K, l[i]))
      /\ IsFiniteSet(B) /\ Cardinality(B) = Cardinality(In(K, s))
      BY RowFacts, InFacts, RowSize
<1>3. /\ \A p : p \in StandIn(K, l) <=> \E j \in Rows(size) : \E n \in In(K, l[j]) : p = << j, n >>
      /\ \A p : p \in StandIn(K, m) <=> \E j \in Rows(size) : \E n \in In(K, m[j]) : p = << j, n >>
  <2>1. \A p : p \in StandIn(K, l) <=> \E j \in Rows(size) : \E n \in In(K, l[j]) : p = << j, n >>
        BY StandMembers
  <2>2. \A p : p \in StandIn(K, m) <=> \E j \in Rows(size) : \E n \in In(K, m[j]) : p = << j, n >>
        BY <1>1, StandMembers
  <2>. QED  BY <2>1, <2>2
<1>4. IsFiniteSet(R)
  <2>1. IsFiniteSet(StandIn(K, l)) /\ R \in SUBSET StandIn(K, l)
        BY StandFacts
  <2> HIDE DEF R
  <2>. QED  BY <2>1, FS_Subset
<1>5. StandIn(K, l) = R \cup A /\ R \cap A = {}
      BY <1>3
<1>6. StandIn(K, m) = R \cup B /\ R \cap B = {}
  <2>1. \A p : p \in StandIn(K, m) => p \in R \/ p \in B
        BY <1>1, <1>3
  <2>2. \A p : p \in R \/ p \in B => p \in StandIn(K, m)
        BY <1>1, <1>3
  <2>. QED  BY <2>1, <2>2
<1> HIDE DEF A, B, R
<1>7. /\ Cardinality(StandIn(K, l)) = Cardinality(R) + Cardinality(A)
      /\ Cardinality(StandIn(K, m)) = Cardinality(R) + Cardinality(B)
      BY <1>2, <1>4, <1>5, <1>6, DisjointSize
<1>8. Cardinality(R) \in Nat /\ Cardinality(A) \in Nat /\ Cardinality(B) \in Nat
      BY <1>2, <1>4, FS_CardinalityType
<1>. QED  BY <1>1, <1>2, <1>7, <1>8, <1>u DEF Size

(* A used bucket is emptied.                                                *)
LEMMA EmptyUsed ==
  ASSUME NEW size \in Nat, NEW l \in Buckets(size), NEW i \in Used(l)
  PROVE  /\ Used([l EXCEPT ![i] = << >>]) = Used(l) \ {i}
         /\ Cardinality(Used([l EXCEPT ![i] = << >>])) = Cardinality(Used(l)) - 1
         /\ \A K : Size(K, [l EXCEPT ![i] = << >>]) = Size(K, l) - Cardinality(In(K, l[i]))
<1>1. Used([l EXCEPT ![i] = << >>]) = Used(l) \ {i}
  <2>1. PICK m : m = [l EXCEPT ![i] = << >>]
        OBVIOUS
  <2>2. i \in Rows(size) /\ << >> \in Seq(Keys)
        BY UsedFacts
  <2>3. m \in Buckets(size) /\ m[i] = << >> /\ \A j \in Rows(size) \ {i} : m[j] = l[j]
    <3>1. /\ [l EXCEPT ![i] = << >>] \in Buckets(size) /\ [l EXCEPT ![i] = << >>][i] = << >>
          /\ \A j \in Rows(size) \ {i} : [l EXCEPT ![i] = << >>][j] = l[j]
          BY <2>2 DEF Buckets
    <3>. QED  BY <3>1, <2>1
  <2>4. DOMAIN m = Rows(size) /\ DOMAIN l = Rows(size)
        BY <2>3, RowFacts
  <2>. QED  BY <2>1, <2>2, <2>3, <2>4 DEF Used
<1>2. IsFiniteSet(Used(l))
      BY UsedFacts
<1>3. ASSUME NEW K
      PROVE  Size(K, [l EXCEPT ![i] = << >>]) = Size(K, l) - Cardinality(In(K, l[i]))
  <2>1. i \in Rows(size) /\ l[i] \in Seq(Keys)
        BY UsedFacts, RowFacts
  <2>2. PICK e \in Seq(Keys) : e = << >>
    <3>1. << >> \in Seq(Keys)
          OBVIOUS
    <3>. QED  BY <3>1
  <2>3. Size(K, [l EXCEPT ![i] = e]) =
          Size(K, l) - Cardinality(In(K, l[i])) + Cardinality(In(K, e))
        BY <2>1, ReplaceSize
  <2>4. Cardinality(In(K, << >>)) = 0
    <3>1. In(K, << >>) = {}
          BY DEF In
    <3>. QED  BY <3>1, FS_EmptySet
  <2>5. Size(K, l) \in Nat /\ Cardinality(In(K, l[i])) \in Nat
        BY <2>1, StandFacts, InFacts
  <2>. QED  BY <2>2, <2>3, <2>4, <2>5
<1>. QED  BY <1>1, <1>2, <1>3, FS_RemoveElement

-----------------------------------------------------------------------------
(* Buffers                                                                  *)

(* The fields of a buffer.                                                  *)
LEMMA BufferFacts ==
  ASSUME NEW size \in Nat, NEW b \in Buffers(size)
  PROVE  /\ b.m_pList \in Buckets(size) /\ IsFiniteSet(Rows(size))
         /\ b.m_iSize = size /\ b.m_iBucketNumber \in Nat /\ b.m_iReallocateCursor \in 0 .. size
         /\ \A i \in Rows(size) :
              b.m_pList[i] \in Seq(Keys) /\ Len(b.m_pList[i]) \in Nat
              /\ DOMAIN b.m_pList[i] = 1 .. Len(b.m_pList[i])
<1>1. /\ b.m_pList \in Buckets(size)
      /\ b.m_iSize = size /\ b.m_iBucketNumber \in Nat /\ b.m_iReallocateCursor \in 0 .. size
      BY DEF Buffers
<1>2. \A i \in Rows(size) :
        b.m_pList[i] \in Seq(Keys) /\ Len(b.m_pList[i]) \in Nat
        /\ DOMAIN b.m_pList[i] = 1 .. Len(b.m_pList[i])
      BY <1>1, RowFacts
<1>3. IsFiniteSet(Rows(size))
      BY <1>1, RowFacts
<1>. QED  BY <1>1, <1>2, <1>3

(* A key has a bucket in every buffer that has buckets.                     *)
LEMMA HomeFacts ==
  ASSUME NEW size \in Nat \ {0}, NEW b, b.m_iSize = size, NEW k \in Keys
  PROVE  Home(k, b) = Hash[k] % size /\ Home(k, b) \in Rows(size)
BY HashTableAssumption DEF Home, Rows

(* Each pair is in the bucket of its key.                                   *)
LEMMA AtHomeFacts ==
  ASSUME NEW size \in Nat, NEW b \in Buffers(size)
  PROVE  AtHome(b) <=> \A i \in Rows(size) : \A n \in 1 .. Len(b.m_pList[i]) :
                         Hash[b.m_pList[i][n]] % size = i
<1>1. /\ b.m_pList \in Buckets(size) /\ b.m_iSize = size
      /\ \A i \in Rows(size) : DOMAIN b.m_pList[i] = 1 .. Len(b.m_pList[i])
      BY BufferFacts
<1>2. DOMAIN b.m_pList = Rows(size)
      BY <1>1, RowFacts
<1>3. AtHome(b) <=> \A i \in Rows(size) : \A k \in Range(b.m_pList[i]) : Hash[k] % size = i
      BY <1>1, <1>2 DEF AtHome, Home
<1>4. \A i \in Rows(size) : \A k :
        k \in Range(b.m_pList[i]) <=> \E n \in 1 .. Len(b.m_pList[i]) : k = b.m_pList[i][n]
      BY <1>1 DEF Range
<1>5. ASSUME NEW i \in Rows(size)
      PROVE  (\A k \in Range(b.m_pList[i]) : Hash[k] % size = i) <=>
               \A n \in 1 .. Len(b.m_pList[i]) : Hash[b.m_pList[i][n]] % size = i
  <2> DEFINE l == b.m_pList[i]
  <2>1. \A k : k \in Range(l) <=> \E n \in 1 .. Len(l) : k = l[n]
        BY <1>4
  <2> HIDE DEF l
  <2>2. (\A k \in Range(l) : Hash[k] % size = i) <=> \A n \in 1 .. Len(l) : Hash[l[n]] % size = i
        BY <2>1
  <2>. QED  BY <2>2 DEF l
<1>. QED  BY <1>3, <1>5

(* What find finds, and when.                                               *)
LEMMA FindFacts ==
  ASSUME NEW size \in Nat, NEW b \in Buffers(size), size = 0 => b = NoBuffer, NEW k \in Keys
  PROVE  /\ BucketBuffer_find(b, k) =>
              /\ size # 0 /\ Home(k, b) \in Rows(size)
              /\ \E n \in 1 .. Len(b.m_pList[Home(k, b)]) : b.m_pList[Home(k, b)][n] = k
              /\ Size({k}, b.m_pList) # 0
         /\ AtHome(b) /\ Size({k}, b.m_pList) # 0 => BucketBuffer_find(b, k)
<1>1. /\ b.m_pList \in Buckets(size) /\ b.m_iSize = size
      /\ IsFiniteSet(Rows(size))
      /\ \A i \in Rows(size) : DOMAIN b.m_pList[i] = 1 .. Len(b.m_pList[i])
      BY BufferFacts
<1>2. Size({k}, b.m_pList) = 0 <=>
        \A i \in Rows(size) : \A n \in 1 .. Len(b.m_pList[i]) : b.m_pList[i][n] \notin {k}
      BY <1>1, StandFacts
<1>3. ASSUME size # 0
      PROVE  /\ Home(k, b) = Hash[k] % size /\ Home(k, b) \in Rows(size) /\ b # NoBuffer
             /\ BucketBuffer_find(b, k) <=>
                  \E n \in 1 .. Len(b.m_pList[Home(k, b)]) : b.m_pList[Home(k, b)][n] = k
  <2>1. Home(k, b) = Hash[k] % size /\ Home(k, b) \in Rows(size)
        BY <1>1, <1>3, HomeFacts
  <2>2. NoBuffer.m_iSize = 0
        BY DEF NoBuffer, BucketBuffer_new
  <2>3. k \in Range(b.m_pList[Home(k, b)]) <=>
          \E n \in 1 .. Len(b.m_pList[Home(k, b)]) : b.m_pList[Home(k, b)][n] = k
        BY <1>1, <2>1 DEF Range
  <2>. QED  BY <1>1, <1>3, <2>1, <2>2, <2>3 DEF BucketBuffer_find
<1>4. BucketBuffer_find(b, k) => size # 0
      BY DEF BucketBuffer_find
<1>5. ASSUME BucketBuffer_find(b, k)
      PROVE  /\ size # 0 /\ Home(k, b) \in Rows(size)
             /\ \E n \in 1 .. Len(b.m_pList[Home(k, b)]) : b.m_pList[Home(k, b)][n] = k
             /\ Size({k}, b.m_pList) # 0
      BY <1>2, <1>3, <1>4, <1>5
<1>6. ASSUME AtHome(b), Size({k}, b.m_pList) # 0
      PROVE  BucketBuffer_find(b, k)
  <2>1. PICK i \in Rows(size) : \E n \in 1 .. Len(b.m_pList[i]) : b.m_pList[i][n] = k
        BY <1>2, <1>6
  <2>2. Hash[k] % size = i
        BY <1>6, <2>1, AtHomeFacts
  <2>3. size # 0
        BY <2>1 DEF Rows
  <2>. QED  BY <1>3, <2>1, <2>2, <2>3
<1>. QED  BY <1>5, <1>6

-----------------------------------------------------------------------------
(* Moving buckets                                                           *)

(* What has become of the buffers t0 when n buckets were moved.             *)
Moved(t, t0, n) ==
  /\ t.main \in Buffers(t0.main.m_iSize) /\ t.sub \in Buffers(t0.sub.m_iSize)
  /\ t.main.m_iReallocateCursor = 0
  /\ t.main.m_iBucketNumber + t.sub.m_iBucketNumber =
       t0.main.m_iBucketNumber + t0.sub.m_iBucketNumber
  /\ Counts(t.main) /\ Counts(t.sub)
  /\ SamePairs(t.main, t.sub, t0.main, t0.sub)
  /\ Used(t.sub.m_pList) \subseteq t.sub.m_iReallocateCursor .. t.sub.m_iSize - 1
  /\ Used(t.sub.m_pList) # {} =>
       Cardinality(Used(t.sub.m_pList)) + n <= Cardinality(Used(t0.sub.m_pList))
  /\ AtHome(t0.sub) => AtHome(t.sub)
  /\ Used(t0.sub.m_pList) = {} => t.main = t0.main /\ t.sub = t0.sub

(* The buckets that reallocation comes to are all that are used.            *)
LEMMA WaitingFacts ==
  ASSUME NEW size \in Nat, NEW b \in Buffers(size),
         Used(b.m_pList) \subseteq b.m_iReallocateCursor .. b.m_iSize - 1
  PROVE  /\ Waiting(b) = Used(b.m_pList)
         /\ Waiting(b) # {} => /\ Min(Waiting(b)) \in Used(b.m_pList)
                               /\ \A j \in Used(b.m_pList) : Min(Waiting(b)) <= j
<1>1. /\ DOMAIN b.m_pList = Rows(size) /\ b.m_iSize = size
      /\ b.m_iReallocateCursor \in 0 .. size
      BY RowFacts DEF Buffers
<1>2. b.m_iReallocateCursor .. size - 1 \subseteq Rows(size)
      BY <1>1 DEF Rows
<1>3. Waiting(b) = Used(b.m_pList)
      BY <1>1, <1>2 DEF Waiting, Used
<1>4. Waiting(b) \in SUBSET Nat
      BY <1>1 DEF Waiting
<1>5. ASSUME Waiting(b) # {}
      PROVE  Min(Waiting(b)) \in Waiting(b) /\ \A j \in Waiting(b) : Min(Waiting(b)) <= j
      BY <1>4, <1>5, LeastNumber DEF Min
<1>. QED  BY <1>3, <1>5

(* A bucket is moved.                                                       *)
LEMMA MoveFacts ==
  ASSUME NEW M \in Nat \ {0}, NEW m \in Buffers(M), NEW S \in Nat, NEW s \in Buffers(S),
         Counts(m), Counts(s), NEW i \in Used(s.m_pList), NEW last \in BOOLEAN,
         NEW m2, m2 = BucketReceived(m, s.m_pList[i]), NEW s2, s2 = BucketSent(s, i, last)
  PROVE  /\ m2 \in Buffers(M) /\ m2.m_iReallocateCursor = m.m_iReallocateCursor
         /\ s2 \in Buffers(S)
         /\ s2.m_iReallocateCursor = IF last THEN i ELSE s.m_iReallocateCursor
         /\ m2.m_iBucketNumber + s2.m_iBucketNumber = m.m_iBucketNumber + s.m_iBucketNumber
         /\ SamePairs(m2, s2, m, s)
         /\ Counts(m2) /\ Counts(s2)
         /\ s2.m_pList = [s.m_pList EXCEPT ![i] = << >>]
         /\ AtHome(s) => AtHome(s2)
<1> DEFINE bucket == s.m_pList[i]
           h == Home(bucket[1], m)
           joined == m.m_pList[h] \o bucket
<1>1. /\ m.m_pList \in Buckets(M) /\ m.m_iSize = M
      /\ s.m_pList \in Buckets(S) /\ s.m_iSize = S
      /\ m.m_iBucketNumber \in Nat /\ s.m_iBucketNumber \in Nat
      /\ IsFiniteSet(Rows(M)) /\ IsFiniteSet(Rows(S))
      BY BufferFacts
<1>2. i \in Rows(S) /\ bucket \in Seq(Keys) /\ bucket # << >> /\ Len(bucket) \in Nat
      BY <1>1, RowFacts DEF Used
<1>3. bucket[1] \in Keys
  <2>1. 1 \in 1 .. Len(bucket)
        BY <1>2, EmptySeq
  <2>. QED  BY <1>2, <2>1, ElementOfSeq
<1>4. h \in Rows(M) /\ m.m_pList[h] \in Seq(Keys)
      BY <1>1, <1>3, HomeFacts, RowFacts
<1>5. joined \in Seq(Keys) /\ << >> \in Seq(Keys)
      BY <1>2, <1>4, ConcatProperties
<1> HIDE DEF h, joined, bucket
<1>6. /\ m2 = [m EXCEPT !.m_pList = [m.m_pList EXCEPT ![h] = joined],
                        !.m_iBucketNumber = m.m_iBucketNumber + Len(bucket)]
      /\ s2 = [s EXCEPT !.m_pList = [s.m_pList EXCEPT ![i] = << >>],
                        !.m_iBucketNumber = s.m_iBucketNumber - Len(bucket),
                        !.m_iReallocateCursor = IF last THEN i ELSE s.m_iReallocateCursor]
      BY DEF BucketReceived, BucketSent, bucket, h, joined
<1>7. /\ m2.m_pList = [m.m_pList EXCEPT ![h] = joined]
      /\ m2.m_iBucketNumber = m.m_iBucketNumber + Len(bucket)
      /\ m2.m_iReallocateCursor = m.m_iReallocateCursor
      /\ s2.m_pList = [s.m_pList EXCEPT ![i] = << >>]
      /\ s2.m_iBucketNumber = s.m_iBucketNumber - Len(bucket)
      /\ s2.m_iReallocateCursor = IF last THEN i ELSE s.m_iReallocateCursor
      /\ s2.m_iSize = S
      BY <1>6 DEF Buffers
<1>8. ASSUME NEW K
      PROVE  /\ Size(K, m2.m_pList) = Size(K, m.m_pList) + Cardinality(In(K, bucket))
             /\ Size(K, s2.m_pList) = Size(K, s.m_pList) - Cardinality(In(K, bucket))
             /\ Size(K, m.m_pList) \in Nat /\ Size(K, s.m_pList) \in Nat
             /\ Size(K, s2.m_pList) \in Nat /\ Cardinality(In(K, bucket)) \in Nat
             /\ Cardinality(In(Keys, bucket)) = Len(bucket)
  <2>1. Size(K, m2.m_pList) =
          Size(K, m.m_pList) - Cardinality(In(K, m.m_pList[h])) + Cardinality(In(K, joined))
    <3>1. PICK l : l = m.m_pList
          OBVIOUS
    <3>2. l \in Buckets(M)
          BY <1>1, <3>1
    <3>3. Size(K, [l EXCEPT ![h] = joined]) =
            Size(K, l) - Cardinality(In(K, l[h])) + Cardinality(In(K, joined))
          BY <1>4, <1>5, <3>2, ReplaceSize
    <3>. QED  BY <1>7, <3>1, <3>3
  <2>2. Cardinality(In(K, joined)) = Cardinality(In(K, m.m_pList[h])) + Cardinality(In(K, bucket))
        BY <1>2, <1>4, InConcat DEF joined
  <2>3. Size(K, s2.m_pList) =
          Size(K, s.m_pList) - Cardinality(In(K, bucket))
    <3>1. PICK l : l = s.m_pList
          OBVIOUS
    <3>2. l \in Buckets(S)
          BY <1>1, <3>1
    <3>3. Size(K, [l EXCEPT ![i] = << >>]) = Size(K, l) - Cardinality(In(K, l[i]))
          BY <3>1, <3>2, EmptyUsed
    <3>. QED  BY <1>7, <3>1, <3>3 DEF bucket
  <2>4. [s.m_pList EXCEPT ![i] = << >>] \in Buckets(S)
        BY <1>1, <1>2, <1>5, ReplaceFacts
  <2>5. /\ Size(K, m.m_pList) \in Nat /\ Size(K, s.m_pList) \in Nat
        /\ Size(K, s2.m_pList) \in Nat
    <3>1. Size(K, m.m_pList) \in Nat /\ Size(K, s.m_pList) \in Nat
          BY <1>1, StandFacts
    <3>2. Size(K, [s.m_pList EXCEPT ![i] = << >>]) \in Nat
          BY <1>1, <2>4, StandFacts
    <3>. QED  BY <1>7, <3>1, <3>2
  <2>6. /\ Cardinality(In(K, bucket)) \in Nat /\ Cardinality(In(K, m.m_pList[h])) \in Nat
        /\ Cardinality(In(Keys, bucket)) = Len(bucket)
        BY <1>2, <1>4, InFacts
  <2>. QED  BY <2>1, <2>2, <2>3, <2>5, <2>6
<1>9. s.m_iBucketNumber - Len(bucket) \in Nat /\ Counts(m2) /\ Counts(s2)
  <2> DEFINE a == Size(Keys, m.m_pList)
             c == Size(Keys, s.m_pList)
  <2>1. /\ a \in Nat /\ c \in Nat /\ c - Len(bucket) \in Nat
        /\ Size(Keys, m2.m_pList) = a + Len(bucket) /\ Size(Keys, s2.m_pList) = c - Len(bucket)
        BY <1>8
  <2>2. a <= m.m_iBucketNumber /\ c <= s.m_iBucketNumber
        BY DEF Counts
  <2> HIDE DEF a, c
  <2>3. /\ s.m_iBucketNumber - Len(bucket) \in Nat
        /\ a + Len(bucket) <= m.m_iBucketNumber + Len(bucket)
        /\ c - Len(bucket) <= s.m_iBucketNumber - Len(bucket)
        BY <1>1, <1>2, <2>1, <2>2
  <2>. QED  BY <1>7, <2>1, <2>3 DEF Counts
<1>10. m2 \in Buffers(M) /\ s2 \in Buffers(S)
  <2>1. m.m_iBucketNumber + Len(bucket) \in Nat
        BY <1>1, <1>2
  <2>2. [m.m_pList EXCEPT ![h] = joined] \in Buckets(M)
        BY <1>1, <1>4, <1>5, ReplaceFacts
  <2>3. [s.m_pList EXCEPT ![i] = << >>] \in Buckets(S)
        BY <1>1, <1>2, <1>5, ReplaceFacts
  <2>4. (IF last THEN i ELSE s.m_iReallocateCursor) \in 0 .. S
        BY <1>1, <1>2, BufferFacts, RowFacts
  <2>. QED  BY <1>6, <1>9, <2>1, <2>2, <2>3, <2>4 DEF Buffers
<1>11. AtHome(s) => AtHome(s2)
  <2>1. AtHome(s) => \A j \in Rows(S) : \A n \in 1 .. Len(s.m_pList[j]) :
                       Hash[s.m_pList[j][n]] % S = j
        BY AtHomeFacts
  <2>2. \A j \in Rows(S) : s2.m_pList[j] = s.m_pList[j] \/ s2.m_pList[j] = << >>
        BY <1>1, <1>2, <1>5, <1>7, ReplaceFacts
  <2>3. ASSUME AtHome(s), NEW j \in Rows(S), NEW n \in 1 .. Len(s2.m_pList[j])
        PROVE  Hash[s2.m_pList[j][n]] % S = j
        BY <2>1, <2>2, <2>3
  <2>4. AtHome(s) => \A j \in Rows(S) : \A n \in 1 .. Len(s2.m_pList[j]) :
                       Hash[s2.m_pList[j][n]] % S = j
        BY <2>3
  <2>. QED  BY <1>10, <2>4, AtHomeFacts
<1>12. m2.m_iBucketNumber + s2.m_iBucketNumber = m.m_iBucketNumber + s.m_iBucketNumber
       BY <1>1, <1>2, <1>7
<1>13. SamePairs(m2, s2, m, s)
       BY <1>8 DEF Pairs, SamePairs
<1>. QED  BY <1>7, <1>9, <1>10, <1>11, <1>12, <1>13

(* Moving one more bucket keeps what was said of those moved before.        *)
LEMMA MoveKeeps ==
  ASSUME NEW t0, t0.main.m_iSize \in Nat \ {0}, t0.sub.m_iSize \in Nat, NEW n \in Nat,
         NEW t, Moved(t, t0, n), Waiting(t.sub) # {}, NEW last \in BOOLEAN
  PROVE  Moved(MoveBucket(t, last), t0, n + 1)
<1>m. PICK m, s : m = t.main /\ s = t.sub
      OBVIOUS
<1>0. PICK M \in Nat \ {0}, S \in Nat : M = t0.main.m_iSize /\ S = t0.sub.m_iSize
      OBVIOUS
<1>1. m \in Buffers(M) /\ s \in Buffers(S) /\ Counts(m) /\ Counts(s)
      BY <1>m, <1>0 DEF Moved
<1>2. Used(s.m_pList) \subseteq s.m_iReallocateCursor .. s.m_iSize - 1 /\ s.m_iSize = S
      BY <1>m, <1>0, <1>1, BufferFacts DEF Moved
<1>3. Waiting(s) = Used(s.m_pList) /\ Waiting(s) # {}
      BY <1>m, <1>0, <1>1, <1>2, WaitingFacts
<1>4. PICK i \in Used(s.m_pList) : i = Min(Waiting(s)) /\ \A j \in Used(s.m_pList) : i <= j
      BY <1>1, <1>2, <1>3, WaitingFacts
<1>5. PICK m2, s2 : m2 = BucketReceived(m, s.m_pList[i]) /\ s2 = BucketSent(s, i, last)
      OBVIOUS
<1>6. MoveBucket(t, last).main = m2 /\ MoveBucket(t, last).sub = s2
      BY <1>m, <1>0, <1>4, <1>5 DEF MoveBucket
<1>7. /\ m2 \in Buffers(M) /\ m2.m_iReallocateCursor = m.m_iReallocateCursor
      /\ s2 \in Buffers(S)
      /\ s2.m_iReallocateCursor = IF last THEN i ELSE s.m_iReallocateCursor
      /\ m2.m_iBucketNumber + s2.m_iBucketNumber = m.m_iBucketNumber + s.m_iBucketNumber
      /\ Counts(m2) /\ Counts(s2)
      /\ s2.m_pList = [s.m_pList EXCEPT ![i] = << >>]
      /\ AtHome(s) => AtHome(s2)
      /\ SamePairs(m2, s2, m, s)
      BY <1>1, <1>5, MoveFacts
<1>8. /\ Used(s2.m_pList) = Used(s.m_pList) \ {i}
      /\ Cardinality(Used(s2.m_pList)) = Cardinality(Used(s.m_pList)) - 1
  <2>1. PICK l : l = s.m_pList
        OBVIOUS
  <2>2. l \in Buckets(S)
        BY <1>1, <2>1, BufferFacts
  <2>. QED  BY <1>7, <2>1, <2>2, EmptyUsed
<1>9. Used(s2.m_pList) \subseteq s2.m_iReallocateCursor .. s2.m_iSize - 1
  <2>1. s2.m_iSize = S
        BY <1>7, BufferFacts
  <2>2. \A j \in Used(s.m_pList) : j \in s.m_iReallocateCursor .. S - 1 /\ i <= j
        BY <1>2, <1>4
  <2>. QED  BY <1>2, <1>4, <1>7, <1>8, <2>1, <2>2
<1>10. /\ Cardinality(Used(s2.m_pList)) + (n + 1) <= Cardinality(Used(t0.sub.m_pList))
       /\ Used(t0.sub.m_pList) # {}
  <2>1. Cardinality(Used(s.m_pList)) + n <= Cardinality(Used(t0.sub.m_pList))
        BY <1>m, <1>0, <1>3 DEF Moved
  <2>2. Used(t0.sub.m_pList) # {}
        BY <1>m, <1>0, <1>3 DEF Moved
  <2>3. Cardinality(Used(s.m_pList)) \in Nat
        BY <1>1, BufferFacts, UsedFacts
  <2>4. Cardinality(Used(s2.m_pList)) + (n + 1) = Cardinality(Used(s.m_pList)) + n
        BY <1>8, <2>3
  <2>. QED  BY <2>1, <2>2, <2>4
<1>11. SamePairs(m2, s2, t0.main, t0.sub)
       BY <1>m, <1>0, <1>7 DEF Moved, SamePairs
<1>12. /\ m2.m_iReallocateCursor = 0
       /\ m2.m_iBucketNumber + s2.m_iBucketNumber =
            t0.main.m_iBucketNumber + t0.sub.m_iBucketNumber
       /\ AtHome(t0.sub) => AtHome(s2)
       BY <1>m, <1>0, <1>7 DEF Moved
<1>. QED  BY <1>m, <1>0, <1>6, <1>7, <1>9, <1>10, <1>11, <1>12 DEF Moved

(* What one round of HashTable_reallocate makes of the buffers.             *)
Stepped(t, n) == IF Waiting(t.sub) = {} THEN t ELSE MoveBucket(t, n = MOVECOUNT)

Steps(f, before, m) == f = [n \in 0 .. m |-> IF n = 0 THEN before ELSE Stepped(f[n - 1], n)]

(* There are rounds of any number.                                          *)
LEMMA StepsExist ==
  ASSUME NEW before, NEW m \in Nat
  PROVE  \E f : Steps(f, before, m)
<1> DEFINE Bad == {x \in Nat : ~ \E f : Steps(f, before, x)}
<1>1. SUFFICES ASSUME Bad # {} PROVE FALSE
      OBVIOUS
<1>2. PICK x \in Bad : \A y \in Bad : x <= y
      BY <1>1, LeastNumber
<1>3. x \in Nat /\ ~ \E f : Steps(f, before, x)
      OBVIOUS
<1>4. CASE x = 0
  <2>1. PICK f : f = [n \in 0 .. 0 |-> before]
        OBVIOUS
  <2>2. Steps(f, before, 0)
        BY <2>1 DEF Steps
  <2>. QED  BY <1>3, <1>4, <2>2
<1>5. CASE x # 0
  <2>1. x - 1 \in Nat /\ x - 1 \notin Bad
        BY <1>2, <1>3, <1>5
  <2>2. PICK g : Steps(g, before, x - 1)
        BY <2>1
  <2>3. PICK f : f = [n \in 0 .. x |-> IF n = x THEN Stepped(g[x - 1], x) ELSE g[n]]
        OBVIOUS
  <2>4. \A n \in 0 .. x - 1 : g[n] = IF n = 0 THEN before ELSE Stepped(g[n - 1], n)
        BY <2>1, <2>2 DEF Steps
  <2>5. ASSUME NEW n \in 0 .. x
        PROVE  f[n] = IF n = 0 THEN before ELSE Stepped(f[n - 1], n)
    <3>1. CASE n = 0
          BY <1>3, <1>5, <2>3, <2>4, <3>1
    <3>2. CASE n # 0
      <4>1. n - 1 \in 0 .. x /\ n - 1 # x
            BY <1>3, <3>2
      <4>2. f[n - 1] = g[n - 1]
            BY <2>3, <4>1
      <4>3. f[n] = Stepped(g[n - 1], n)
        <5>1. CASE n = x
              BY <2>3, <5>1
        <5>2. CASE n # x
          <6>1. n \in 0 .. x - 1
                BY <1>3, <5>2
          <6>. QED  BY <2>3, <2>4, <3>2, <5>2, <6>1
        <5>. QED  BY <5>1, <5>2
      <4>. QED  BY <3>2, <4>2, <4>3
    <3>. QED  BY <3>1, <3>2
  <2>6. Steps(f, before, x)
        BY <2>3, <2>5 DEF Steps
  <2>. QED  BY <1>3, <2>6
<1>. QED  BY <1>4, <1>5

(* HashTable_reallocate is MOVECOUNT of them.                               *)
LEMMA ReallocateSteps ==
  ASSUME NEW before
  PROVE  \E f : Steps(f, before, MOVECOUNT) /\ HashTable_reallocate(before) = f[MOVECOUNT]
<1>1. HashTable_reallocate(before) = (CHOOSE f : Steps(f, before, MOVECOUNT))[MOVECOUNT]
      BY DEF HashTable_reallocate, Steps, Stepped
<1>2. \E f : Steps(f, before, MOVECOUNT)
      BY StepsExist, HashTableAssumption
<1>. QED  BY <1>1, <1>2

(* What HashTable_reallocate makes of buffers that are in order.            *)
LEMMA ReallocateMoves ==
  ASSUME NEW t0, t0.main.m_iSize \in Nat \ {0}, t0.sub.m_iSize \in Nat, Moved(t0, t0, 0)
  PROVE  Moved(HashTable_reallocate(t0), t0, MOVECOUNT)
<1>1. PICK f : Steps(f, t0, MOVECOUNT) /\ HashTable_reallocate(t0) = f[MOVECOUNT]
      BY ReallocateSteps
<1>2. MOVECOUNT \in Nat
      BY HashTableAssumption
<1>3. \A n \in 0 .. MOVECOUNT : f[n] = IF n = 0 THEN t0 ELSE Stepped(f[n - 1], n)
      BY <1>1, <1>2 DEF Steps
<1> DEFINE Bad == {n \in 0 .. MOVECOUNT : ~Moved(f[n], t0, n)}
<1>4. SUFFICES Bad = {}
  <2>1. MOVECOUNT \in 0 .. MOVECOUNT
        BY <1>2
  <2>. QED  BY <1>1, <2>1
<1>5. SUFFICES ASSUME Bad # {} PROVE FALSE
      OBVIOUS
<1>6. PICK n \in Bad : \A y \in Bad : n <= y
  <2>1. Bad \in SUBSET Nat
        OBVIOUS
  <2>. QED  BY <1>5, <2>1, LeastNumber
<1>7. n \in 0 .. MOVECOUNT /\ ~Moved(f[n], t0, n)
      OBVIOUS
<1>8. n # 0
      BY <1>3, <1>7
<1>9. n - 1 \in 0 .. MOVECOUNT /\ n - 1 \in Nat /\ n - 1 \notin Bad
      BY <1>2, <1>6, <1>7, <1>8
<1>10. PICK t : t = f[n - 1]
       OBVIOUS
<1>11. Moved(t, t0, n - 1) /\ f[n] = Stepped(t, n)
       BY <1>3, <1>7, <1>8, <1>9, <1>10
<1>12. CASE Waiting(t.sub) # {}
  <2>1. PICK last \in BOOLEAN : last = (n = MOVECOUNT)
        OBVIOUS
  <2>2. Moved(MoveBucket(t, last), t0, n - 1 + 1)
        BY <1>9, <1>11, <1>12, <2>1, MoveKeeps
  <2>3. n - 1 + 1 = n /\ f[n] = MoveBucket(t, last)
        BY <1>7, <1>11, <1>12, <2>1 DEF Stepped
  <2>. QED  BY <1>7, <2>2, <2>3
<1>13. CASE Waiting(t.sub) = {}
  <2>1. f[n] = t
        BY <1>11, <1>13 DEF Stepped
  <2>2. PICK S \in Nat : S = t0.sub.m_iSize
        OBVIOUS
  <2>3. t.sub \in Buffers(S) /\ Used(t.sub.m_pList) \subseteq t.sub.m_iReallocateCursor .. t.sub.m_iSize - 1
        BY <1>11, <2>2 DEF Moved
  <2>4. Used(t.sub.m_pList) = {}
    <3>1. PICK s : s = t.sub
          OBVIOUS
    <3>. QED  BY <1>13, <2>3, <3>1, WaitingFacts
  <2>5. Moved(t, t0, n)
        BY <1>11, <2>4 DEF Moved
  <2>. QED  BY <1>7, <2>1, <2>5
<1>. QED  BY <1>12, <1>13

-----------------------------------------------------------------------------
(* New buffers, pushed and deleted keys                                     *)

(* In b the key k stands d times more often than in m, any other as often.  *)
Differs(b, m, k, d) ==
  \A j \in Keys : Size({j}, b.m_pList) = Size({j}, m.m_pList) + (IF j = k THEN d ELSE 0)

(* Buckets that are all empty hold no pairs.                                *)
LEMMA NothingUsed ==
  ASSUME NEW size \in Nat, NEW l \in Buckets(size), Used(l) = {}
  PROVE  \A K : Size(K, l) = 0
<1> TAKE K
<1>1. \A i \in Rows(size) : Len(l[i]) = 0
      BY RowFacts DEF Used
<1>2. \A i \in Rows(size) : \A n \in 1 .. Len(l[i]) : l[i][n] \notin K
      BY <1>1
<1>. QED  BY <1>2, StandFacts

(* A new buffer is empty.                                                   *)
LEMMA NewFacts ==
  ASSUME NEW size \in Nat, NEW b, b = BucketBuffer_new(size)
  PROVE  /\ b \in Buffers(size) /\ b.m_iSize = size
         /\ b.m_iBucketNumber = 0 /\ b.m_iReallocateCursor = 0
         /\ Used(b.m_pList) = {} /\ Counts(b) /\ AtHome(b)
         /\ \A K : Size(K, b.m_pList) = 0
<1>1. /\ b = [m_pList |-> [i \in Rows(size) |-> << >>], m_iSize |-> size,
              m_iBucketNumber |-> 0, m_iReallocateCursor |-> 0]
      BY DEF BucketBuffer_new, Rows
<1>2. [i \in Rows(size) |-> << >>] \in Buckets(size)
      BY DEF Buckets
<1>3. /\ b \in Buffers(size) /\ b.m_iSize = size
      /\ b.m_iBucketNumber = 0 /\ b.m_iReallocateCursor = 0
      BY <1>1, <1>2 DEF Buffers
<1>4. b.m_pList \in Buckets(size) /\ b.m_pList = [i \in Rows(size) |-> << >>]
      BY <1>1, <1>2
<1>5. Used(b.m_pList) = {}
      BY <1>4 DEF Used
<1>6. \A K : Size(K, b.m_pList) = 0
  <2>1. PICK l \in Buckets(size) : l = b.m_pList
        BY <1>4
  <2>. QED  BY <1>5, <2>1, NothingUsed
<1>7. Counts(b)
      BY <1>3, <1>6 DEF Counts
<1>8. AtHome(b)
  <2>1. \A i \in Rows(size) : Len(b.m_pList[i]) = 0
        BY <1>4
  <2>. QED  BY <1>3, <2>1, AtHomeFacts
<1>. QED  BY <1>3, <1>5, <1>6, <1>7, <1>8

(* A key is pushed on its bucket.                                           *)
LEMMA PushFacts ==
  ASSUME NEW M \in Nat \ {0}, NEW m \in Buffers(M), NEW k \in Keys, NEW b, b = Pushed(m, k)
  PROVE  /\ b \in Buffers(M) /\ b.m_iReallocateCursor = m.m_iReallocateCursor
         /\ b.m_iBucketNumber = m.m_iBucketNumber + 1
         /\ Counts(m) => Counts(b)
         /\ Differs(b, m, k, 1)
<1>1. /\ m.m_pList \in Buckets(M) /\ m.m_iSize = M
      /\ m.m_iBucketNumber \in Nat /\ m.m_iReallocateCursor \in 0 .. M
      BY BufferFacts
<1>2. PICK h, l : h = Home(k, m) /\ l = m.m_pList
      OBVIOUS
<1>3. h \in Rows(M) /\ l \in Buckets(M)
      BY <1>1, <1>2, HomeFacts
<1>4. PICK p : p = Bucket_push(l[h], k)
      OBVIOUS
<1>5. l[h] \in Seq(Keys) /\ p \in Seq(Keys)
      BY <1>3, <1>4, RowFacts, InPush
<1>6. b = [m EXCEPT !.m_pList = [l EXCEPT ![h] = p], !.m_iBucketNumber = m.m_iBucketNumber + 1]
      BY <1>2, <1>4 DEF Pushed
<1>7. [l EXCEPT ![h] = p] \in Buckets(M)
      BY <1>3, <1>5, ReplaceFacts
<1>8. /\ b \in Buffers(M) /\ b.m_iReallocateCursor = m.m_iReallocateCursor
      /\ b.m_iBucketNumber = m.m_iBucketNumber + 1 /\ b.m_pList = [l EXCEPT ![h] = p]
  <2>1. /\ b.m_iReallocateCursor = m.m_iReallocateCursor
        /\ b.m_iBucketNumber = m.m_iBucketNumber + 1 /\ b.m_pList = [l EXCEPT ![h] = p]
        BY <1>6 DEF Buffers
  <2>2. m.m_iBucketNumber + 1 \in Nat
        BY <1>1
  <2>3. b \in Buffers(M)
        BY <1>6, <1>7, <2>2 DEF Buffers
  <2>. QED  BY <2>1, <2>3
<1>9. \A K : Size(K, [l EXCEPT ![h] = p]) =
               Size(K, l) - Cardinality(In(K, l[h])) + Cardinality(In(K, p))
      BY <1>3, <1>5, ReplaceSize
<1>10. \A K : /\ Cardinality(In(K, p)) = Cardinality(In(K, l[h])) + (IF k \in K THEN 1 ELSE 0)
              /\ Cardinality(In(K, l[h])) \in Nat /\ Size(K, l) \in Nat
       BY <1>3, <1>4, <1>5, InPush, InFacts, StandFacts
<1>11. \A K : Size(K, b.m_pList) = Size(K, m.m_pList) + (IF k \in K THEN 1 ELSE 0)
       BY <1>2, <1>8, <1>9, <1>10
<1>12. Counts(m) => Counts(b)
  <2>1. Size(Keys, b.m_pList) = Size(Keys, m.m_pList) + 1 /\ Size(Keys, m.m_pList) \in Nat
        BY <1>2, <1>10, <1>11
  <2>. QED  BY <1>1, <1>8, <2>1 DEF Counts
<1>13. Differs(b, m, k, 1)
       BY <1>11 DEF Differs
<1>. QED  BY <1>8, <1>12, <1>13

(* The buffer b is m without a pair of the key k.                           *)
Without(b, m, k) ==
  /\ b.m_iReallocateCursor = m.m_iReallocateCursor /\ b.m_iBucketNumber = m.m_iBucketNumber
  /\ Counts(m) => Counts(b)
  /\ AtHome(m) => AtHome(b)
  /\ Used(b.m_pList) \subseteq Used(m.m_pList)
  /\ Size({k}, m.m_pList) # 0
  /\ Differs(b, m, k, -1)

(* A key is deleted from a buffer that has found it.                        *)
LEMMA DeleteFacts ==
  ASSUME NEW M \in Nat, NEW m \in Buffers(M), M = 0 => m = NoBuffer, NEW k \in Keys,
         BucketBuffer_find(m, k), NEW b, b = BucketBuffer_delete(m, k)
  PROVE  M # 0 /\ b \in Buffers(M) /\ Without(b, m, k)
<1>1. /\ m.m_pList \in Buckets(M) /\ m.m_iSize = M
      /\ m.m_iBucketNumber \in Nat /\ m.m_iReallocateCursor \in 0 .. M
      BY BufferFacts
<1>2. PICK h, l : h = Home(k, m) /\ l = m.m_pList
      OBVIOUS
<1>3. /\ M # 0 /\ h \in Rows(M) /\ l \in Buckets(M) /\ Size({k}, m.m_pList) # 0
      /\ \E n \in 1 .. Len(l[h]) : l[h][n] = k
  <2>1. /\ M # 0 /\ Home(k, m) \in Rows(M) /\ Size({k}, m.m_pList) # 0
        /\ \E n \in 1 .. Len(m.m_pList[Home(k, m)]) : m.m_pList[Home(k, m)][n] = k
        BY FindFacts
  <2>. QED  BY <1>1, <1>2, <2>1
<1>4. PICK row, p : row = l[h] /\ p = Bucket_delete(row, k)
      OBVIOUS
<1>r. row \in Seq(Keys) /\ \E n \in 1 .. Len(row) : row[n] = k
      BY <1>3, <1>4, RowFacts
<1>5. /\ l[h] \in Seq(Keys) /\ p \in Seq(Keys)
      /\ \A n \in 1 .. Len(p) : \E i \in 1 .. Len(l[h]) : l[h][i] = p[n]
  <2>1. /\ Bucket_delete(row, k) \in Seq(Keys)
        /\ \A n \in 1 .. Len(Bucket_delete(row, k)) :
             \E i \in 1 .. Len(row) : row[i] = Bucket_delete(row, k)[n]
        BY <1>r, InDelete
  <2>. QED  BY <1>4, <1>r, <2>1
<1>6. b = [m EXCEPT !.m_pList = [l EXCEPT ![h] = p]]
      BY <1>2, <1>4 DEF BucketBuffer_delete
<1>7. [l EXCEPT ![h] = p] \in Buckets(M)
      BY <1>3, <1>5, ReplaceFacts
<1>8. /\ b \in Buffers(M) /\ b.m_iReallocateCursor = m.m_iReallocateCursor
      /\ b.m_iBucketNumber = m.m_iBucketNumber /\ b.m_pList = [l EXCEPT ![h] = p]
      BY <1>1, <1>6, <1>7 DEF Buffers
<1>9. \A K : Size(K, [l EXCEPT ![h] = p]) =
               Size(K, l) - Cardinality(In(K, l[h])) + Cardinality(In(K, p))
      BY <1>3, <1>5, ReplaceSize
<1>10. ASSUME NEW K
       PROVE  /\ Cardinality(In(K, p)) = Cardinality(In(K, l[h])) - (IF k \in K THEN 1 ELSE 0)
              /\ Cardinality(In(K, l[h])) \in Nat /\ Size(K, l) \in Nat
  <2>1. Cardinality(In(K, Bucket_delete(row, k))) =
          Cardinality(In(K, row)) - (IF k \in K THEN 1 ELSE 0)
        BY <1>r, InDelete
  <2>2. Cardinality(In(K, l[h])) \in Nat
        BY <1>4, <1>r, InFacts
  <2>3. Size(K, l) \in Nat
        BY <1>3, StandFacts
  <2>. QED  BY <1>4, <2>1, <2>2, <2>3
<1>11. \A K : Size(K, b.m_pList) = Size(K, m.m_pList) - (IF k \in K THEN 1 ELSE 0)
       BY <1>2, <1>8, <1>9, <1>10
<1>12. Counts(m) => Counts(b)
  <2>1. Size(Keys, b.m_pList) = Size(Keys, m.m_pList) - 1 /\ Size(Keys, m.m_pList) \in Nat
        BY <1>2, <1>10, <1>11
  <2>. QED  BY <1>1, <1>8, <2>1 DEF Counts
<1>13. Differs(b, m, k, -1)
  <2>1. ASSUME NEW j \in Keys
        PROVE  Size({j}, b.m_pList) = Size({j}, m.m_pList) + (IF j = k THEN -1 ELSE 0)
        BY <1>2, <1>10, <1>11
  <2>. QED  BY <2>1 DEF Differs
<1>14. b.m_pList[h] = p /\ \A i \in Rows(M) \ {h} : b.m_pList[i] = l[i]
       BY <1>3, <1>5, <1>8, ReplaceFacts
<1>15. Used(b.m_pList) \subseteq Used(m.m_pList)
  <2>1. DOMAIN b.m_pList = Rows(M) /\ DOMAIN l = Rows(M)
        BY <1>3, <1>7, <1>8, RowFacts
  <2>2. l[h] # << >>
        BY <1>3
  <2>. QED  BY <1>2, <1>3, <1>14, <2>1, <2>2 DEF Used
<1>16. AtHome(m) => AtHome(b)
  <2>1. SUFFICES ASSUME AtHome(m), NEW i \in Rows(M), NEW n \in 1 .. Len(b.m_pList[i])
                 PROVE  Hash[b.m_pList[i][n]] % M = i
        BY <1>8, AtHomeFacts
  <2>2. \A x \in Rows(M) : \A y \in 1 .. Len(l[x]) : Hash[l[x][y]] % M = x
        BY <1>2, <2>1, AtHomeFacts
  <2>3. CASE i = h
    <3>1. PICK y \in 1 .. Len(l[h]) : l[h][y] = p[n]
          BY <1>5, <1>14, <2>1, <2>3
    <3>2. b.m_pList[i][n] = l[h][y]
          BY <1>14, <2>3, <3>1
    <3>. QED  BY <1>3, <2>2, <2>3, <3>2
  <2>4. CASE i # h
    <3>1. b.m_pList[i] = l[i]
          BY <1>14, <2>1, <2>4
    <3>. QED  BY <2>1, <2>2, <3>1
  <2>. QED  BY <2>3, <2>4
<1>. QED  BY <1>3, <1>8, <1>12, <1>13, <1>15, <1>16 DEF Without

-----------------------------------------------------------------------------
(* Insertion and deletion                                                   *)

(* Why no pair waits in the old buffer when the main one is overloaded, and *)
(* why the one that replaces it has time: c and d pairs are counted in a    *)
(* main buffer of size M and a sub buffer of size S, r buckets of which are *)
(* used; after an insertion, c2 and d2 pairs, and r2 buckets.               *)
LEMMA Loads ==
  ASSUME NEW M \in Nat, NEW S \in Nat, NEW c \in Nat, NEW d \in Nat, NEW r \in Nat,
         NEW c2 \in Nat, NEW d2 \in Nat, NEW r2 \in Nat,
         M >= 2, 2 * c < M, c2 + d2 = c + 1 + d,
         r > 0 => S >= 2 /\ M >= 2 * S /\ 4 * (c + d) + 2 * r <= 3 * (S + 1),
         r2 > 0 => r2 + 2 <= r, r = 0 => c2 = c + 1
  PROVE  /\ M <= 2 * c2 => r2 = 0 /\ 2 * c2 <= M + 1
         /\ r2 > 0 => S >= 2 /\ M >= 2 * S /\ 4 * (c2 + d2) + 2 * r2 <= 3 * (S + 1)
<1>1. c2 <= c + d + 1
      OBVIOUS
<1>2. ASSUME M <= 2 * c2 PROVE r2 = 0 /\ 2 * c2 <= M + 1
  <2>1. CASE r = 0
        BY <1>2, <2>1
  <2>2. CASE r > 0
    <3>1. 4 * c2 <= 4 * (c + d) + 4
          BY <1>1
    <3>2. S >= 2 /\ M >= 2 * S /\ 4 * (c + d) + 2 * r <= 3 * (S + 1)
          BY <2>2
    <3>3. 4 * c2 + 2 * r <= 3 * S + 7
          BY <3>1, <3>2
    <3>4. 4 * S <= 4 * c2
          BY <1>2, <3>2
    <3>5. r2 = 0
          BY <3>2, <3>3, <3>4
    <3>6. 2 * c2 <= M + 1
          BY <2>2, <3>2, <3>3
    <3>. QED  BY <3>5, <3>6
  <2>. QED  BY <2>1, <2>2
<1>3. ASSUME r2 > 0
      PROVE  S >= 2 /\ M >= 2 * S /\ 4 * (c2 + d2) + 2 * r2 <= 3 * (S + 1)
  <2>1. r > 0 /\ r2 + 2 <= r
        BY <1>3
  <2>2. 4 * (c2 + d2) = 4 * (c + d) + 4
        OBVIOUS
  <2>3. 2 * r2 + 4 <= 2 * r
        BY <2>1
  <2>. QED  BY <2>1, <2>2, <2>3
<1>. QED  BY <1>2, <1>3

(* Deletion keeps the table in order, whichever buffer the key stands in.   *)
LEMMA DeleteKeeps ==
  ASSUME NEW m, NEW s, NEW o, NEW x, InOrder(m, s, o, x), NEW k \in Keys, o[k] > 0
  PROVE  /\ BucketBuffer_find(m, k) =>
              InOrder(BucketBuffer_delete(m, k), s, [o EXCEPT ![k] = @ - 1], x)
         /\ BucketBuffer_find(s, k) =>
              InOrder(m, BucketBuffer_delete(s, k), [o EXCEPT ![k] = @ - 1], x)
<1>1. PICK M \in Nat, S \in Nat : M = m.m_iSize /\ S = s.m_iSize
      BY DEF InOrder
<1>2. /\ m \in Buffers(M) /\ M >= 2 /\ s \in Buffers(S) /\ (S = 0 => s = NoBuffer)
      /\ m.m_iReallocateCursor = 0 /\ 2 * m.m_iBucketNumber < M
      /\ Counts(m) /\ Counts(s) /\ Ahead(m, s)
      /\ o \in [Keys -> Nat] /\ x \in BOOLEAN
      /\ ~x => AtHome(m) /\ AtHome(s) /\ \A j \in Keys : o[j] <= 1
      BY <1>1 DEF InOrder
<1>3. \A j \in Keys : o[j] = Pairs(j, m, s)
      BY DEF InOrder
<1>4. PICK o2 : o2 = [o EXCEPT ![k] = @ - 1]
      OBVIOUS
<1>5. /\ o2 \in [Keys -> Nat] /\ \A j \in Keys : o2[j] = o[j] - (IF j = k THEN 1 ELSE 0)
      BY <1>2, <1>4
<1>6. \A j \in Keys : Size({j}, m.m_pList) \in Nat /\ Size({j}, s.m_pList) \in Nat
  <2>1. PICK l \in Buckets(M), l2 \in Buckets(S) : l = m.m_pList /\ l2 = s.m_pList
        BY <1>2, BufferFacts
  <2>. QED  BY <2>1, StandFacts
<1>7. ~x => \A j \in Keys : o2[j] <= 1
      BY <1>2, <1>5
<1>8. ASSUME BucketBuffer_find(m, k) PROVE InOrder(BucketBuffer_delete(m, k), s, o2, x)
  <2>1. PICK b : b = BucketBuffer_delete(m, k)
        OBVIOUS
  <2>2. /\ b \in Buffers(M) /\ b.m_iReallocateCursor = m.m_iReallocateCursor
        /\ b.m_iBucketNumber = m.m_iBucketNumber
        /\ Counts(m) => Counts(b)
        /\ AtHome(m) => AtHome(b)
        /\ Differs(b, m, k, -1)
    <3>1. M \in Nat /\ m \in Buffers(M) /\ (M = 0 => m = NoBuffer)
          BY <1>2
    <3>2. M # 0 /\ b \in Buffers(M) /\ Without(b, m, k)
          BY <1>8, <2>1, <3>1, DeleteFacts
    <3>. QED  BY <3>2 DEF Without
  <2>3. b.m_iSize = M
        BY <2>2, BufferFacts
  <2>4. Ahead(b, s)
        BY <1>1, <1>2, <2>2, <2>3 DEF Ahead
  <2>5. ASSUME NEW j \in Keys PROVE o2[j] = Pairs(j, b, s)
    <3>1. Size({j}, b.m_pList) = Size({j}, m.m_pList) + (IF j = k THEN -1 ELSE 0)
          BY <2>2 DEF Differs
    <3>2. o[j] = Size({j}, m.m_pList) + Size({j}, s.m_pList)
          BY <1>3 DEF Pairs
    <3>. QED  BY <1>5, <1>6, <3>1, <3>2 DEF Pairs
  <2>. QED  BY <1>1, <1>2, <1>5, <1>7, <2>1, <2>2, <2>3, <2>4, <2>5 DEF InOrder
<1>9. ASSUME BucketBuffer_find(s, k) PROVE InOrder(m, BucketBuffer_delete(s, k), o2, x)
  <2>1. PICK b : b = BucketBuffer_delete(s, k)
        OBVIOUS
  <2>2. /\ S # 0 /\ b \in Buffers(S) /\ b.m_iReallocateCursor = s.m_iReallocateCursor
        /\ b.m_iBucketNumber = s.m_iBucketNumber
        /\ Counts(s) => Counts(b)
        /\ AtHome(s) => AtHome(b)
        /\ Used(b.m_pList) \subseteq Used(s.m_pList)
        /\ Differs(b, s, k, -1)
    <3>1. S \in Nat /\ s \in Buffers(S) /\ (S = 0 => s = NoBuffer)
          BY <1>2
    <3>2. S # 0 /\ b \in Buffers(S) /\ Without(b, s, k)
          BY <1>9, <2>1, <3>1, DeleteFacts
    <3>. QED  BY <3>2 DEF Without
  <2>3. b.m_iSize = S
        BY <2>2, BufferFacts
  <2>4. Ahead(m, b)
    <3>1. /\ IsFiniteSet(Used(s.m_pList)) /\ Cardinality(Used(s.m_pList)) \in Nat
          /\ Cardinality(Used(b.m_pList)) \in Nat
          BY <1>2, <2>2, BufferFacts, UsedFacts
    <3>2. Cardinality(Used(b.m_pList)) <= Cardinality(Used(s.m_pList))
          BY <2>2, <3>1, FS_Subset
    <3>3. m.m_iBucketNumber \in Nat /\ s.m_iBucketNumber \in Nat
          BY <1>2, BufferFacts
    <3>4. Used(b.m_pList) \subseteq b.m_iReallocateCursor .. b.m_iSize - 1
          BY <1>1, <1>2, <2>2, <2>3 DEF Ahead
    <3>5. ASSUME Used(b.m_pList) # {}
          PROVE  /\ S >= 2 /\ M >= 2 * S
                 /\ 4 * (m.m_iBucketNumber + b.m_iBucketNumber)
                      + 2 * Cardinality(Used(b.m_pList)) <= 3 * (S + 1)
      <4>1. Used(s.m_pList) # {}
            BY <2>2, <3>5
      <4>2. /\ S >= 2 /\ M >= 2 * S
            /\ 4 * (m.m_iBucketNumber + s.m_iBucketNumber)
                 + 2 * Cardinality(Used(s.m_pList)) <= 3 * (S + 1)
            BY <1>1, <1>2, <4>1 DEF Ahead
      <4>. QED  BY <2>2, <3>1, <3>2, <3>3, <4>2
    <3>. QED  BY <1>1, <2>3, <3>4, <3>5 DEF Ahead
  <2>5. ASSUME NEW j \in Keys PROVE o2[j] = Pairs(j, m, b)
    <3>1. Size({j}, b.m_pList) = Size({j}, s.m_pList) + (IF j = k THEN -1 ELSE 0)
          BY <2>2 DEF Differs
    <3>2. o[j] = Size({j}, m.m_pList) + Size({j}, s.m_pList)
          BY <1>3 DEF Pairs
    <3>. QED  BY <1>5, <1>6, <3>1, <3>2 DEF Pairs
  <2>. QED  BY <1>1, <1>2, <1>5, <1>7, <2>1, <2>2, <2>3, <2>4, <2>5 DEF InOrder
<1>. QED  BY <1>4, <1>8, <1>9

(* What insertion makes of buffers that are in order, before the table may  *)
(* grow: the buffers t, in which every pair stands, and the key k once more.*)
LEMMA InsertMoves ==
  ASSUME NEW m, NEW s, NEW o, NEW x, InOrder(m, s, o, x), NEW k \in Keys,
         NEW t0, t0 = [main |-> Pushed(m, k), sub |-> s],
         NEW t, t = HashTable_reallocate(t0)
  PROVE  /\ Moved(t, t0, MOVECOUNT) /\ t.main.m_iSize = m.m_iSize /\ t.sub.m_iSize = s.m_iSize
         /\ t0.main \in Buffers(m.m_iSize) /\ t0.main.m_iSize = m.m_iSize
         /\ t0.main.m_iBucketNumber = m.m_iBucketNumber + 1
         /\ \A j \in Keys : Pairs(j, t.main, t.sub) = o[j] + (IF j = k THEN 1 ELSE 0)
<1>1. PICK M \in Nat \ {0}, S \in Nat : M = m.m_iSize /\ S = s.m_iSize
      BY DEF InOrder
<1>2. /\ m \in Buffers(M) /\ s \in Buffers(S) /\ m.m_iReallocateCursor = 0
      /\ Counts(m) /\ Counts(s) /\ Ahead(m, s)
      BY <1>1 DEF InOrder
<1>3. PICK b : b = Pushed(m, k)
      OBVIOUS
<1>4. /\ b \in Buffers(M) /\ b.m_iReallocateCursor = 0
      /\ b.m_iBucketNumber = m.m_iBucketNumber + 1
      /\ Counts(b) /\ Differs(b, m, k, 1)
  <2>1. /\ b \in Buffers(M) /\ b.m_iReallocateCursor = m.m_iReallocateCursor
        /\ b.m_iBucketNumber = m.m_iBucketNumber + 1
        /\ Counts(m) => Counts(b)
        /\ Differs(b, m, k, 1)
        BY <1>2, <1>3, PushFacts
  <2>. QED  BY <1>2, <2>1
<1>5. t0.main = b /\ t0.sub = s /\ b.m_iSize = M
      BY <1>3, <1>4, BufferFacts
<1>6. Moved(t0, t0, 0)
  <2>1. /\ Cardinality(Used(s.m_pList)) + 0 <= Cardinality(Used(s.m_pList))
        BY <1>2, BufferFacts, UsedFacts
  <2>2. Used(s.m_pList) \subseteq s.m_iReallocateCursor .. s.m_iSize - 1
        BY <1>2 DEF Ahead
  <2>. QED  BY <1>1, <1>2, <1>4, <1>5, <2>1, <2>2 DEF Moved, SamePairs
<1>7. Moved(t, t0, MOVECOUNT)
      BY <1>1, <1>5, <1>6, ReallocateMoves
<1>8. t.main \in Buffers(M) /\ t.sub \in Buffers(S)
      BY <1>1, <1>5, <1>7 DEF Moved
<1>9. t.main.m_iSize = M /\ t.sub.m_iSize = S
      BY <1>8 DEF Buffers
<1>10. ASSUME NEW j \in Keys
       PROVE  Pairs(j, t.main, t.sub) = o[j] + (IF j = k THEN 1 ELSE 0)
  <2>1. Pairs(j, t.main, t.sub) = Pairs(j, b, s)
        BY <1>5, <1>7 DEF Moved, SamePairs
  <2>2. Size({j}, b.m_pList) = Size({j}, m.m_pList) + (IF j = k THEN 1 ELSE 0)
        BY <1>4 DEF Differs
  <2>3. o[j] = Size({j}, m.m_pList) + Size({j}, s.m_pList)
        BY DEF InOrder, Pairs
  <2>4. Size({j}, m.m_pList) \in Nat /\ Size({j}, s.m_pList) \in Nat
    <3>1. PICK l \in Buckets(M), l2 \in Buckets(S) : l = m.m_pList /\ l2 = s.m_pList
          BY <1>2, BufferFacts
    <3>. QED  BY <3>1, StandFacts
  <2>. QED  BY <2>1, <2>2, <2>3, <2>4 DEF Pairs
<1>. QED  BY <1>1, <1>4, <1>5, <1>7, <1>9, <1>10

(* Insertion keeps the table in order, whether it grows or not, and when it *)
(* grows the buffer that it frees holds nothing.                            *)
LEMMA InsertKeeps ==
  ASSUME NEW m, NEW s, NEW o, NEW x, InOrder(m, s, o, x), NEW k \in Keys,
         ~BucketBuffer_find(m, k), ~BucketBuffer_find(s, k),
         NEW t, t = HashTable_reallocate([main |-> Pushed(m, k), sub |-> s]),
         NEW x2, x2 = (x \/ ~AtHome(t.main))
  PROVE  /\ Overloaded(t.main) =>
              InOrder(BucketBuffer_new(SCALEFACTOR * m.m_iSize), t.main,
                      [o EXCEPT ![k] = @ + 1], x2)
         /\ ~Overloaded(t.main) => InOrder(t.main, t.sub, [o EXCEPT ![k] = @ + 1], x2)
<1>1. PICK M \in Nat \ {0}, S \in Nat : M = m.m_iSize /\ S = s.m_iSize
      BY DEF InOrder
<1>2. /\ m \in Buffers(M) /\ M >= 2 /\ s \in Buffers(S) /\ (S = 0 => s = NoBuffer)
      /\ 2 * m.m_iBucketNumber < M
      /\ Ahead(m, s) /\ o \in [Keys -> Nat] /\ x \in BOOLEAN
      /\ ~x => AtHome(m) /\ AtHome(s) /\ \A j \in Keys : o[j] <= 1
      BY <1>1 DEF InOrder
<1>3. PICK t0 : t0 = [main |-> Pushed(m, k), sub |-> s]
      OBVIOUS
<1>4. /\ Moved(t, t0, MOVECOUNT) /\ t.main.m_iSize = M /\ t.sub.m_iSize = S
      /\ t0.main.m_iSize = M /\ t0.sub = s
      /\ t0.main.m_iBucketNumber = m.m_iBucketNumber + 1
  <2>1. /\ Moved(t, t0, MOVECOUNT) /\ t.main.m_iSize = m.m_iSize /\ t.sub.m_iSize = s.m_iSize
        /\ t0.main.m_iSize = m.m_iSize
        /\ t0.main.m_iBucketNumber = m.m_iBucketNumber + 1
        BY <1>3, InsertMoves
  <2>. QED  BY <1>1, <1>3, <2>1
<1>5. PICK o2 : o2 = [o EXCEPT ![k] = @ + 1]
      OBVIOUS
<1>6. o2 \in [Keys -> Nat] /\ \A j \in Keys : o2[j] = o[j] + (IF j = k THEN 1 ELSE 0)
      BY <1>2, <1>5
<1>7. \A j \in Keys : o2[j] = Pairs(j, t.main, t.sub)
  <2>1. \A j \in Keys : Pairs(j, t.main, t.sub) = o[j] + (IF j = k THEN 1 ELSE 0)
        BY <1>3, InsertMoves
  <2>. QED  BY <1>6, <2>1
<1>8. PICK a, b : a = t.main /\ b = t.sub
      OBVIOUS
<1>9. /\ a \in Buffers(M) /\ b \in Buffers(S) /\ a.m_iSize = M /\ b.m_iSize = S
      /\ a.m_iReallocateCursor = 0
      /\ a.m_iBucketNumber + b.m_iBucketNumber = m.m_iBucketNumber + 1 + s.m_iBucketNumber
      /\ Counts(a) /\ Counts(b)
      /\ Used(b.m_pList) \subseteq b.m_iReallocateCursor .. b.m_iSize - 1
      /\ Used(b.m_pList) # {} =>
           Cardinality(Used(b.m_pList)) + MOVECOUNT <= Cardinality(Used(s.m_pList))
      /\ AtHome(s) => AtHome(b)
      /\ Used(s.m_pList) = {} => a = t0.main /\ b = s
      BY <1>1, <1>4, <1>8 DEF Moved
<1>10. /\ m.m_iBucketNumber \in Nat /\ s.m_iBucketNumber \in Nat
       /\ a.m_iBucketNumber \in Nat /\ b.m_iBucketNumber \in Nat
       /\ a.m_pList \in Buckets(M) /\ b.m_pList \in Buckets(S) /\ s.m_pList \in Buckets(S)
       BY <1>2, <1>9, BufferFacts
<1> DEFINE r == Cardinality(Used(s.m_pList))
           r2 == Cardinality(Used(b.m_pList))
<1>11. /\ r \in Nat /\ (r = 0 <=> Used(s.m_pList) = {})
       /\ r2 \in Nat /\ (r2 = 0 <=> Used(b.m_pList) = {})
  <2>1. PICK l \in Buckets(S), l2 \in Buckets(S) : l = s.m_pList /\ l2 = b.m_pList
        BY <1>10
  <2>. QED  BY <2>1, UsedFacts
<1>12. /\ M <= 2 * a.m_iBucketNumber => r2 = 0 /\ 2 * a.m_iBucketNumber <= M + 1
       /\ r2 > 0 => /\ S >= 2 /\ M >= 2 * S
                    /\ 4 * (a.m_iBucketNumber + b.m_iBucketNumber) + 2 * r2 <= 3 * (S + 1)
  <2>1. r > 0 => /\ S >= 2 /\ M >= 2 * S
                 /\ 4 * (m.m_iBucketNumber + s.m_iBucketNumber) + 2 * r <= 3 * (S + 1)
        BY <1>1, <1>2, <1>11 DEF Ahead
  <2>2. r2 > 0 => r2 + 2 <= r
        BY <1>9, <1>11, HashTableAssumption
  <2>3. r = 0 => a.m_iBucketNumber = m.m_iBucketNumber + 1
        BY <1>4, <1>9, <1>11
  <2> HIDE DEF r, r2
  <2>4. M \in Nat
        OBVIOUS
  <2>. QED  BY <1>2, <1>9, <1>10, <1>11, <2>1, <2>2, <2>3, <2>4, Loads
<1> HIDE DEF r, r2
<1>13. ASSUME ~x PROVE \A j \in Keys : o2[j] <= 1
  <2>1. o[k] = 0
    <3>1. PICK l \in Buckets(M) : l = m.m_pList
          BY <1>2, BufferFacts
    <3>2. Size({k}, m.m_pList) = 0
      <4>1. M = 0 => m = NoBuffer
            OBVIOUS
      <4>2. AtHome(m)
            BY <1>2, <1>13
      <4>. QED  BY <1>2, <4>1, <4>2, FindFacts
    <3>3. Size({k}, s.m_pList) = 0
      <4>1. S = 0 => s = NoBuffer
            BY <1>2
      <4>2. AtHome(s)
            BY <1>2, <1>13
      <4>. QED  BY <1>2, <4>1, <4>2, FindFacts
    <3>. QED  BY <3>2, <3>3 DEF InOrder, Pairs
  <2>. QED  BY <1>2, <1>6, <1>13, <2>1
<1>14. x2 \in BOOLEAN /\ (~x2 => ~x /\ AtHome(a))
       BY <1>2, <1>8
<1>15. ASSUME ~Overloaded(t.main) PROVE InOrder(a, b, o2, x2)
  <2>1. 2 * a.m_iBucketNumber < M
        BY <1>8, <1>9, <1>10, <1>15 DEF Overloaded
  <2>2. Ahead(a, b)
        BY <1>9, <1>11, <1>12 DEF Ahead, r2
  <2>3. S = 0 => b = NoBuffer
    <3>1. ASSUME S = 0 PROVE Used(s.m_pList) = {}
      <4>1. PICK l \in Buckets(S) : l = s.m_pList
            BY <1>10
      <4>2. Rows(S) = {}
            BY <3>1 DEF Rows
      <4>. QED  BY <4>1, <4>2, UsedFacts
    <3>. QED  BY <1>2, <1>9, <3>1
  <2>4. ~x2 => AtHome(a) /\ AtHome(b) /\ \A j \in Keys : o2[j] <= 1
        BY <1>2, <1>9, <1>13, <1>14
  <2>. QED  BY <1>2, <1>6, <1>7, <1>8, <1>9, <1>14, <2>1, <2>2, <2>3, <2>4 DEF InOrder
<1>16. ASSUME Overloaded(t.main)
       PROVE  InOrder(BucketBuffer_new(SCALEFACTOR * m.m_iSize), a, o2, x2)
  <2>1. r2 = 0 /\ 2 * a.m_iBucketNumber <= M + 1
        BY <1>8, <1>9, <1>12, <1>16 DEF Overloaded
  <2>2. PICK N \in Nat : N = SCALEFACTOR * M /\ N >= 2 * M
    <3>1. SCALEFACTOR * M \in Nat /\ SCALEFACTOR * M >= 2 * M
          BY HashTableAssumption
    <3>. QED  BY <3>1
  <2>3. PICK n : n = BucketBuffer_new(N)
        OBVIOUS
  <2>4. /\ n \in Buffers(N) /\ n.m_iSize = N
        /\ n.m_iBucketNumber = 0 /\ n.m_iReallocateCursor = 0
        /\ Used(n.m_pList) = {} /\ Counts(n) /\ AtHome(n)
        /\ \A K : Size(K, n.m_pList) = 0
        BY <2>3, NewFacts
  <2>5. Ahead(n, a)
    <3>1. PICK l \in Buckets(M) : l = a.m_pList
          BY <1>10
    <3>2. /\ Used(l) \subseteq Rows(M) /\ Cardinality(Used(l)) \in Nat
          /\ Cardinality(Used(l)) <= Size(Keys, l) /\ Size(Keys, l) \in Nat
          BY UsedFacts, StandFacts
    <3>3. Size(Keys, l) <= a.m_iBucketNumber
          BY <1>9, <3>1 DEF Counts
    <3>4. 4 * (0 + a.m_iBucketNumber) + 2 * Cardinality(Used(l)) <= 3 * (M + 1)
          BY <1>10, <2>1, <3>2, <3>3
    <3>5. Used(l) \subseteq 0 .. M - 1
          BY <3>2 DEF Rows
    <3>. QED  BY <1>2, <1>9, <2>2, <2>4, <3>1, <3>4, <3>5 DEF Ahead
  <2>6. ASSUME NEW j \in Keys PROVE o2[j] = Pairs(j, n, a)
    <3>1. PICK l \in Buckets(S), l2 \in Buckets(M) : l = b.m_pList /\ l2 = a.m_pList
          BY <1>10
    <3>2. Size({j}, l) = 0
          BY <1>11, <2>1, <3>1, NothingUsed
    <3>3. Size({j}, l2) \in Nat
          BY StandFacts
    <3>. QED  BY <1>7, <1>8, <2>4, <3>1, <3>2, <3>3 DEF Pairs
  <2>7. 2 * n.m_iBucketNumber < n.m_iSize /\ n.m_iSize >= 2
        BY <1>2, <2>2, <2>4
  <2>8. ~x2 => AtHome(n) /\ AtHome(a) /\ \A j \in Keys : o2[j] <= 1
        BY <1>13, <1>14, <2>4
  <2>9. a.m_iSize \in Nat /\ a.m_iSize # 0
        BY <1>9
  <2>10. InOrder(n, a, o2, x2)
         BY <1>6, <1>9, <1>14, <2>4, <2>5, <2>6, <2>7, <2>8, <2>9 DEF InOrder
  <2>. QED  BY <1>1, <2>2, <2>3, <2>10
<1>. QED  BY <1>5, <1>8, <1>15, <1>16

-----------------------------------------------------------------------------
(* The theorems                                                             *)

(* HashTable_new makes a table in order.                                    *)
LEMMA InitInOrder == TableInit => TableInv
<1> SUFFICES ASSUME TableInit PROVE TableInv
    OBVIOUS
<1>1. INCREMENTSIZE \in Nat /\ INCREMENTSIZE >= 2 /\ 0 \in Nat
      BY HashTableAssumption
<1>2. PICK m, s, o : m = main /\ s = sub /\ o = owed
      OBVIOUS
<1>3. /\ m = BucketBuffer_new(INCREMENTSIZE) /\ s = BucketBuffer_new(0)
      /\ o = [k \in Keys |-> 0] /\ strayed = FALSE
      BY <1>2 DEF TableInit, NoBuffer
<1>4. /\ m \in Buffers(INCREMENTSIZE) /\ m.m_iSize = INCREMENTSIZE
      /\ m.m_iBucketNumber = 0 /\ m.m_iReallocateCursor = 0
      /\ Used(m.m_pList) = {} /\ Counts(m) /\ AtHome(m)
      /\ \A K : Size(K, m.m_pList) = 0
      BY <1>1, <1>3, NewFacts
<1>5. /\ s \in Buffers(0) /\ s.m_iSize = 0
      /\ s.m_iBucketNumber = 0 /\ s.m_iReallocateCursor = 0
      /\ Used(s.m_pList) = {} /\ Counts(s) /\ AtHome(s)
      /\ \A K : Size(K, s.m_pList) = 0
      BY <1>1, <1>3, NewFacts
<1>6. Ahead(m, s)
      BY <1>5 DEF Ahead
<1>7. o \in [Keys -> Nat] /\ \A k \in Keys : o[k] = 0 /\ o[k] <= 1
      BY <1>3
<1>8. \A k \in Keys : o[k] = Pairs(k, m, s)
      BY <1>4, <1>5, <1>7 DEF Pairs
<1>9. s = NoBuffer /\ strayed \in BOOLEAN
      BY <1>3 DEF NoBuffer
<1>10. InOrder(m, s, o, strayed)
       BY <1>1, <1>4, <1>5, <1>6, <1>7, <1>8, <1>9 DEF InOrder
<1>. QED  BY <1>2, <1>10 DEF TableInv

(* Each step of the table is one of those above.                            *)
LEMMA InsertInOrder ==
  ASSUME TableInv, NEW k \in Keys, HashTable_insert(k)
  PROVE  TableInv'
<1>1. PICK t : t = HashTable_reallocate([main |-> Pushed(main, k), sub |-> sub])
      OBVIOUS
<1>2. /\ ~BucketBuffer_find(main, k) /\ ~BucketBuffer_find(sub, k)
      /\ owed' = [owed EXCEPT ![k] = @ + 1]
      /\ strayed' = (strayed \/ ~AtHome(t.main))
      /\ Overloaded(t.main) => sub' = t.main /\ main' = BucketBuffer_new(SCALEFACTOR * main.m_iSize)
      /\ ~Overloaded(t.main) => main' = t.main /\ sub' = t.sub
      BY <1>1 DEF HashTable_insert, HashTable_find
<1>3. InOrder(main, sub, owed, strayed)
      BY DEF TableInv
<1>4. /\ Overloaded(t.main) =>
           InOrder(BucketBuffer_new(SCALEFACTOR * main.m_iSize), t.main,
                   [owed EXCEPT ![k] = @ + 1], strayed')
      /\ ~Overloaded(t.main) => InOrder(t.main, t.sub, [owed EXCEPT ![k] = @ + 1], strayed')
  <2>1. PICK m, s, o, x, x2 :
          m = main /\ s = sub /\ o = owed /\ x = strayed /\ x2 = strayed'
        OBVIOUS
  <2>2. /\ InOrder(m, s, o, x) /\ ~BucketBuffer_find(m, k) /\ ~BucketBuffer_find(s, k)
        /\ t = HashTable_reallocate([main |-> Pushed(m, k), sub |-> s])
        /\ x2 = (x \/ ~AtHome(t.main))
        BY <1>1, <1>2, <1>3, <2>1
  <2>3. /\ Overloaded(t.main) =>
             InOrder(BucketBuffer_new(SCALEFACTOR * m.m_iSize), t.main, [o EXCEPT ![k] = @ + 1], x2)
        /\ ~Overloaded(t.main) => InOrder(t.main, t.sub, [o EXCEPT ![k] = @ + 1], x2)
        BY <2>2, InsertKeeps
  <2>. QED  BY <2>1, <2>3
<1>5. InOrder(main', sub', owed', strayed')
      BY <1>2, <1>4
<1>. QED  BY <1>5 DEF TableInv

LEMMA DeleteInOrder ==
  ASSUME TableInv, NEW k \in Keys, HashTable_delete(k)
  PROVE  TableInv'
<1>1. InOrder(main, sub, owed, strayed) /\ owed[k] > 0 /\ strayed' = strayed
      BY DEF TableInv, HashTable_delete
<1>2. /\ BucketBuffer_find(main, k) =>
           InOrder(BucketBuffer_delete(main, k), sub, [owed EXCEPT ![k] = @ - 1], strayed)
      /\ BucketBuffer_find(sub, k) =>
           InOrder(main, BucketBuffer_delete(sub, k), [owed EXCEPT ![k] = @ - 1], strayed)
      BY <1>1, DeleteKeeps
<1>3. InOrder(main', sub', owed', strayed')
  <2>1. CASE BucketBuffer_find(main, k)
        BY <1>1, <1>2, <2>1 DEF HashTable_delete, HashTable_find
  <2>2. CASE ~BucketBuffer_find(main, k) /\ BucketBuffer_find(sub, k)
        BY <1>1, <1>2, <2>2 DEF HashTable_delete, HashTable_find
  <2>3. CASE ~BucketBuffer_find(main, k) /\ ~BucketBuffer_find(sub, k)
        BY <1>1, <2>3 DEF HashTable_delete, HashTable_find
  <2>. QED  BY <2>1, <2>2, <2>3
<1>. QED  BY <1>3 DEF TableInv

(* The two buffers are in order: the main one is less than half full, each  *)
(* count is not below the pairs it stands for, the pairs owed are those in  *)
(* the buckets, and while the sub buffer holds any, two buckets can be moved*)
(* with each pair until the main one is half full.                          *)
THEOREM TableInvariant == TableSpec => []TableInv
<1>1. TableInit => TableInv
      BY InitInOrder
<1>2. TableInv /\ [TableNext]_tableVars => TableInv'
  <2> SUFFICES ASSUME TableInv, [TableNext]_tableVars PROVE TableInv'
      OBVIOUS
  <2>1. ASSUME NEW k \in Keys, HashTable_insert(k) PROVE TableInv'
        BY <2>1, InsertInOrder
  <2>2. ASSUME NEW k \in Keys, HashTable_delete(k) PROVE TableInv'
        BY <2>2, DeleteInOrder
  <2>3. CASE UNCHANGED tableVars
        BY <2>3 DEF tableVars, TableInv
  <2>. QED  BY <2>1, <2>2, <2>3 DEF TableNext
<1>. QED  BY <1>1, <1>2, PTL DEF TableSpec

(* The pairs that HashTable counts are those counted here.                  *)
LEMMA CopiesAre ==
  ASSUME NEW size \in Nat, NEW b \in Buffers(size)
  PROVE  /\ BucketBuffer(b)
         /\ \A k \in Keys : Copies(k, b) = Size({k}, b.m_pList) /\ Copies(k, b) \in Nat
<1>1. PICK l \in Buckets(size) : l = b.m_pList
      BY BufferFacts
<1>2. /\ DOMAIN l = Rows(size)
      /\ \A i \in Rows(size) : l[i] \in Seq(Keys) /\ DOMAIN l[i] = 1 .. Len(l[i])
      BY RowFacts
<1>3. ASSUME NEW k \in Keys PROVE Standing(k, b) = StandIn({k}, l)
  <2>1. ASSUME NEW i \in Rows(size)
        PROVE  {i} \X {n \in DOMAIN l[i] : l[i][n] = k} = {i} \X In({k}, l[i])
    <3>1. {n \in DOMAIN l[i] : l[i][n] = k} = In({k}, l[i])
          BY <1>2 DEF In
    <3>. QED  BY <3>1
  <2>2. \A p : p \in Standing(k, b) <=>
                \E i \in Rows(size) : p \in {i} \X {n \in DOMAIN l[i] : l[i][n] = k}
        BY <1>1, <1>2 DEF Standing
  <2>3. \A p : p \in StandIn({k}, l) <=> \E i \in Rows(size) : p \in {i} \X In({k}, l[i])
        BY <1>2 DEF StandIn
  <2>4. \A p : p \in Standing(k, b) <=> p \in StandIn({k}, l)
    <3>1. ASSUME NEW p, NEW i \in Rows(size)
          PROVE  p \in {i} \X {n \in DOMAIN l[i] : l[i][n] = k} <=> p \in {i} \X In({k}, l[i])
          BY <2>1
    <3>. QED  BY <2>2, <2>3, <3>1, Zenon
  <2>. QED  BY <2>4
<1>4. \A k \in Keys : Copies(k, b) = Size({k}, b.m_pList) /\ Copies(k, b) \in Nat
      BY <1>1, <1>3, StandFacts DEF Copies, Size
<1>5. \A i \in Rows(size) : Range(l[i]) \subseteq Keys
  <2>1. ASSUME NEW i \in Rows(size), NEW n \in 1 .. Len(l[i]) PROVE l[i][n] \in Keys
        BY <1>2, ElementOfSeq
  <2>. QED  BY <1>2, <2>1 DEF Range
<1>6. BucketBuffer(b)
  <2>1. b.m_iSize = size /\ b.m_iBucketNumber \in Nat /\ b.m_iReallocateCursor \in 0 .. size
        BY BufferFacts
  <2>. QED  BY <1>1, <1>2, <1>5, <2>1 DEF BucketBuffer, Rows
<1>. QED  BY <1>4, <1>6

(* The table is the map of the pairs it was given: no pair is lost when an  *)
(* old buffer is freed, none is doubled while buckets move between two      *)
(* buffers, and unless a pair was moved to the wrong bucket what the table  *)
(* holds is found.                                                          *)
THEOREM HashTableIsMap == TableSpec => []TableIsMap
<1>1. TableInv => TableIsMap
  <2> SUFFICES ASSUME TableInv PROVE TableIsMap
      OBVIOUS
  <2>1. PICK M \in Nat, S \in Nat : M = main.m_iSize /\ S = sub.m_iSize
        BY DEF TableInv, InOrder
  <2>2. /\ main \in Buffers(M) /\ sub \in Buffers(S) /\ (S = 0 => sub = NoBuffer) /\ M # 0
        /\ owed \in [Keys -> Nat]
        /\ ~strayed => AtHome(main) /\ AtHome(sub) /\ \A k \in Keys : owed[k] <= 1
        BY <2>1 DEF TableInv, InOrder
  <2>3. \A k \in Keys : owed[k] = Size({k}, main.m_pList) + Size({k}, sub.m_pList)
        BY DEF TableInv, InOrder, Pairs
  <2>4. /\ BucketBuffer(main) /\ BucketBuffer(sub)
        /\ \A k \in Keys : Copies(k, main) = Size({k}, main.m_pList) /\ Copies(k, main) \in Nat
        /\ \A k \in Keys : Copies(k, sub) = Size({k}, sub.m_pList) /\ Copies(k, sub) \in Nat
        BY <2>2, CopiesAre
  <2>5. PairsKept
        BY <2>3, <2>4 DEF PairsKept
  <2>6. FindsWhatItHolds
    <3>1. SUFFICES ASSUME ~strayed, NEW k \in Keys
                   PROVE  owed[k] = IF HashTable_find(k) THEN 1 ELSE 0
          BY DEF FindsWhatItHolds
    <3>2. /\ BucketBuffer_find(main, k) <=> Size({k}, main.m_pList) # 0
          /\ BucketBuffer_find(sub, k) <=> Size({k}, sub.m_pList) # 0
      <4>1. M = 0 => main = NoBuffer
            BY <2>2
      <4>2. BucketBuffer_find(main, k) <=> Size({k}, main.m_pList) # 0
            BY <2>2, <3>1, <4>1, FindFacts
      <4>3. BucketBuffer_find(sub, k) <=> Size({k}, sub.m_pList) # 0
            BY <2>2, <3>1, FindFacts
      <4>. QED  BY <4>2, <4>3
    <3>3. owed[k] \in Nat /\ owed[k] <= 1
          BY <2>2, <3>1
    <3>4. Size({k}, main.m_pList) \in Nat /\ Size({k}, sub.m_pList) \in Nat
          BY <2>4
    <3>5. owed[k] = 0 <=> Size({k}, main.m_pList) = 0 /\ Size({k}, sub.m_pList) = 0
          BY <2>3, <3>4
    <3>. QED  BY <3>2, <3>3, <3>5 DEF HashTable_find
  <2>7. CountsKept
        BY <2>4 DEF CountsKept
  <2>. QED  BY <2>5, <2>6, <2>7 DEF TableIsMap
<1>. QED  BY <1>1, TableInvariant, PTL

=============================================================================
