---------------------------- MODULE SequenceFacts ----------------------------
(***************************************************************************)
(* Facts about the sequences that the models keep their queues and lists   *)
(* in: what an operation does to the set of the elements, and that no      *)
(* element comes to stand twice; what it is to be a prefix; and least      *)
(* elements, which stand in for induction in the proofs.                   *)
(***************************************************************************)
EXTENDS Integers, Sequences, SequencesExt, SequenceTheorems, FiniteSetTheorems,
        WellFoundedInduction, TLAPS

(* No element stands twice in the sequence s.                               *)
Once(s) == \A i, j \in 1 .. Len(s) : s[i] = s[j] => i = j

(* The elements of a sequence, by its positions.                            *)
LEMMA ToSetOfSeq ==
  ASSUME NEW T, NEW s \in Seq(T)
  PROVE  /\ \A x : x \in ToSet(s) <=> \E i \in 1 .. Len(s) : s[i] = x
         /\ ToSet(s) \subseteq T
         /\ s # << >> => Head(s) = s[1] /\ s[1] \in ToSet(s) /\ Len(s) > 0
BY DEF ToSet

(* A new element at the end.                                                *)
LEMMA AppendOnce ==
  ASSUME NEW T, NEW s \in Seq(T), NEW x \in T
  PROVE  /\ Append(s, x) \in Seq(T) /\ Append(s, x) # << >>
         /\ ToSet(Append(s, x)) = ToSet(s) \cup {x}
         /\ Once(s) /\ x \notin ToSet(s) => Once(Append(s, x))
         /\ s # << >> => Head(Append(s, x)) = Head(s)
         /\ s = << >> => Head(Append(s, x)) = x
<1> DEFINE a == Append(s, x)
<1>1. /\ a \in Seq(T) /\ a # << >> /\ Len(a) = Len(s) + 1
      /\ \A i \in 1 .. Len(s) : a[i] = s[i]
      /\ a[Len(s) + 1] = x
      BY AppendProperties
<1> HIDE DEF a
<1>2. ToSet(a) = ToSet(s) \cup {x}
      BY <1>1, LenProperties DEF ToSet
<1>3. Once(s) /\ x \notin ToSet(s) => Once(a)
      BY <1>1, ToSetOfSeq DEF Once
<1>4. /\ s # << >> => Head(a) = Head(s)
      /\ s = << >> => Head(a) = x
      BY <1>1, ToSetOfSeq
<1>. QED  BY <1>1, <1>2, <1>3, <1>4 DEF a

(* The first element leaves.                                                *)
LEMMA TailOnce ==
  ASSUME NEW T, NEW s \in Seq(T), s # << >>, Once(s)
  PROVE  /\ Tail(s) \in Seq(T) /\ Once(Tail(s)) /\ Len(Tail(s)) = Len(s) - 1
         /\ ToSet(Tail(s)) = ToSet(s) \ {Head(s)}
         /\ Head(s) \in ToSet(s)
         /\ Len(s) > 1 => Tail(s) # << >> /\ Head(Tail(s)) = s[2]
<1>1. /\ Tail(s) \in Seq(T) /\ Len(Tail(s)) = Len(s) - 1 /\ Len(s) > 0
      /\ \A i \in 1 .. Len(s) - 1 : Tail(s)[i] = s[i + 1]
      /\ Head(s) = s[1]
      BY HeadTailProperties, LenProperties
<1>2. Once(Tail(s))
      BY <1>1, LenProperties DEF Once
<1>3. ToSet(Tail(s)) = ToSet(s) \ {Head(s)}
  <2>1. \A y : y \in ToSet(Tail(s)) => y \in ToSet(s) /\ y # Head(s)
        BY <1>1, LenProperties DEF Once, ToSet
  <2>2. ASSUME NEW y \in ToSet(s), y # Head(s)
        PROVE  y \in ToSet(Tail(s))
    <3>1. PICK i \in 1 .. Len(s) : s[i] = y
          BY ToSetOfSeq
    <3>2. i - 1 \in 1 .. Len(s) - 1 /\ Tail(s)[i - 1] = y
          BY <1>1, <2>2, <3>1, LenProperties
    <3>. QED  BY <1>1, <3>2, ToSetOfSeq
  <2>. QED  BY <2>1, <2>2
<1>4. Head(s) \in ToSet(s)
      BY <1>1, ToSetOfSeq
<1>5. Len(s) > 1 => Tail(s) # << >> /\ Head(Tail(s)) = s[2]
      BY <1>1, LenProperties, EmptySeq, ToSetOfSeq
<1>. QED  BY <1>1, <1>2, <1>3, <1>4, <1>5

(* The element at place k leaves.                                           *)
LEMMA RemoveOnce ==
  ASSUME NEW T, NEW s \in Seq(T), NEW k \in 1 .. Len(s), Once(s)
  PROVE  /\ RemoveAt(s, k) \in Seq(T) /\ Once(RemoveAt(s, k))
         /\ Len(RemoveAt(s, k)) = Len(s) - 1
         /\ ToSet(RemoveAt(s, k)) = ToSet(s) \ {s[k]}
         /\ k > 1 => RemoveAt(s, k) # << >> /\ Head(RemoveAt(s, k)) = Head(s)
<1> DEFINE a == SubSeq(s, 1, k - 1)
           b == SubSeq(s, k + 1, Len(s))
           r == RemoveAt(s, k)
<1>1. Len(s) \in Nat /\ k \in Int /\ k >= 1 /\ k <= Len(s) /\ DOMAIN s = 1 .. Len(s)
      /\ \A i \in 1 .. Len(s) : s[i] \in T
      BY LenProperties
<1>2. /\ a \in Seq(T) /\ Len(a) = k - 1
      /\ \A i \in 1 .. k - 1 : a[i] = s[i]
  <2>1. \A i \in 1 .. k - 1 : s[i] \in T
        BY <1>1
  <2>2. 1 \in Int /\ k - 1 \in Int
        BY <1>1
  <2>. QED  BY <1>1, <2>1, <2>2, SubSeqProperties
<1>3. /\ b \in Seq(T) /\ Len(b) = Len(s) - k
      /\ \A i \in 1 .. Len(s) - k : b[i] = s[k + i]
  <2>1. \A i \in k + 1 .. Len(s) : s[i] \in T
        BY <1>1
  <2>2. k + 1 \in Int /\ Len(s) \in Int /\ k + 1 <= Len(s) + 1
        BY <1>1
  <2>3. /\ b \in Seq(T)
        /\ Len(b) = IF k + 1 <= Len(s) THEN Len(s) - (k + 1) + 1 ELSE 0
        /\ \A i \in 1 .. Len(s) - (k + 1) + 1 : b[i] = s[k + 1 + i - 1]
        BY <2>1, <2>2, SubSeqProperties
  <2> HIDE DEF a, b, r
  <2>4. Len(s) - (k + 1) + 1 = Len(s) - k
        BY <1>1
  <2>5. ~(k + 1 <= Len(s)) => Len(s) - k = 0
    <3>1. Len(s) \in Int /\ k \in Int /\ k <= Len(s)
          BY <1>1
    <3>. QED  BY ONLY <3>1
  <2>6. Len(b) = Len(s) - k
        BY <2>3, <2>4, <2>5
  <2>7. ASSUME NEW i \in 1 .. Len(s) - k PROVE b[i] = s[k + i]
    <3>1. k + 1 + i - 1 = k + i
          BY <1>1
    <3>. QED  BY <2>3, <2>4, <3>1
  <2>. QED  BY <2>3, <2>6, <2>7
<1> HIDE DEF a, b
<1>4. r = a \o b
      BY DEF a, b, RemoveAt
<1>5. /\ r \in Seq(T) /\ Len(r) = Len(s) - 1
      /\ \A i \in 1 .. Len(s) - 1 : r[i] = IF i < k THEN s[i] ELSE s[i + 1]
  <2>1. /\ a \o b \in Seq(T) /\ Len(a \o b) = Len(a) + Len(b)
        /\ \A i \in 1 .. Len(a) + Len(b) :
             (a \o b)[i] = IF i <= Len(a) THEN a[i] ELSE b[i - Len(a)]
        BY <1>2, <1>3, ConcatProperties
  <2>2. Len(a) + Len(b) = Len(s) - 1
        BY <1>1, <1>2, <1>3
  <2>3. ASSUME NEW i \in 1 .. Len(s) - 1
        PROVE  (a \o b)[i] = IF i < k THEN s[i] ELSE s[i + 1]
    <3>1. CASE i < k
      <4>1. i <= Len(a) /\ i \in 1 .. k - 1
            BY <1>1, <1>2, <3>1
      <4>. QED  BY <1>2, <2>1, <2>2, <3>1, <4>1
    <3>2. CASE ~(i < k)
      <4>1. /\ ~(i <= Len(a)) /\ i - Len(a) \in 1 .. Len(s) - k
            /\ k + (i - Len(a)) = i + 1
            BY <1>1, <1>2, <3>2
      <4>. QED  BY <1>3, <2>1, <2>2, <3>2, <4>1
    <3>. QED  BY <3>1, <3>2
  <2>. QED  BY <1>4, <2>1, <2>2, <2>3
<1> HIDE DEF r
<1>6. Once(r)
      BY <1>1, <1>5 DEF Once
<1>7. DOMAIN r = 1 .. Len(r)
      BY <1>5, LenProperties
<1>8. ASSUME NEW y \in ToSet(r) PROVE y \in ToSet(s) /\ y # s[k]
  <2>1. PICK i \in 1 .. Len(r) : r[i] = y
        BY <1>7 DEF ToSet
  <2>2. PICK j \in 1 .. Len(s) : s[j] = y /\ j # k
        BY <1>1, <1>5, <2>1
  <2>. QED  BY <1>1, <2>2 DEF Once, ToSet
<1>9. ASSUME NEW y \in ToSet(s), y # s[k] PROVE y \in ToSet(r)
  <2>1. PICK i \in 1 .. Len(s) : s[i] = y
        BY <1>1 DEF ToSet
  <2>2. CASE i < k
    <3>1. i \in 1 .. Len(r) /\ r[i] = y
          BY <1>1, <1>5, <2>1, <2>2
    <3>. QED  BY <1>7, <3>1 DEF ToSet
  <2>3. CASE i > k
    <3>1. i - 1 \in 1 .. Len(r) /\ r[i - 1] = y
          BY <1>1, <1>5, <2>1, <2>3
    <3>. QED  BY <1>7, <3>1 DEF ToSet
  <2>. QED  BY <1>1, <1>9, <2>1, <2>2, <2>3
<1>10. k > 1 => r # << >> /\ Head(r) = Head(s)
      BY <1>1, <1>5, ToSetOfSeq, EmptySeq
<1>. QED  BY <1>5, <1>6, <1>8, <1>9, <1>10 DEF r

(* The element at place k moves to the front.                               *)
LEMMA MoveOnce ==
  ASSUME NEW T, NEW s \in Seq(T), NEW k \in 1 .. Len(s), Once(s),
         NEW m, m = << s[k] >> \o RemoveAt(s, k)
  PROVE  /\ m \in Seq(T) /\ Once(m) /\ Len(m) = Len(s)
         /\ ToSet(m) = ToSet(s)
         /\ m # << >> /\ Head(m) = s[k]
<1> DEFINE r == RemoveAt(s, k)
           h == << s[k] >>
<1>1. /\ r \in Seq(T) /\ Once(r) /\ Len(r) = Len(s) - 1
      /\ ToSet(r) = ToSet(s) \ {s[k]}
      BY RemoveOnce
<1>2. s[k] \in T /\ s[k] \in ToSet(s) /\ Len(s) \in Nat /\ Len(s) > 0
      BY LenProperties, ToSetOfSeq
<1>3. h \in Seq(T) /\ Len(h) = 1 /\ h[1] = s[k]
      BY <1>2
<1> HIDE DEF r, h
<1>4. m = h \o r
      BY DEF r, h
<1>5. /\ m \in Seq(T) /\ Len(m) = Len(s) /\ m[1] = s[k]
      /\ \A i \in 1 .. Len(s) : i # 1 => m[i] = r[i - 1]
  <2>1. /\ h \o r \in Seq(T) /\ Len(h \o r) = Len(h) + Len(r)
        /\ \A i \in 1 .. Len(h) + Len(r) :
             (h \o r)[i] = IF i <= Len(h) THEN h[i] ELSE r[i - Len(h)]
    <3>1. h \in Seq(T) /\ r \in Seq(T)
          BY <1>1, <1>3
    <3>. QED  BY ONLY <3>1, ConcatProperties
  <2>2. Len(h) + Len(r) = Len(s)
        BY <1>1, <1>2, <1>3
  <2>3. 1 \in 1 .. Len(s) /\ 1 <= Len(h)
        BY <1>2, <1>3
  <2>4. \A i \in 1 .. Len(s) : i # 1 => ~(i <= Len(h)) /\ i - Len(h) = i - 1
        BY <1>2, <1>3
  <2>5. (h \o r)[1] = s[k]
        BY <1>3, <2>1, <2>2, <2>3
  <2>6. \A i \in 1 .. Len(s) : i # 1 => (h \o r)[i] = r[i - 1]
        BY <2>1, <2>2, <2>4
  <2>. QED  BY <1>4, <2>1, <2>2, <2>5, <2>6
<1>6. DOMAIN m = 1 .. Len(m) /\ DOMAIN r = 1 .. Len(r) /\ DOMAIN s = 1 .. Len(s)
      BY <1>1, <1>5, LenProperties
<1>7. Once(m)
  <2> SUFFICES ASSUME NEW i \in 1 .. Len(s), NEW j \in 1 .. Len(s), m[i] = m[j]
               PROVE  i = j
      BY <1>5 DEF Once
  <2>1. \A n \in 1 .. Len(r) : r[n] # s[k]
        BY <1>1, <1>6 DEF ToSet
  <2>2. \A n \in 1 .. Len(s) : n # 1 => n - 1 \in 1 .. Len(r)
        BY <1>1, <1>2
  <2>. QED  BY <1>1, <1>2, <1>5, <2>1, <2>2 DEF Once
<1>8. ToSet(m) = ToSet(s)
  <2>1. ASSUME NEW y \in ToSet(m) PROVE y \in ToSet(s)
    <3>1. PICK i \in 1 .. Len(m) : m[i] = y
          BY <1>6 DEF ToSet
    <3>2. CASE i # 1
      <4>1. i - 1 \in 1 .. Len(r) /\ r[i - 1] = y
            BY <1>1, <1>2, <1>5, <3>1, <3>2
      <4>. QED  BY <1>1, <1>6, <4>1 DEF ToSet
    <3>. QED  BY <1>2, <1>5, <3>1, <3>2
  <2>2. ASSUME NEW y \in ToSet(r) PROVE y \in ToSet(m)
    <3>1. PICK i \in 1 .. Len(r) : r[i] = y
          BY <1>6 DEF ToSet
    <3>2. i + 1 \in 1 .. Len(m) /\ m[i + 1] = y
          BY <1>1, <1>2, <1>5, <3>1
    <3>. QED  BY <1>6, <3>2 DEF ToSet
  <2>3. s[k] \in ToSet(m)
    <3>1. 1 \in 1 .. Len(m) /\ m[1] = s[k]
          BY <1>2, <1>5
    <3>. QED  BY <1>6, <3>1 DEF ToSet
  <2>. QED  BY <1>1, <2>1, <2>2, <2>3
<1>9. m # << >> /\ Head(m) = s[k]
      BY <1>2, <1>5, EmptySeq, ToSetOfSeq
<1>. QED  BY <1>5, <1>7, <1>8, <1>9

(* Two sequences, one behind the other.                                     *)
LEMMA ConcatOnce ==
  ASSUME NEW T, NEW s \in Seq(T), NEW t \in Seq(T)
  PROVE  /\ s \o t \in Seq(T)
         /\ ToSet(s \o t) = ToSet(s) \cup ToSet(t)
         /\ Once(s) /\ Once(t) /\ ToSet(s) \cap ToSet(t) = {} => Once(s \o t)
         /\ s # << >> => s \o t # << >> /\ Head(s \o t) = Head(s)
<1> DEFINE c == s \o t
<1>1. /\ c \in Seq(T) /\ Len(c) = Len(s) + Len(t)
      /\ \A i \in 1 .. Len(s) + Len(t) : c[i] = IF i <= Len(s) THEN s[i] ELSE t[i - Len(s)]
      /\ Len(s) \in Nat /\ Len(t) \in Nat
      BY ConcatProperties, LenProperties
<1>2. DOMAIN c = 1 .. Len(c) /\ DOMAIN s = 1 .. Len(s) /\ DOMAIN t = 1 .. Len(t)
      BY <1>1, LenProperties
<1> HIDE DEF c
<1>3. \A i \in 1 .. Len(s) : i \in 1 .. Len(c) /\ c[i] = s[i]
      BY <1>1
<1>4. ASSUME NEW i \in 1 .. Len(t)
      PROVE  Len(s) + i \in 1 .. Len(c) /\ c[Len(s) + i] = t[i]
  <2>1. Len(s) + i \in 1 .. Len(c) /\ ~(Len(s) + i <= Len(s)) /\ Len(s) + i - Len(s) = i
        BY <1>1
  <2>. QED  BY <1>1, <2>1
<1>5. ASSUME NEW i \in 1 .. Len(c)
      PROVE  \/ i \in 1 .. Len(s) /\ c[i] = s[i]
             \/ i - Len(s) \in 1 .. Len(t) /\ c[i] = t[i - Len(s)]
      BY <1>1
<1>6. ToSet(c) = ToSet(s) \cup ToSet(t)
  <2>1. ASSUME NEW y \in ToSet(c) PROVE y \in ToSet(s) \cup ToSet(t)
        BY <1>2, <1>5 DEF ToSet
  <2>2. ASSUME NEW y \in ToSet(s) PROVE y \in ToSet(c)
        BY <1>2, <1>3 DEF ToSet
  <2>3. ASSUME NEW y \in ToSet(t) PROVE y \in ToSet(c)
        BY <1>2, <1>4 DEF ToSet
  <2>. QED  BY <2>1, <2>2, <2>3
<1>7. ASSUME Once(s), Once(t), ToSet(s) \cap ToSet(t) = {} PROVE Once(c)
  <2> SUFFICES ASSUME NEW i \in 1 .. Len(c), NEW j \in 1 .. Len(c), c[i] = c[j]
               PROVE  i = j
      BY DEF Once
  <2>1. \A m \in 1 .. Len(s), n \in 1 .. Len(t) : s[m] # t[n]
        BY <1>2, <1>7 DEF ToSet
  <2>2. CASE i \in 1 .. Len(s) /\ j \in 1 .. Len(s)
        BY <1>3, <1>7, <2>2 DEF Once
  <2>3. CASE i - Len(s) \in 1 .. Len(t) /\ j - Len(s) \in 1 .. Len(t)
    <3>1. ~(i <= Len(s)) /\ ~(j <= Len(s))
          BY <1>1, <2>3
    <3>2. t[i - Len(s)] = t[j - Len(s)]
          BY <1>1, <3>1
    <3>3. i - Len(s) = j - Len(s)
          BY <1>7, <2>3, <3>2 DEF Once
    <3>. QED  BY <1>1, <3>3
  <2>. QED  BY <1>5, <2>1, <2>2, <2>3
<1>8. s # << >> => c # << >> /\ Head(c) = Head(s)
      BY <1>1, ToSetOfSeq, EmptySeq
<1>. QED  BY <1>1, <1>6, <1>7, <1>8 DEF c

(* A sequence cut behind its first n elements.                              *)
LEMMA SplitOnce ==
  ASSUME NEW T, NEW s \in Seq(T), NEW n \in 0 .. Len(s), Once(s)
  PROVE  /\ SubSeq(s, 1, n) \in Seq(T) /\ SubSeq(s, n + 1, Len(s)) \in Seq(T)
         /\ Once(SubSeq(s, 1, n)) /\ Once(SubSeq(s, n + 1, Len(s)))
         /\ ToSet(SubSeq(s, 1, n)) \cap ToSet(SubSeq(s, n + 1, Len(s))) = {}
         /\ ToSet(SubSeq(s, 1, n)) \cup ToSet(SubSeq(s, n + 1, Len(s))) = ToSet(s)
         /\ Len(SubSeq(s, 1, n)) = n /\ Len(SubSeq(s, n + 1, Len(s))) = Len(s) - n
         /\ \A i \in 1 .. n : SubSeq(s, 1, n)[i] = s[i]
         /\ \A i \in 1 .. Len(s) - n : SubSeq(s, n + 1, Len(s))[i] = s[n + i]
<1> DEFINE a == SubSeq(s, 1, n)
           b == SubSeq(s, n + 1, Len(s))
<1>1. Len(s) \in Nat /\ n \in Int /\ n >= 0 /\ n <= Len(s)
      /\ \A i \in 1 .. Len(s) : s[i] \in T
      BY LenProperties
<1>2. /\ a \in Seq(T) /\ Len(a) = n
      /\ \A i \in 1 .. n : a[i] = s[i]
  <2>1. \A i \in 1 .. n : s[i] \in T
        BY <1>1
  <2>2. 1 \in Int
        OBVIOUS
  <2>. QED  BY <1>1, <2>1, <2>2, SubSeqProperties
<1>3. /\ b \in Seq(T) /\ Len(b) = Len(s) - n
      /\ \A i \in 1 .. Len(s) - n : b[i] = s[n + i]
  <2>1. \A i \in n + 1 .. Len(s) : s[i] \in T
        BY <1>1
  <2>2. n + 1 \in Int /\ Len(s) \in Int
        BY <1>1
  <2>. QED  BY <1>1, <2>1, <2>2, SubSeqProperties
<1>4. DOMAIN a = 1 .. Len(a) /\ DOMAIN b = 1 .. Len(b) /\ DOMAIN s = 1 .. Len(s)
      BY <1>2, <1>3, LenProperties
<1>5. s = a \o b
  <2>1. 1 \in 1 .. Len(s) + 1 /\ n \in 1 - 1 .. Len(s) /\ Len(s) \in n .. Len(s)
        BY <1>1
  <2>2. SubSeq(s, 1, n) \o SubSeq(s, n + 1, Len(s)) = SubSeq(s, 1, Len(s))
        BY <2>1, ConcatAdjacentSubSeq
  <2>3. SubSeq(s, 1, Len(s)) = s
        BY SubSeqFull
  <2>. QED  BY <2>2, <2>3
<1>6. Once(a) /\ Once(b)
  <2>1. Once(a)
        BY <1>1, <1>2 DEF Once
  <2>2. ASSUME NEW i \in 1 .. Len(b), NEW j \in 1 .. Len(b), b[i] = b[j] PROVE i = j
    <3>1. n + i \in 1 .. Len(s) /\ n + j \in 1 .. Len(s) /\ s[n + i] = s[n + j]
          BY <1>1, <1>3, <2>2
    <3>2. n + i = n + j
          BY <3>1 DEF Once
    <3>. QED  BY <1>1, <1>3, <3>2
  <2>. QED  BY <2>1, <2>2 DEF Once
<1>7. ToSet(a) \cap ToSet(b) = {}
  <2> SUFFICES ASSUME NEW i \in 1 .. Len(a), NEW j \in 1 .. Len(b), a[i] = b[j]
               PROVE  FALSE
      BY <1>4 DEF ToSet
  <2>1. i \in 1 .. Len(s) /\ n + j \in 1 .. Len(s) /\ s[i] = s[n + j]
        BY <1>1, <1>2, <1>3
  <2>2. i = n + j
        BY <2>1 DEF Once
  <2>. QED  BY <1>1, <1>2, <1>3, <2>2
<1>8. ToSet(a) \cup ToSet(b) = ToSet(s)
  <2>1. ToSet(a \o b) = ToSet(a) \cup ToSet(b)
    <3>1. a \in Seq(T) /\ b \in Seq(T)
          BY <1>2, <1>3
    <3>2. \A u, v \in Seq(T) : ToSet(u \o v) = ToSet(u) \cup ToSet(v)
          BY ConcatOnce
    <3>. QED  BY <3>1, <3>2
  <2>. QED  BY <1>5, <2>1
<1>. QED  BY <1>2, <1>3, <1>6, <1>7, <1>8

-----------------------------------------------------------------------------
(* Least elements                                                           *)

(* A family of subsets of a finite set has a member with no smaller one.    *)
LEMMA LeastSet ==
  ASSUME NEW S, IsFiniteSet(S), NEW B \in SUBSET SUBSET S, B # {}
  PROVE  \E T \in B : \A U \in B : U \subseteq T => U = T
<1>1. IsWellFoundedOn(StrictSubsetOrdering(S), FiniteSubsetsOf(S))
      BY FS_StrictSubsetOrderingWellFounded
<1>2. B \subseteq FiniteSubsetsOf(S)
      BY FS_Subset DEF FiniteSubsetsOf
<1>3. PICK T \in B : \A U \in B : ~(<< U, T >> \in StrictSubsetOrdering(S))
      BY <1>1, <1>2, WFMin
<1>. QED  BY <1>3 DEF StrictSubsetOrdering

(* A set of natural numbers has a least one.                                *)
LEMMA LeastNumber ==
  ASSUME NEW S \in SUBSET Nat, S # {}
  PROVE  \E x \in S : \A y \in S : x <= y
<1>1. PICK n \in S : TRUE
      OBVIOUS
<1> DEFINE D == 1 .. n + 1
           B == {1 .. x + 1 : x \in {z \in S : z <= n}}
<1>2. PICK T \in B : \A U \in B : U \subseteq T => U = T
  <2>1. IsFiniteSet(D)
        BY FS_Interval
  <2>2. \A x \in {z \in S : z <= n} : 1 .. x + 1 \in SUBSET D
        OBVIOUS
  <2>3. B \in SUBSET SUBSET D
        BY <2>2
  <2>4. 1 .. n + 1 \in B
        BY <1>1
  <2> HIDE DEF B, D
  <2>. QED  BY <2>1, <2>3, <2>4, LeastSet
<1>3. PICK x \in S : x <= n /\ T = 1 .. x + 1
      OBVIOUS
<1>4. ASSUME NEW y \in S, y < x
      PROVE  FALSE
  <2>1. 1 .. y + 1 \in B /\ 1 .. y + 1 \subseteq T
        BY <1>3, <1>4
  <2>2. 1 .. y + 1 = 1 .. x + 1
        BY <1>2, <1>3, <2>1
  <2>3. x + 1 \in 1 .. x + 1
        OBVIOUS
  <2>. QED  BY <1>4, <2>2, <2>3
<1>. QED  BY <1>4

-----------------------------------------------------------------------------
(* Prefixes                                                                 *)

(* A sequence is a prefix of another one if something makes it that.        *)
LEMMA PrefixIsPart ==
  ASSUME NEW S, NEW p \in Seq(S), NEW a \in Seq(S)
  PROVE  IsPrefix(p, a) <=> \E q \in Seq(S) : a = p \o q
<1>1. ASSUME IsPrefix(p, a)
      PROVE  \E q \in Seq(S) : a = p \o q
  <2>1. /\ Len(p) \in 0 .. Len(a) /\ Len(a) \in Nat
        /\ SubSeq(p, 1, Len(p)) = SubSeq(a, 1, Len(p))
        BY <1>1, LenProperties DEF IsPrefix
  <2> DEFINE q == SubSeq(a, Len(p) + 1, Len(a))
  <2>2. q \in Seq(S)
    <3>1. \A i \in Len(p) + 1 .. Len(a) : a[i] \in S
          BY <2>1, ElementOfSeq
    <3>. QED  BY <2>1, <3>1, SubSeqProperties
  <2>3. SubSeq(a, 1, Len(p)) \o q = SubSeq(a, 1, Len(a))
    <3>1. /\ 1 \in 1 .. Len(a) + 1 /\ Len(p) \in 1 - 1 .. Len(a)
          /\ Len(a) \in Len(p) .. Len(a)
          BY <2>1
    <3>. QED  BY ONLY <3>1, a \in Seq(S), ConcatAdjacentSubSeq
  <2>4. SubSeq(a, 1, Len(a)) = a /\ SubSeq(p, 1, Len(p)) = p
        BY SubSeqFull
  <2>. QED  BY <2>1, <2>2, <2>3, <2>4
<1>2. ASSUME NEW q \in Seq(S), a = p \o q
      PROVE  IsPrefix(p, a)
  <2>1. /\ Len(p) \in Nat /\ Len(q) \in Nat /\ Len(a) = Len(p) + Len(q)
        /\ \A i \in 1 .. Len(p) : a[i] = p[i]
        BY <1>2, LenProperties, ConcatProperties
  <2>2. /\ SubSeq(p, 1, Len(p)) \in Seq(S) /\ SubSeq(a, 1, Len(p)) \in Seq(S)
        /\ Len(SubSeq(p, 1, Len(p))) = Len(p) /\ Len(SubSeq(a, 1, Len(p))) = Len(p)
        /\ \A i \in 1 .. Len(p) : SubSeq(p, 1, Len(p))[i] = p[i] /\ SubSeq(a, 1, Len(p))[i] = a[i]
    <3>1. \A i \in 1 .. Len(p) : p[i] \in S /\ a[i] \in S
          BY <2>1, ElementOfSeq
    <3>. QED  BY <2>1, <3>1, SubSeqProperties
  <2>3. SubSeq(p, 1, Len(p)) = SubSeq(a, 1, Len(p))
    <3>1. \A i \in 1 .. Len(p) : SubSeq(p, 1, Len(p))[i] = SubSeq(a, 1, Len(p))[i]
          BY <2>1, <2>2
    <3>. QED  BY <2>2, <3>1, SeqEqual
  <2>. QED  BY <2>1, <2>3 DEF IsPrefix
<1>. QED  BY <1>1, <1>2

(* A prefix of a prefix, and a sequence cut in two.                         *)
LEMMA PrefixFacts ==
  ASSUME NEW S, NEW p \in Seq(S), NEW q \in Seq(S), NEW a \in Seq(S)
  PROVE  /\ IsPrefix(<< >>, a) /\ IsPrefix(a, a)
         /\ p \o q \in Seq(S)
         /\ IsPrefix(p \o q, a) => IsPrefix(p, a)
         /\ p \o q = a => IsPrefix(p, a)
<1>1. << >> \in Seq(S) /\ a = << >> \o a /\ a = a \o << >>
      BY EmptySeq, ConcatEmptySeq
<1>2. p \o q \in Seq(S)
      BY ConcatProperties
<1>3. ASSUME IsPrefix(p \o q, a)
      PROVE  IsPrefix(p, a)
  <2>1. PICK r \in Seq(S) : a = (p \o q) \o r
        BY <1>2, <1>3, PrefixIsPart, ZenonT(40)
  <2>2. q \o r \in Seq(S)
        BY ConcatProperties
  <2>3. (p \o q) \o r = p \o (q \o r)
        BY ConcatAssociative
  <2>. QED  BY <2>1, <2>2, <2>3, PrefixIsPart
<1>. QED  BY <1>1, <1>2, <1>3, PrefixIsPart

(* A sequence is made of its first n elements and the others.               *)
LEMMA CutSeq ==
  ASSUME NEW S, NEW a \in Seq(S), NEW n \in 0 .. Len(a)
  PROVE  /\ SubSeq(a, 1, n) \in Seq(S) /\ SubSeq(a, n + 1, Len(a)) \in Seq(S)
         /\ SubSeq(a, 1, n) \o SubSeq(a, n + 1, Len(a)) = a
<1>1. Len(a) \in Nat /\ \A i \in 1 .. Len(a) : a[i] \in S
      BY LenProperties, ElementOfSeq
<1>2. SubSeq(a, 1, n) \in Seq(S) /\ SubSeq(a, n + 1, Len(a)) \in Seq(S)
      BY <1>1, SubSeqProperties
<1>3. SubSeq(a, 1, n) \o SubSeq(a, n + 1, Len(a)) = SubSeq(a, 1, Len(a))
  <2>1. 1 \in 1 .. Len(a) + 1 /\ n \in 1 - 1 .. Len(a) /\ Len(a) \in n .. Len(a)
        BY <1>1
  <2>. QED  BY ONLY <2>1, a \in Seq(S), ConcatAdjacentSubSeq
<1>. QED  BY <1>2, <1>3, SubSeqFull

=============================================================================
