--------------------------- MODULE FastPool_proofs ---------------------------
(***************************************************************************)
(* What holds of FastPool for any number of workers and clients, any tasks *)
(* and any capacity of the local queues.                                   *)
(***************************************************************************)
EXTENDS FastPool, FiniteSetTheorems, FunctionTheorems, SequenceTheorems, TLAPS

-----------------------------------------------------------------------------
(* Sequences and minima *)

LEMMA ToSetIsImage == ASSUME NEW S, NEW q \in Seq(S)
                      PROVE  ToSet(q) = {q[i] : i \in 1 .. Len(q)} /\ ToSet(q) \subseteq S
  BY DEF ToSet

LEMMA ConcatFacts ==
    ASSUME NEW S, NEW q \in Seq(S), NEW r \in Seq(S)
    PROVE  /\ q \o r \in Seq(S) /\ Len(q \o r) = Len(q) + Len(r)
           /\ \A i \in 1 .. Len(q) + Len(r) :
                 (q \o r)[i] = IF i <= Len(q) THEN q[i] ELSE r[i - Len(q)]
  OBVIOUS

LEMMA ToSetConcat == ASSUME NEW S, NEW q \in Seq(S), NEW r \in Seq(S)
                     PROVE  ToSet(q \o r) = ToSet(q) \cup ToSet(r)
<1>1. /\ q \o r \in Seq(S) /\ Len(q \o r) = Len(q) + Len(r) /\ Len(q) \in Nat /\ Len(r) \in Nat
      /\ \A i \in 1 .. Len(q) + Len(r) : (q \o r)[i] = IF i <= Len(q) THEN q[i] ELSE r[i - Len(q)]
  BY ConcatFacts
<1>2. /\ ToSet(q \o r) = {(q \o r)[i] : i \in 1 .. Len(q) + Len(r)}
      /\ ToSet(q) = {q[i] : i \in 1 .. Len(q)} /\ ToSet(r) = {r[i] : i \in 1 .. Len(r)}
  BY <1>1, ToSetIsImage
<1>3. ASSUME NEW x \in ToSet(q \o r) PROVE x \in ToSet(q) \cup ToSet(r)
  <2>1. PICK i \in 1 .. Len(q) + Len(r) : x = (q \o r)[i]
    BY <1>2, <1>3
  <2>2. CASE i <= Len(q)
    BY <1>1, <1>2, <2>1, <2>2
  <2>3. CASE ~ i <= Len(q)
    <3>1. i - Len(q) \in 1 .. Len(r) /\ x = r[i - Len(q)]
      BY <1>1, <2>1, <2>3
    <3> QED
      BY <1>2, <3>1
  <2> QED
    BY <2>2, <2>3
<1>4. ASSUME NEW x \in ToSet(q) PROVE x \in ToSet(q \o r)
  <2>1. PICK i \in 1 .. Len(q) : x = q[i]
    BY <1>2, <1>4
  <2>2. i \in 1 .. Len(q) + Len(r) /\ x = (q \o r)[i]
    BY <1>1, <2>1
  <2> QED
    BY <1>2, <2>2
<1>5. ASSUME NEW x \in ToSet(r) PROVE x \in ToSet(q \o r)
  <2>1. PICK i \in 1 .. Len(r) : x = r[i]
    BY <1>2, <1>5
  <2>2. i + Len(q) \in 1 .. Len(q) + Len(r) /\ x = (q \o r)[i + Len(q)]
    BY <1>1, <2>1
  <2> QED
    BY <1>2, <2>2
<1> QED
  BY <1>3, <1>4, <1>5

LEMMA SizeOfInjective == ASSUME NEW S, NEW q \in Seq(S), IsInjective(q)
                         PROVE  IsFiniteSet(ToSet(q)) /\ Cardinality(ToSet(q)) = Len(q)
<1>1. Len(q) \in Nat /\ DOMAIN q = 1 .. Len(q) /\ q \in [1 .. Len(q) -> ToSet(q)]
  BY ToSetIsImage
<1>2. q \in Bijection(1 .. Len(q), ToSet(q))
  BY <1>1, ToSetIsImage, Fun_IsBij DEF IsInjective
<1>3. ExistsBijection(1 .. Len(q), ToSet(q))
  BY <1>2, Fun_ExistsBij
<1> QED
  BY <1>1, <1>3, FS_NatBijection, FS_CountingElements

LEMMA MinOfTwo == ASSUME NEW m \in Nat, NEW n \in Nat
                  PROVE  Min({m, n}) = IF m <= n THEN m ELSE n
<1> DEFINE k == IF m <= n THEN m ELSE n
<1>1. k \in {m, n} /\ \A y \in {m, n} : k <= y
  OBVIOUS
<1>2. \A x \in {m, n} : (\A y \in {m, n} : x <= y) => x = k
  OBVIOUS
<1> QED
  BY <1>1, <1>2 DEF Min

\* A worker's share of the global queue.
LEMMA ShareFits ==
    ASSUME global \in Seq(Items), NEW room \in Nat, NEW workers \in Nat \ {0}
    PROVE  /\ Share(room, workers) \in Nat
           /\ Share(room, workers) <= room /\ Share(room, workers) <= Len(global)
           /\ room > 0 /\ global # <<>> => Share(room, workers) > 0
<1> DEFINE part == (Len(global) + workers - 1) \div workers
<1> DEFINE three == {room, Len(global), part}
<1>1. Len(global) \in Nat /\ (global # <<>> => Len(global) > 0)
  OBVIOUS
<1>2. part \in Nat /\ (Len(global) > 0 => part > 0)
  <2>1. \A a \in Nat, b \in Nat \ {0} : a \div b \in Nat /\ (a >= b => a \div b > 0)
    OBVIOUS
  <2>2. Len(global) + workers - 1 \in Nat /\ (Len(global) > 0 => Len(global) + workers - 1 >= workers)
    BY <1>1
  <2> QED
    BY <2>1, <2>2
<1>3. PICK m \in three : \A y \in three : m <= y
  <2> HIDE DEF part
  <2> QED
    BY <1>1, <1>2
<1>4. Share(room, workers) \in three /\ \A y \in three : Share(room, workers) <= y
  BY <1>3 DEF Share, Min
<1> HIDE DEF part
<1> QED
  BY <1>1, <1>2, <1>4

-----------------------------------------------------------------------------
(* The lists of the coordinator *)

\* Two lists hold S, each member once.
Hold(a, p, S) == /\ a \in Seq(S) /\ p \in Seq(S)
                 /\ IsInjective(a \o p) /\ ToSet(a \o p) = S

LEMMA HoldFacts ==
    ASSUME NEW S, NEW a, NEW p, Hold(a, p, S)
    PROVE  /\ ToSet(a) \cup ToSet(p) = S
           /\ IsFiniteSet(S) /\ Cardinality(S) = Len(a) + Len(p)
<1>1. a \in Seq(S) /\ p \in Seq(S) /\ a \o p \in Seq(S) /\ Len(a \o p) = Len(a) + Len(p)
      /\ IsInjective(a \o p) /\ ToSet(a \o p) = S
  BY ConcatFacts DEF Hold
<1>2. ToSet(a) \cup ToSet(p) = S
  BY <1>1, ToSetConcat
<1>3. IsFiniteSet(ToSet(a \o p)) /\ Cardinality(ToSet(a \o p)) = Len(a \o p)
  BY <1>1, SizeOfInjective
<1> QED
  BY <1>1, <1>2, <1>3

\* Cutting a sequence that holds S.
LEMMA CutHolds ==
    ASSUME NEW S, NEW q \in Seq(S), IsInjective(q), ToSet(q) = S, NEW n \in 0 .. Len(q)
    PROVE  Hold(SubSeq(q, 1, n), SubSeq(q, n + 1, Len(q)), S)
<1> DEFINE a == SubSeq(q, 1, n)
<1> DEFINE p == SubSeq(q, n + 1, Len(q))
<1>1. /\ a \in Seq(S) /\ p \in Seq(S) /\ Len(a) = n /\ Len(p) = Len(q) - n
      /\ Len(q) \in Nat
      /\ \A i \in 1 .. n : a[i] = q[i] 
      /\ \A i \in 1 .. Len(q) - n : p[i] = q[n + i]
  OBVIOUS
<1> HIDE DEF a, p
<1>2. /\ a \o p \in Seq(S) /\ Len(a \o p) = Len(q)
      /\ \A i \in 1 .. Len(q) : (a \o p)[i] = IF i <= n THEN a[i] ELSE p[i - n]
  BY <1>1, ConcatFacts
<1>3. \A i \in 1 .. Len(q) : (a \o p)[i] = q[i]
  BY <1>1, <1>2
<1>4. a \o p = q
  BY <1>2, <1>3, SeqEqual
<1> QED
  BY <1>1, <1>4 DEF Hold, a, p

\* A rotated sequence holds what it held.
LEMMA RotationHolds ==
    ASSUME NEW S, NEW q \in Seq(S), IsInjective(q), ToSet(q) = S, NEW n \in 0 .. Len(q)
    PROVE  LET r == SubSeq(q, Len(q) - n + 1, Len(q)) \o SubSeq(q, 1, Len(q) - n)
           IN  r \in Seq(S) /\ IsInjective(r) /\ ToSet(r) = S /\ Len(r) = Len(q)
<1> DEFINE a == SubSeq(q, Len(q) - n + 1, Len(q))
<1> DEFINE p == SubSeq(q, 1, Len(q) - n)
<1> DEFINE r == a \o p
<1>1. /\ a \in Seq(S) /\ p \in Seq(S) /\ Len(p) = Len(q) - n /\ Len(a) = n
      /\ Len(q) \in Nat
      /\ \A i \in 1 .. n : a[i] = q[Len(q) - n + i]
      /\ \A i \in 1 .. Len(q) - n : p[i] = q[i]
  OBVIOUS
<1> HIDE DEF a, p
<1>2. /\ r \in Seq(S) /\ Len(r) = Len(q) /\ DOMAIN r = 1 .. Len(q) /\ DOMAIN q = 1 .. Len(q)
      /\ \A i \in 1 .. Len(q) : r[i] = IF i <= n THEN a[i] ELSE p[i - n]
  BY <1>1, ConcatFacts
<1> HIDE DEF r
<1>3. \A i \in 1 .. Len(q) : r[i] = q[IF i <= n THEN Len(q) - n + i ELSE i - n]
  BY SMTT(60), <1>1, <1>2
<1>4. \A i \in 1 .. Len(q) : q[i] = r[IF i > Len(q) - n THEN i - (Len(q) - n) ELSE i + n]
  <2> TAKE i \in 1 .. Len(q)
  <2>1. CASE i > Len(q) - n
    <3>1. i - (Len(q) - n) \in 1 .. n /\ i - (Len(q) - n) \in 1 .. Len(q)
          /\ Len(q) - n + (i - (Len(q) - n)) = i
      BY <1>1, <2>1
    <3>2. \A k \in 1 .. n : r[k] = q[Len(q) - n + k]
      <4> TAKE k \in 1 .. n
      <4>1. k \in 1 .. Len(q) /\ k <= n
        BY <1>1
      <4> QED
        BY <1>3, <4>1
    <3>3. r[i - (Len(q) - n)] = q[i]
      BY <3>1, <3>2
    <3> QED
      BY <2>1, <3>3
  <2>2. CASE ~ i > Len(q) - n
    <3>1. i + n \in 1 .. Len(q) /\ ~ (i + n <= n) /\ (i + n) - n = i
      BY <1>1, <2>2
    <3> QED
      BY <1>1, <1>3, <2>2, <3>1
  <2> QED
    BY <2>1, <2>2
<1>5. \A i, j \in 1 .. Len(q) : q[i] = q[j] => i = j
  BY <1>2 DEF IsInjective
<1>6. IsInjective(r)
  <2> SUFFICES ASSUME NEW i \in 1 .. Len(q), NEW j \in 1 .. Len(q), r[i] = r[j] PROVE i = j
    BY <1>2 DEF IsInjective
  <2> DEFINE k(x) == IF x <= n THEN Len(q) - n + x ELSE x - n
  <2>1. k(i) \in 1 .. Len(q) /\ k(j) \in 1 .. Len(q) /\ q[k(i)] = q[k(j)]
    BY <1>1, <1>3
  <2>2. k(i) = k(j)
    BY <1>5, <2>1
  <2> QED
    BY <1>1, <2>2
<1>7. ToSet(r) = {r[i] : i \in 1 .. Len(q)} /\ ToSet(q) = {q[i] : i \in 1 .. Len(q)}
  BY <1>2, ToSetIsImage
<1>8. ASSUME NEW x \in ToSet(r) PROVE x \in ToSet(q)
  BY <1>2, ToSetIsImage
<1>9. ASSUME NEW x \in ToSet(q) PROVE x \in ToSet(r)
  <2>1. PICK i \in 1 .. Len(q) : x = q[i]
    BY <1>7
  <2> DEFINE k == IF i > Len(q) - n THEN i - (Len(q) - n) ELSE i + n
  <2>2. k \in 1 .. Len(q) /\ x = r[k]
    BY <1>1, <1>4, <2>1
  <2> QED
    BY <1>7, <2>2
<1> QED
  BY <1>2, <1>6, <1>8, <1>9 DEF r, a, p

LEMMA RebalancedHolds ==
    ASSUME NEW S, NEW a, NEW p, Hold(a, p, S)
    PROVE  Hold(Rebalanced(a, p)[1], Rebalanced(a, p)[2], S)
<1> DEFINE all == a \o p
<1> DEFINE size == Len(all)
<1> DEFINE half == (size + 1) \div 2
<1> DEFINE first == IF Len(a) > Len(p) THEN size \div 2 ELSE Len(a)
<1> DEFINE moved == half - first
<1> DEFINE turned == SubSeq(all, size - moved + 1, size) \o SubSeq(all, 1, size - moved)
<1>1. all \in Seq(S) /\ IsInjective(all) /\ ToSet(all) = S /\ size = Len(a) + Len(p)
      /\ Len(a) \in Nat /\ Len(p) \in Nat
  BY ConcatFacts DEF Hold
<1> HIDE DEF all
<1>2. half \in 0 .. size /\ moved \in 0 .. size
  <2>1. \A m \in Nat : m \div 2 \in Nat /\ 2 * (m \div 2) <= m /\ m <= 2 * (m \div 2) + 1
    OBVIOUS
  <2>2. size \in Nat /\ size + 1 \in Nat
    BY <1>1
  <2>3. /\ half \in Nat /\ 2 * half <= size + 1 /\ size <= 2 * half
        /\ size \div 2 \in Nat /\ 2 * (size \div 2) <= size
    BY <2>1, <2>2
  <2>4. first \in 0 .. half /\ half <= size
    <3> HIDE DEF half
    <3> QED
      BY <1>1, <2>2, <2>3
  <2> HIDE DEF half, first
  <2> QED
    BY <2>2, <2>3, <2>4
<1>3. turned \in Seq(S) /\ IsInjective(turned) /\ ToSet(turned) = S /\ Len(turned) = size
  <2> HIDE DEF moved
  <2> QED
    BY <1>1, <1>2, RotationHolds
<1>4. Hold(SubSeq(turned, 1, half), SubSeq(turned, half + 1, size), S)
  <2> HIDE DEF turned, half
  <2> QED
    BY <1>2, <1>3, CutHolds
<1>5. Rebalanced(a, p) = <<SubSeq(turned, 1, half), SubSeq(turned, half + 1, size)>>
  BY DEF Rebalanced, all
<1> HIDE DEF turned, half, size
<1> QED
  BY <1>4, <1>5

LEMMA RebalancedTypes ==
    ASSUME NEW S, NEW a \in Seq(S), NEW p \in Seq(S)
    PROVE  Rebalanced(a, p)[1] \in Seq(S) /\ Rebalanced(a, p)[2] \in Seq(S)
<1> DEFINE all == a \o p
<1> DEFINE size == Len(all)
<1> DEFINE half == (size + 1) \div 2
<1> DEFINE first == IF Len(a) > Len(p) THEN size \div 2 ELSE Len(a)
<1> DEFINE moved == half - first
<1> DEFINE turned == SubSeq(all, size - moved + 1, size) \o SubSeq(all, 1, size - moved)
<1>1. all \in Seq(S) /\ size = Len(a) + Len(p) /\ Len(a) \in Nat /\ Len(p) \in Nat
  BY ConcatFacts
<1> HIDE DEF all
<1>2. half \in 0 .. size /\ moved \in 0 .. size
  <2>1. \A m \in Nat : m \div 2 \in Nat /\ 2 * (m \div 2) <= m /\ m <= 2 * (m \div 2) + 1
    OBVIOUS
  <2>2. size \in Nat /\ size + 1 \in Nat
    BY <1>1
  <2>3. /\ half \in Nat /\ 2 * half <= size + 1 /\ size <= 2 * half
        /\ size \div 2 \in Nat /\ 2 * (size \div 2) <= size
    BY <2>1, <2>2
  <2>4. first \in 0 .. half /\ half <= size
    <3> HIDE DEF half
    <3> QED
      BY <1>1, <2>2, <2>3
  <2> HIDE DEF half, first
  <2> QED
    BY <2>2, <2>3, <2>4
<1>3. \A q \in Seq(S) : \A n \in 0 .. Len(q) : SubSeq(q, 1, n) \in Seq(S) /\ SubSeq(q, n + 1, Len(q)) \in Seq(S)
  OBVIOUS
<1>4. turned \in Seq(S) /\ Len(turned) = size
  <2> DEFINE b == SubSeq(all, size - moved + 1, size)  c == SubSeq(all, 1, size - moved)
  <2>1. size - moved \in 0 .. size /\ size \in Nat
    <3> HIDE DEF moved
    <3> QED
      BY <1>1, <1>2
  <2>2. b \in Seq(S) /\ c \in Seq(S) /\ Len(b) = moved /\ Len(c) = size - moved
    <3> HIDE DEF moved
    <3> QED
      BY <1>1, <1>2, <2>1
  <2> HIDE DEF b, c
  <2>3. b \o c \in Seq(S) /\ Len(b \o c) = Len(b) + Len(c)
    BY <2>2, ConcatFacts
  <2> HIDE DEF moved
  <2>4. moved + (size - moved) = size
    BY <1>2, <2>1
  <2> QED
    BY <2>2, <2>3, <2>4 DEF b, c
<1>5. Rebalanced(a, p) = <<SubSeq(turned, 1, half), SubSeq(turned, half + 1, size)>>
  BY DEF Rebalanced, all
<1> HIDE DEF turned, half, size
<1>6. SubSeq(turned, 1, half) \in Seq(S) /\ SubSeq(turned, half + 1, size) \in Seq(S)
  BY ONLY <1>2, <1>3, <1>4
<1> QED
  BY ONLY <1>5, <1>6

LEMMA AcquiredHolds ==
    ASSUME NEW S, NEW a, NEW p, Hold(a, p, S), NEW w, w \notin S
    PROVE  Hold(Acquired(<<a, p>>, w)[1], Acquired(<<a, p>>, w)[2], S \cup {w})
<1> DEFINE T == S \cup {w}
<1> DEFINE b == <<w>> \o a
<1>1. a \in Seq(S) /\ p \in Seq(S) /\ a \in Seq(T) /\ p \in Seq(T) /\ <<w>> \in Seq(T)
  BY DEF Hold
<1>2. /\ b \in Seq(T) /\ Len(b) = Len(a) + 1 /\ Len(a) \in Nat /\ Len(p) \in Nat
      /\ \A i \in 1 .. Len(a) + 1 : b[i] = IF i = 1 THEN w ELSE a[i - 1]
  BY <1>1, ConcatFacts
<1>3. /\ a \o p \in Seq(S) /\ Len(a \o p) = Len(a) + Len(p) /\ DOMAIN (a \o p) = 1 .. Len(a) + Len(p)
      /\ \A i \in 1 .. Len(a) + Len(p) : (a \o p)[i] = IF i <= Len(a) THEN a[i] ELSE p[i - Len(a)]
      /\ \A i \in 1 .. Len(a) + Len(p) : (a \o p)[i] \in S
  BY <1>1, ConcatFacts
<1> HIDE DEF b, T
<1>4. /\ b \o p \in Seq(T) /\ DOMAIN (b \o p) = 1 .. Len(a) + 1 + Len(p)
      /\ \A i \in 1 .. Len(a) + 1 + Len(p) : (b \o p)[i] = IF i <= Len(a) + 1 THEN b[i] ELSE p[i - (Len(a) + 1)]
  <2>1. p \in Seq(T)
    BY <1>1 DEF T
  <2>2. /\ b \o p \in Seq(T) /\ Len(b \o p) = Len(b) + Len(p)
        /\ \A i \in 1 .. Len(b) + Len(p) : (b \o p)[i] = IF i <= Len(b) THEN b[i] ELSE p[i - Len(b)]
    BY <1>2, <2>1, ConcatFacts
  <2>3. DOMAIN (b \o p) = 1 .. Len(b \o p)
    BY <2>2
  <2> QED
    BY <1>2, <2>2, <2>3
<1>5. \A i \in 1 .. Len(a) + 1 + Len(p) : (b \o p)[i] = IF i = 1 THEN w ELSE (a \o p)[i - 1]
  BY <1>2, <1>3, <1>4
<1>6. IsInjective(b \o p)
  <2> SUFFICES ASSUME NEW i \in 1 .. Len(a) + 1 + Len(p), NEW j \in 1 .. Len(a) + 1 + Len(p),
                      (b \o p)[i] = (b \o p)[j]
               PROVE  i = j
    BY <1>4 DEF IsInjective
  <2>1. \A k, l \in 1 .. Len(a) + Len(p) : (a \o p)[k] = (a \o p)[l] => k = l
    BY <1>3 DEF Hold, IsInjective
  <2>2. CASE i = 1
    BY SMTT(60), <1>2, <1>3, <1>5, <2>2
  <2>3. CASE j = 1
    BY <1>2, <1>3, <1>5, <2>3
  <2>4. CASE i # 1 /\ j # 1
    <3>1. i - 1 \in 1 .. Len(a) + Len(p) /\ j - 1 \in 1 .. Len(a) + Len(p)
          /\ (a \o p)[i - 1] = (a \o p)[j - 1]
      BY SMTT(60), <1>2, <1>5, <2>4
    <3>2. i - 1 = j - 1
      BY <2>1, <3>1
    <3> QED
      BY <3>2
  <2> QED
    BY <2>2, <2>3, <2>4
<1>7. ToSet(b \o p) = T
  <2>1. ToSet(<<w>>) = {w}
    BY DEF ToSet
  <2>2. ToSet(b) = {w} \cup ToSet(a)
    <3>1. a \in Seq(T) /\ <<w>> \in Seq(T)
      BY <1>1 DEF T
    <3>2. ToSet(<<w>> \o a) = ToSet(<<w>>) \cup ToSet(a)
      <4>1. \A q \in Seq(T) : \A r \in Seq(T) : ToSet(q \o r) = ToSet(q) \cup ToSet(r)
        <5> HIDE DEF T
        <5> QED
          BY ONLY ToSetConcat
      <4>2. PICK c \in Seq(T) : c = <<w>>
        BY <3>1
      <4> HIDE DEF T
      <4>3. ToSet(c \o a) = ToSet(c) \cup ToSet(a)
        BY ONLY <3>1, <4>1
      <4> QED
        BY ONLY <4>2, <4>3
    <3> QED
      BY <2>1, <3>2 DEF b
  <2>3. ToSet(b \o p) = {w} \cup ToSet(a) \cup ToSet(p)
    BY <1>1, <1>2, <2>2, ToSetConcat DEF T
  <2> QED
    BY <2>3, HoldFacts DEF T
<1>8. Hold(b, p, T)
  BY <1>1, <1>2, <1>6, <1>7 DEF Hold, T
<1> QED
  BY <1>8, RebalancedHolds DEF Acquired, b, T

LEMMA WithoutHolds ==
    ASSUME NEW S, NEW a, NEW p, Hold(a, p, S), NEW w \in S
    PROVE  Hold(Without(a, w), Without(p, w), S \ {w})
<1> DEFINE T == S \ {w}
<1>1. /\ a \in Seq(S) /\ p \in Seq(S) /\ ToSet(a) \cup ToSet(p) = S
      /\ Len(a) \in Nat /\ Len(p) \in Nat
  BY HoldFacts DEF Hold
<1>2. /\ \A i, j \in 1 .. Len(a) : a[i] = a[j] => i = j
      /\ \A i, j \in 1 .. Len(p) : p[i] = p[j] => i = j
      /\ \A i \in 1 .. Len(a), j \in 1 .. Len(p) : a[i] # p[j]
  <2>1. /\ a \o p \in Seq(S) /\ Len(a \o p) = Len(a) + Len(p) /\ DOMAIN (a \o p) = 1 .. Len(a) + Len(p)
        /\ \A i \in 1 .. Len(a) + Len(p) : (a \o p)[i] = IF i <= Len(a) THEN a[i] ELSE p[i - Len(a)]
    BY <1>1, ConcatFacts
  <2>2. \A k, l \in 1 .. Len(a) + Len(p) : (a \o p)[k] = (a \o p)[l] => k = l
    BY <2>1 DEF Hold, IsInjective
  <2>3. \A i \in 1 .. Len(a) : i \in 1 .. Len(a) + Len(p) /\ (a \o p)[i] = a[i]
    BY <1>1, <2>1
  <2>4. \A j \in 1 .. Len(p) : /\ j + Len(a) \in 1 .. Len(a) + Len(p)
                                /\ (a \o p)[j + Len(a)] = p[j] /\ j + Len(a) > Len(a)
    BY <1>1, <2>1
  <2>5. \A i, j \in 1 .. Len(p) : i + Len(a) = j + Len(a) => i = j
    BY <1>1
  <2>6. \A i \in 1 .. Len(a), j \in 1 .. Len(p) : i # j + Len(a)
    BY <1>1
  <2> QED
    BY <2>2, <2>3, <2>4, <2>5, <2>6
<1>3. ASSUME NEW q \in Seq(S), \A i, j \in 1 .. Len(q) : q[i] = q[j] => i = j
      PROVE  /\ Without(q, w) \in Seq(T)
             /\ \A i, j \in 1 .. Len(Without(q, w)) : Without(q, w)[i] = Without(q, w)[j] => i = j
             /\ ToSet(Without(q, w)) = ToSet(q) \ {w}
  <2>1. ToSet(q) = {q[i] : i \in 1 .. Len(q)} /\ DOMAIN q = 1 .. Len(q) /\ Len(q) \in Nat
    BY ToSetIsImage
  <2>2. CASE w \notin ToSet(q)
    <3>1. Without(q, w) = q
      BY <2>2 DEF Without
    <3>2. \A i \in 1 .. Len(q) : q[i] \in T
      BY <2>1, <2>2
    <3>3. q \in Seq(T)
      BY <2>1, <3>2, SeqDef
    <3> QED
      BY <1>3, <2>2, <3>1, <3>3
  <2>3. CASE w \in ToSet(q)
    <3> DEFINE k == CHOOSE i \in DOMAIN q : q[i] = w
    <3>1. k \in 1 .. Len(q) /\ q[k] = w
      BY <2>1, <2>3
    <3> HIDE DEF k
    <3> DEFINE b == SubSeq(q, 1, k - 1)
    <3> DEFINE c == SubSeq(q, k + 1, Len(q))
    <3> DEFINE r == b \o c
    <3>2. /\ b \in Seq(S) /\ c \in Seq(S) /\ Len(b) = k - 1 /\ Len(c) = Len(q) - k
          /\ \A i \in 1 .. k - 1 : b[i] = q[i]
          /\ \A i \in 1 .. Len(q) - k : c[i] = q[k + i]
      <4>1. b \in Seq(S) /\ Len(b) = k - 1 /\ \A i \in 1 .. k - 1 : b[i] = q[i]
        BY <2>1, <3>1
      <4>2. c \in Seq(S) /\ Len(c) = Len(q) - k
        <5>1. \A i \in k + 1 .. Len(q) : q[i] \in S
          BY <2>1, <3>1
        <5>2. c \in Seq(S) /\ Len(c) = IF k + 1 <= Len(q) THEN Len(q) - (k + 1) + 1 ELSE 0
          BY <2>1, <3>1, <5>1, SubSeqProperties
        <5>3. k \in Int /\ Len(q) \in Int /\ k <= Len(q)
          BY <2>1, <3>1
        <5>4. (IF k + 1 <= Len(q) THEN Len(q) - (k + 1) + 1 ELSE 0) = Len(q) - k
          BY ONLY <5>3
        <5> QED
          BY ONLY <5>2, <5>4
      <4>3. \A i \in 1 .. Len(q) - k : c[i] = q[k + i]
        <5> TAKE i \in 1 .. Len(q) - k
        <5>1. k + 1 \in Nat /\ i \in 1 .. Len(q) - (k + 1) + 1 /\ (k + 1) + i - 1 = k + i
          BY <2>1, <3>1
        <5>2. c[i] = q[(k + 1) + i - 1]
          BY <2>1, <3>1, <5>1, SubSeqProperties
        <5> QED
          BY <5>1, <5>2
      <4> QED
        BY <4>1, <4>2, <4>3
    <3> HIDE DEF b, c
    <3>3. /\ r \in Seq(S) /\ Len(r) = Len(q) - 1 /\ DOMAIN r = 1 .. Len(q) - 1
          /\ \A i \in 1 .. Len(q) - 1 : r[i] = IF i <= k - 1 THEN b[i] ELSE c[i - (k - 1)]
      <4>1. /\ r \in Seq(S) /\ Len(r) = Len(b) + Len(c)
            /\ \A i \in 1 .. Len(b) + Len(c) : r[i] = IF i <= Len(b) THEN b[i] ELSE c[i - Len(b)]
        BY <3>2, ConcatFacts
      <4>2. Len(b) + Len(c) = Len(q) - 1
        BY <2>1, <3>1, <3>2
      <4>3. DOMAIN r = 1 .. Len(r)
        BY <4>1
      <4> QED
        BY <3>2, <4>1, <4>2, <4>3
    <3>4. Without(q, w) = r
      BY <2>3 DEF Without, RemoveAt, r, b, c, k
    <3> HIDE DEF r
    <3>5. \A i \in 1 .. Len(q) - 1 : IF i < k THEN r[i] = q[i] ELSE r[i] = q[i + 1]
      <4> TAKE i \in 1 .. Len(q) - 1
      <4>1. CASE i < k
        <5>1. i \in 1 .. k - 1 /\ i <= k - 1
          BY <2>1, <3>1, <4>1
        <5> QED
          BY <3>2, <3>3, <4>1, <5>1
      <4>2. CASE ~ i < k
        <5>1. i - (k - 1) \in 1 .. Len(q) - k /\ k + (i - (k - 1)) = i + 1
          BY <2>1, <3>1, <4>2
        <5> QED
          BY SMTT(60), <2>1, <3>1, <3>2, <3>3, <4>2, <5>1
      <4> QED
        BY <4>1, <4>2
    <3>6. \A i \in 1 .. Len(q) : i # k => q[i] # w /\ q[i] \in S
      BY <1>3, <2>1, <3>1
    <3>7. \A i \in 1 .. Len(q) - 1 : r[i] \in T
      <4> TAKE i \in 1 .. Len(q) - 1
      <4>1. i \in 1 .. Len(q) /\ i + 1 \in 1 .. Len(q) /\ (i >= k => i + 1 # k) /\ (i < k => i # k)
        BY <2>1, <3>1
      <4> QED
        BY <3>1, <3>5, <3>6, <4>1
    <3>8. r \in Seq(T)
      BY <3>3, <3>7, SeqDef
    <3>9. ASSUME NEW i \in 1 .. Len(q) - 1, NEW j \in 1 .. Len(q) - 1, r[i] = r[j] PROVE i = j
      <4> DEFINE f(x) == IF x < k THEN x ELSE x + 1
      <4>1. f(i) \in 1 .. Len(q) /\ f(j) \in 1 .. Len(q) /\ q[f(i)] = q[f(j)]
        BY <2>1, <3>1, <3>5, <3>9
      <4>2. f(i) = f(j)
        BY <1>3, <4>1
      <4> QED
        BY <3>1, <4>2
    <3>10. ToSet(r) = {r[i] : i \in 1 .. Len(q) - 1}
      BY <3>3, ToSetIsImage
    <3>11. ASSUME NEW x \in ToSet(q) \ {w} PROVE x \in ToSet(r)
      <4>1. PICK i \in 1 .. Len(q) : x = q[i] /\ i # k
        BY <2>1, <3>1, <3>11
      <4>2. CASE i < k
        BY <2>1, <3>1, <3>5, <3>10, <4>1, <4>2
      <4>3. CASE i > k
        <5>1. i - 1 \in 1 .. Len(q) - 1 /\ ~ (i - 1 < k) /\ (i - 1) + 1 = i
          BY <2>1, <3>1, <4>3
        <5>2. r[i - 1] = q[i]
          BY <3>5, <5>1
        <5> QED
          BY <3>10, <4>1, <5>1, <5>2
      <4> QED
        BY <3>1, <4>1, <4>2, <4>3
    <3>12. ASSUME NEW x \in ToSet(r) PROVE x \in ToSet(q) \ {w}
      <4>1. PICK i \in 1 .. Len(q) - 1 : x = r[i]
        BY <3>10, <3>12
      <4>2. i \in 1 .. Len(q) /\ i + 1 \in 1 .. Len(q)
        BY <2>1
      <4>3. x \in T
        BY <3>7, <4>1
      <4> QED
        BY <2>1, <3>5, <4>1, <4>2, <4>3
    <3> QED
      BY <3>3, <3>4, <3>8, <3>9, <3>11, <3>12
  <2> QED
    BY <2>2, <2>3
<1> DEFINE b == Without(a, w)
<1> DEFINE r == Without(p, w)
<1>4. /\ b \in Seq(T) /\ r \in Seq(T)
      /\ \A i, j \in 1 .. Len(b) : b[i] = b[j] => i = j
      /\ \A i, j \in 1 .. Len(r) : r[i] = r[j] => i = j
      /\ ToSet(b) = ToSet(a) \ {w} /\ ToSet(r) = ToSet(p) \ {w}
  BY <1>1, <1>2, <1>3
<1> HIDE DEF b, r, T
<1>5. /\ b \o r \in Seq(T) /\ Len(b) \in Nat /\ Len(r) \in Nat /\ DOMAIN (b \o r) = 1 .. Len(b) + Len(r)
      /\ \A i \in 1 .. Len(b) + Len(r) : (b \o r)[i] = IF i <= Len(b) THEN b[i] ELSE r[i - Len(b)]
  BY <1>4, ConcatFacts
<1>6. ToSet(a) \cap ToSet(p) = {}
  BY <1>1, <1>2, ToSetIsImage
<1>7. \A i \in 1 .. Len(b), j \in 1 .. Len(r) : b[i] # r[j]
  <2>1. ToSet(b) = {b[i] : i \in 1 .. Len(b)} /\ ToSet(r) = {r[i] : i \in 1 .. Len(r)}
    BY <1>4, ToSetIsImage
  <2> QED
    BY SMTT(60), <1>4, <1>6, <2>1
<1>8. IsInjective(b \o r)
  <2> SUFFICES ASSUME NEW i \in 1 .. Len(b) + Len(r), NEW j \in 1 .. Len(b) + Len(r),
                      (b \o r)[i] = (b \o r)[j]
               PROVE  i = j
    BY <1>5 DEF IsInjective
  <2>1. CASE i <= Len(b) /\ j <= Len(b)
    BY <1>4, <1>5, <2>1
  <2>2. CASE i > Len(b) /\ j > Len(b)
    <3>1. i - Len(b) \in 1 .. Len(r) /\ j - Len(b) \in 1 .. Len(r)
      BY <1>5, <2>2
    <3>2. r[i - Len(b)] = r[j - Len(b)]
      BY <1>5, <2>2
    <3>3. i - Len(b) = j - Len(b)
      BY <1>4, <3>1, <3>2
    <3> QED
      BY <1>5, <3>3
  <2>3. CASE i <= Len(b) /\ j > Len(b)
    <3>1. i \in 1 .. Len(b) /\ j - Len(b) \in 1 .. Len(r) /\ b[i] = r[j - Len(b)]
      BY <1>5, <2>3
    <3> QED
      BY <1>7, <3>1
  <2>4. CASE i > Len(b) /\ j <= Len(b)
    <3>1. j \in 1 .. Len(b) /\ i - Len(b) \in 1 .. Len(r) /\ b[j] = r[i - Len(b)]
      BY <1>5, <2>4
    <3> QED
      BY <1>7, <3>1
  <2> QED
    BY <1>5, <2>1, <2>2, <2>3, <2>4
<1>9. ToSet(b \o r) = T
  <2>1. ToSet(b \o r) = ToSet(b) \cup ToSet(r)
    BY <1>4, ToSetConcat
  <2> QED
    BY <1>1, <1>4, <2>1 DEF T
<1> QED
  BY <1>4, <1>8, <1>9 DEF Hold, T, b, r

-----------------------------------------------------------------------------
(* Types and control *)

InTask == {"run", "checkClosed", "push", "prohibit", "toLifo", "toLocal", "offloadGrab",
           "offloadCheck", "offload", "awakeOne"}
Seeking == {"pick", "tick", "lifo", "grab", "allow", "regrab", "spread", "impudence", "victim",
            "lowSize", "steal", "park"}
Absent == {"new", "parked", "leave", "exited"}
ClientLabels == {"idle", "checkClosed", "push", "prohibit", "waitGlobal", "waitWorkers", "stop",
                 "drain", "awakeAll", "join", "stopped", "crashed"}
WorkerLabels == InTask \cup Seeking \cup Absent \cup {"crashed"}

\* Where arg[t] is a task on its way into a queue.
Placing == {"checkClosed", "push", "toLifo", "toLocal", "offloadGrab"}

Labels ==
    /\ pc \in [Threads -> WorkerLabels \cup ClientLabels]
    /\ \A w \in Workers : pc[w] \in WorkerLabels
    /\ \A c \in Clients : pc[c] \in ClientLabels

\* What the queues, the slots and the locals of a worker may hold.
GlobalTypes == /\ children \in [Tasks -> SUBSET (Tasks \ Roots)]
               /\ global \in Seq(Items) /\ closed \in BOOLEAN /\ outstanding \in Nat
SleepTypes == /\ permission \in {"Allowed", "TemporaryProhibited", "PermanentlyProhibited"}
              /\ asleep \subseteq Workers /\ woken \subseteq Workers
              /\ stopped \in [Workers -> BOOLEAN]
QueueTypes == local \in [Workers -> Seq(Items)] /\ buffer \in [Workers -> Seq(Items)]
SlotTypes == /\ lifo \in [Workers -> Tasks \cup {Null}]
             /\ usage \in [Workers -> 0 .. LifoLimit] /\ cycle \in [Workers -> 0 .. CycleLimit - 1]
             /\ arg \in [Threads -> Tasks \cup {Null}]
StealTypes == /\ series \in [Workers -> Nat]
              /\ victim \in [Workers -> 0 .. N] /\ limit \in [Workers -> Nat]
RunTypes == /\ current \in [Workers -> Items \cup {Null}] /\ todo \in [Workers -> SUBSET Tasks]
            /\ handed \subseteq Tasks /\ done \subseteq Tasks
Types == GlobalTypes /\ SleepTypes /\ QueueTypes /\ SlotTypes /\ StealTypes /\ RunTypes

Control ==
    /\ \A t \in Threads : pc[t] \in Placing => arg[t] \in Tasks
    /\ \A w \in Workers :
          /\ Len(local[w]) <= Capacity
          /\ pc[w] \in InTask => current[w] \in Tasks
          /\ pc[w] \notin InTask \cup {"crashed"} => current[w] = Null
          /\ pc[w] = "spread" => buffer[w] # <<>>
          /\ pc[w] \in {"lowSize", "steal"} => victim[w] \in Workers
          /\ pc[w] \in {"grab", "allow", "regrab", "impudence", "victim", "lowSize", "steal", "park",
                        "parked"} => usage[w] = 0

\* The waiter of the global queue.
Waiter == /\ OutstandingIsNonEmpty
          /\ global # <<>> => outstanding > 0
          /\ \A c \in Clients : pc[c] = "drain" => closed

\* Where a worker's own queues are empty.
Hands ==
    \A w \in Workers :
        /\ pc[w] \in {"grab", "allow", "regrab", "spread", "impudence", "victim", "lowSize", "steal",
                      "park", "parked", "exited"} => local[w] = <<>>
        /\ pc[w] \in {"park", "parked", "exited"} => lifo[w] = Null
        /\ pc[w] \notin {"spread", "offloadCheck", "offload", "awakeOne", "crashed"} => buffer[w] = <<>>
        /\ pc[w] = "spread" => Len(buffer[w]) <= Capacity

Basic == Types /\ Labels /\ Control /\ Waiter /\ Hands
LEMMA Steps ==
    ASSUME [Next]_vars
    PROVE  \/ \E w \in Workers : Construct(w)
           \/ /\ GoesOn
              /\ \/ \E t \in Threads : \/ \E x \in Tasks, hint \in {"Next", "UpToYou", "Slow"} : Execute(t, x, hint)
                                       \/ CheckClosed(t) \/ PushOne(t) \/ ProhibitAfterPush(t)
                 \/ \E w \in Workers :
                       \/ Refuse(w) \/ PushToLifoSlot(w) \/ PushToLocalQueue(w) \/ LocalQueueFull(w)
                       \/ OffloadGrab(w) \/ OffloadCheck(w) \/ Offload(w) \/ AwakeAfterOffload(w)
                       \/ StartPass(w) \/ Tick(w) \/ TakeLifo(w) \/ Pop(w) \/ PopNothing(w)
                       \/ GrabGlobal(w) \/ GrabNothing(w) \/ AllowAfterGrab(w) \/ Spread(w)
                       \/ CheckImpudence(w) \/ (\E v \in Workers : GiveVictim(w, v)) \/ NoVictim(w)
                       \/ LowSize(w) \/ Steal(w) \/ TryParkMe(w) \/ WakeUp(w)
                       \/ LeaveLoop(w) \/ DiscardOwn(w) \/ RunReturns(w) \/ RunThrows(w)
                 \/ \E c \in Clients :
                       \/ WaitIdle(c) \/ GlobalIsZero(c) \/ AwakeIsZero(c) \/ Stop(c) \/ StopWorker(c)
                       \/ StopGlobal(c) \/ DrainGlobal(c) \/ AwakeAll(c) \/ Join(c)
           \/ UNCHANGED vars
<1>1. CASE \E w \in Workers : Construct(w)
  BY <1>1
<1>2. CASE GoesOn /\ \E w \in Workers : WorkerStep(w)
  BY <1>2 DEF WorkerStep, PickNextTask, WorkerSubmission, Submission, Threads
<1>3. CASE GoesOn /\ \E c \in Clients : ClientStep(c) \/ \E x \in Roots : Execute(c, x, "UpToYou")
  BY <1>3, FastPoolAssumption DEF ClientStep, Submission, Threads
<1>4. CASE GoesOn /\ ((\E c \in Waiters : WaitIdle(c)) \/ \E c \in Stoppers : Stop(c))
  BY <1>4, FastPoolAssumption
<1> QED
  BY <1>1, <1>2, <1>3, <1>4 DEF Next

LEMMA ItemFacts ==
    /\ Tasks \subseteq Items /\ Garbage \in Items /\ Null \notin Tasks /\ Garbage \notin Tasks
    /\ \A q \in Seq(Items) : q # <<>> => Head(q) \in Items /\ Tail(q) \in Seq(Items)
    /\ \A q, r \in Seq(Items) : q \o r \in Seq(Items)
    /\ \A x \in Items : <<x>> \in Seq(Items)
  BY FastPoolAssumption DEF Items

\* A queue cut in two.
LEMMA CutFacts ==
    ASSUME NEW S, NEW q \in Seq(S), NEW n \in 0 .. Len(q)
    PROVE  /\ SubSeq(q, 1, n) \in Seq(S) /\ SubSeq(q, n + 1, Len(q)) \in Seq(S)
           /\ Len(SubSeq(q, 1, n)) = n /\ Len(SubSeq(q, n + 1, Len(q))) = Len(q) - n
  OBVIOUS

LEMMA CapacityFacts == Capacity \div 2 \in Nat /\ Capacity \div 2 > 0 /\ Capacity \div 2 < Capacity
<1>1. \A m \in Nat \ {0} : m % 2 = 0 => m \div 2 \in Nat /\ m \div 2 > 0 /\ m \div 2 < m
  OBVIOUS
<1> QED
  BY <1>1, FastPoolAssumption

LEMMA OffloadedIsSeq == ASSUME QueueTypes, NEW w \in Workers PROVE Offloaded(w) \in Seq(Items)
<1>1. Capacity \div 2 + 1 - Len(buffer[w]) \in Int /\ Garbage \in Items
  BY CapacityFacts, ItemFacts DEF QueueTypes
<1>2. \A m \in Int, x \in Items : [i \in 1 .. m |-> x] \in Seq(Items)
  <2> TAKE m \in Int, x \in Items
  <2>1. CASE m >= 0
    BY <2>1
  <2>2. CASE m < 0
    <3>1. 1 .. m = 1 .. 0
      BY <2>2
    <3>2. [i \in 1 .. m |-> x] = [i \in 1 .. 0 |-> x] /\ [i \in 1 .. 0 |-> x] \in Seq(Items)
      BY <3>1
    <3> QED
      BY <3>2
  <2> QED
    BY <2>1, <2>2
<1> QED
  BY <1>1, <1>2 DEF Offloaded

\* What the three steps do that move several tasks at once.
LEMMA GrabEffect ==
    ASSUME global \in Seq(Items), NEW w \in Workers, GrabGlobal(w)
    PROVE  \E n \in 1 .. Len(global) :
              /\ n <= Capacity \div 2
              /\ global' = SubSeq(global, n + 1, Len(global))
              /\ buffer' = [buffer EXCEPT ![w] = SubSeq(global, 1, n)]
              /\ outstanding' = IF n = Len(global) THEN outstanding - 1 ELSE outstanding
<1> DEFINE n == Share(Capacity \div 2, N)
<1>1. n \in Nat /\ n <= Capacity \div 2 /\ n <= Len(global)
  BY CapacityFacts, ShareFits, FastPoolAssumption
<1>2. GrabFront(n) /\ buffer' = [buffer EXCEPT ![w] = SubSeq(global, 1, n)]
  BY DEF GrabGlobal
<1> HIDE DEF n
<1>3. n > 0 /\ n \in 1 .. Len(global)
  BY <1>1, <1>2 DEF GrabFront
<1> QED
  BY <1>1, <1>2, <1>3 DEF GrabFront

LEMMA OffloadEffect ==
    ASSUME NEW w \in Workers, local[w] \in Seq(Items), OffloadGrab(w)
    PROVE  \E n \in 0 .. Len(local[w]) :
              /\ n <= Capacity \div 2
              /\ buffer' = [buffer EXCEPT ![w] = <<arg[w]>> \o SubSeq(local[w], 1, n)]
              /\ local' = [local EXCEPT ![w] = SubSeq(local[w], n + 1, Len(local[w]))]
<1> DEFINE n == Min({Capacity \div 2, Len(local[w])})
<1>1. Len(local[w]) \in Nat /\ Capacity \div 2 \in Nat
  BY CapacityFacts
<1>2. /\ buffer' = [buffer EXCEPT ![w] = <<arg[w]>> \o SubSeq(local[w], 1, n)]
      /\ local' = [local EXCEPT ![w] = SubSeq(local[w], n + 1, Len(local[w]))]
  BY DEF OffloadGrab
<1>3. n \in 0 .. Len(local[w]) /\ n <= Capacity \div 2
  <2>1. n = IF Capacity \div 2 <= Len(local[w]) THEN Capacity \div 2 ELSE Len(local[w])
    BY <1>1, MinOfTwo
  <2> HIDE DEF n
  <2> QED
    BY <1>1, <2>1
<1> HIDE DEF n
<1> QED
  BY <1>2, <1>3

LEMMA StealEffect ==
    ASSUME NEW w \in Workers, victim[w] \in Workers, local[victim[w]] \in Seq(Items),
           limit[w] \in Nat, Steal(w)
    PROVE  \E n \in 0 .. Len(local[victim[w]]) :
              /\ n <= limit[w]
              /\ buffer' = [buffer EXCEPT ![w] = SubSeq(local[victim[w]], 1, n)]
              /\ local' = [local EXCEPT ![victim[w]] =
                              SubSeq(local[victim[w]], n + 1, Len(local[victim[w]]))]
              /\ Goto(w, IF n = 0 THEN "victim" ELSE "spread")
<1> DEFINE n == Min({limit[w], Len(local[victim[w]])})
<1>1. Len(local[victim[w]]) \in Nat
  OBVIOUS
<1>2. /\ buffer' = [buffer EXCEPT ![w] = SubSeq(local[victim[w]], 1, n)]
      /\ local' = [local EXCEPT ![victim[w]] =
                      SubSeq(local[victim[w]], n + 1, Len(local[victim[w]]))]
      /\ Goto(w, IF n = 0 THEN "victim" ELSE "spread")
  BY DEF Steal
<1>3. n \in 0 .. Len(local[victim[w]]) /\ n <= limit[w]
  <2>1. n = IF limit[w] <= Len(local[victim[w]]) THEN limit[w] ELSE Len(local[victim[w]])
    BY SMTT(60), <1>1, MinOfTwo
  <2> HIDE DEF n
  <2> QED
    BY <1>1, <2>1
<1> HIDE DEF n
<1> QED
  BY <1>2, <1>3

LEMMA NextTypes == ASSUME Types, Control, Waiter, [Next]_vars PROVE Types'
<1> USE FastPoolAssumption, ItemFacts
    DEF Types, GlobalTypes, SleepTypes, QueueTypes, SlotTypes, StealTypes, RunTypes, Threads, Goto,
        globalVars, coordinatorVars, lifoVars, stealVars, runVars, fateVars, submitVars, restVars,
        GoesOn
<1>1. ASSUME NEW w \in Workers, Construct(w) PROVE Types'
  BY <1>1 DEF Construct, Acquire, Lists
<1>2. ASSUME NEW t \in Threads, NEW x \in Tasks, \E hint \in {"Next", "UpToYou", "Slow"} : Execute(t, x, hint), GoesOn PROVE Types'
  <2>1. GlobalTypes' /\ SleepTypes' /\ QueueTypes'
    BY SMTT(60), <1>2 DEF Execute, MaySubmit, Entry
  <2>2. SlotTypes'
    BY SMTT(60), <1>2 DEF Execute, MaySubmit, Entry
  <2>3. StealTypes'
    BY SMTT(60), <1>2 DEF Execute, MaySubmit, Entry
  <2>4. RunTypes'
    BY SMTT(60), <1>2 DEF Execute, MaySubmit, Entry
  <2> QED
    BY <2>1, <2>2, <2>3, <2>4
<1>3. ASSUME NEW t \in Threads, CheckClosed(t), GoesOn PROVE Types'
  BY <1>3 DEF CheckClosed
<1>4. ASSUME NEW t \in Threads, PushOne(t), GoesOn PROVE Types'
  <2>1. GlobalTypes'
    <3>1. arg[t] \in Items
      BY <1>4 DEF PushOne, Control, Placing
    <3> QED
      BY <1>4, <3>1 DEF PushOne, PushBack
  <2>2. SleepTypes' /\ QueueTypes' /\ SlotTypes' /\ StealTypes' /\ RunTypes'
    BY <1>4 DEF PushOne, PushBack
  <2> QED
    BY <2>1, <2>2
<1>5. ASSUME NEW t \in Threads, ProhibitAfterPush(t), GoesOn PROVE Types'
  BY ZenonT(60), <1>5 DEF ProhibitAfterPush, ProhibitParking, Permit, NotifyOne, Wake, Return
<1>6. ASSUME NEW w \in Workers, Refuse(w), GoesOn PROVE Types'
  BY <1>6 DEF Refuse, Return
<1>7. ASSUME NEW w \in Workers, PushToLifoSlot(w), GoesOn PROVE Types'
  <2>1. GlobalTypes' /\ SleepTypes' /\ QueueTypes'
    BY <1>7 DEF PushToLifoSlot, Return
  <2>2. SlotTypes'
    <3>1. arg[w] \in Tasks
      BY <1>7 DEF PushToLifoSlot, Control, Placing
    <3>2. lifo' \in [Workers -> Tasks \cup {Null}]
      BY <1>7, <3>1 DEF PushToLifoSlot
    <3>3. arg' = [arg EXCEPT ![w] = Null] \/ arg' = [arg EXCEPT ![w] = lifo[w]]
      BY <1>7 DEF PushToLifoSlot, Return
    <3> QED
      BY ZenonT(60), <1>7, <3>2, <3>3 DEF PushToLifoSlot
  <2>3. StealTypes' /\ RunTypes'
    BY <1>7 DEF PushToLifoSlot, Return
  <2> QED
    BY <2>1, <2>2, <2>3
<1>8. ASSUME NEW w \in Workers, PushToLocalQueue(w), GoesOn PROVE Types'
  <2>1. QueueTypes'
    <3>1. arg[w] \in Items
      BY <1>8 DEF PushToLocalQueue, Control, Placing
    <3> QED
      BY <1>8, <3>1 DEF PushToLocalQueue
  <2>2. GlobalTypes' /\ SleepTypes' /\ SlotTypes' /\ StealTypes' /\ RunTypes'
    BY <1>8 DEF PushToLocalQueue, Return
  <2> QED
    BY <2>1, <2>2
<1>9. ASSUME NEW w \in Workers, LocalQueueFull(w), GoesOn PROVE Types'
  BY <1>9 DEF LocalQueueFull
<1>10. ASSUME NEW w \in Workers, OffloadGrab(w), GoesOn PROVE Types'
  <2>1. QueueTypes'
    <3>1. arg[w] \in Items /\ local[w] \in Seq(Items)
      BY <1>10 DEF OffloadGrab, Control, Placing
    <3>2. PICK n \in 0 .. Len(local[w]) :
             /\ buffer' = [buffer EXCEPT ![w] = <<arg[w]>> \o SubSeq(local[w], 1, n)]
             /\ local' = [local EXCEPT ![w] = SubSeq(local[w], n + 1, Len(local[w]))]
      BY <1>10, <3>1, OffloadEffect
    <3>3. SubSeq(local[w], 1, n) \in Seq(Items) /\ SubSeq(local[w], n + 1, Len(local[w])) \in Seq(Items)
      BY <3>1, CutFacts
    <3>4. <<arg[w]>> \o SubSeq(local[w], 1, n) \in Seq(Items)
      BY <3>1, <3>3
    <3> QED
      BY <3>2, <3>3, <3>4
  <2>2. GlobalTypes' /\ SleepTypes' /\ SlotTypes' /\ StealTypes' /\ RunTypes'
    BY <1>10 DEF OffloadGrab
  <2> QED
    BY <2>1, <2>2
<1>11. ASSUME NEW w \in Workers, OffloadCheck(w), GoesOn PROVE Types'
  BY <1>11 DEF OffloadCheck
<1>12. ASSUME NEW w \in Workers, Offload(w), GoesOn PROVE Types'
  <2>1. GlobalTypes'
    <3>1. Offloaded(w) \in Seq(Items)
      BY OffloadedIsSeq
    <3> QED
      BY <1>12, <3>1 DEF Offload, PushBack
  <2>2. SleepTypes' /\ QueueTypes' /\ SlotTypes' /\ StealTypes' /\ RunTypes'
    BY <1>12 DEF Offload, PushBack
  <2> QED
    BY <2>1, <2>2
<1>13. ASSUME NEW w \in Workers, AwakeAfterOffload(w), GoesOn PROVE Types'
  <2>1. GlobalTypes'
    BY <1>13 DEF AwakeAfterOffload, AwakeOne, NotifyOne, Wake, Return
  <2>2. SleepTypes'
    BY <1>13 DEF AwakeAfterOffload, AwakeOne, NotifyOne, Wake, Return
  <2>3. QueueTypes'
    BY <1>13 DEF AwakeAfterOffload, AwakeOne, NotifyOne, Wake, Return
  <2>4. SlotTypes' /\ StealTypes' /\ RunTypes'
    BY <1>13 DEF AwakeAfterOffload, AwakeOne, NotifyOne, Wake, Return
  <2> QED
    BY <2>1, <2>2, <2>3, <2>4
<1>14. ASSUME NEW w \in Workers, StartPass(w), GoesOn PROVE Types'
  <2>1. GlobalTypes' /\ SleepTypes' /\ QueueTypes'
    BY <1>14 DEF StartPass
  <2>2. SlotTypes'
    BY SMTT(60), <1>14 DEF StartPass
  <2>3. StealTypes' /\ RunTypes'
    BY <1>14 DEF StartPass
  <2> QED
    BY <2>1, <2>2, <2>3
<1>15. ASSUME NEW w \in Workers, Tick(w), GoesOn PROVE Types'
  BY ZenonT(60), <1>15 DEF Tick, AwakeOne, NotifyOne, Wake
<1>16. ASSUME NEW w \in Workers, TakeLifo(w), GoesOn PROVE Types'
  <2>1. GlobalTypes' /\ SleepTypes' /\ QueueTypes'
    BY <1>16 DEF TakeLifo, Pick
  <2>2. SlotTypes'
    BY SMTT(60), <1>16 DEF TakeLifo, Pick
  <2>3. StealTypes' /\ RunTypes'
    BY <1>16 DEF TakeLifo, Pick
  <2> QED
    BY <2>1, <2>2, <2>3
<1>17. ASSUME NEW w \in Workers, Pop(w), GoesOn PROVE Types'
  <2>1. GlobalTypes' /\ SleepTypes'
    BY <1>17 DEF Pop, SkipLifo, Pick
  <2>2. QueueTypes'
    BY <1>17 DEF Pop, SkipLifo, Pick
  <2>3. SlotTypes' /\ StealTypes'
    BY SMTT(60), <1>17 DEF Pop, SkipLifo, Pick
  <2>4. RunTypes'
    BY <1>17 DEF Pop, SkipLifo, Pick
  <2> QED
    BY <2>1, <2>2, <2>3, <2>4
<1>18. ASSUME NEW w \in Workers, PopNothing(w), GoesOn PROVE Types'
  BY <1>18 DEF PopNothing, SkipLifo
<1>19. ASSUME NEW w \in Workers, GrabGlobal(w), GoesOn PROVE Types'
  <2>1. GlobalTypes'
    <3>1. PICK n \in 1 .. Len(global) :
             /\ global' = SubSeq(global, n + 1, Len(global))
             /\ outstanding' = IF n = Len(global) THEN outstanding - 1 ELSE outstanding
      BY <1>19, GrabEffect
    <3>2. global' \in Seq(Items) /\ global # <<>>
      BY <3>1, CutFacts
    <3>3. outstanding > 0 /\ outstanding' \in Nat
      BY <3>1, <3>2 DEF Waiter
    <3> QED
      BY <1>19, <3>2, <3>3 DEF GrabGlobal, GrabFront
  <2>2. QueueTypes'
    <3>1. PICK n \in 1 .. Len(global) : buffer' = [buffer EXCEPT ![w] = SubSeq(global, 1, n)]
      BY <1>19, GrabEffect
    <3>2. SubSeq(global, 1, n) \in Seq(Items) 
      BY <3>1, CutFacts
    <3>3. local \in [Workers -> Seq(Items)] /\ buffer \in [Workers -> Seq(Items)] /\ local' = local
      BY <1>19 DEF GrabGlobal
    <3> QED
      BY ONLY <3>1, <3>2, <3>3 DEF QueueTypes
  <2>3. SleepTypes' /\ SlotTypes' /\ StealTypes' /\ RunTypes'
    BY <1>19 DEF GrabGlobal, GrabFront
  <2> QED
    BY <2>1, <2>2, <2>3
<1>20. ASSUME NEW w \in Workers, GrabNothing(w), GoesOn PROVE Types'
  BY <1>20 DEF GrabNothing
<1>21. ASSUME NEW w \in Workers, AllowAfterGrab(w), GoesOn PROVE Types'
  BY <1>21 DEF AllowAfterGrab, AllowParking, Permit
<1>22. ASSUME NEW w \in Workers, Spread(w), GoesOn PROVE Types'
  <2>1. GlobalTypes' /\ SleepTypes'
    BY <1>22 DEF Spread, Pick
  <2>2. QueueTypes'
    <3>1. Tail(buffer[w]) \in Seq(Items) /\ local[w] \in Seq(Items)
      BY <1>22 DEF Spread, Control
    <3>2. local[w] \o Tail(buffer[w]) \in Seq(Items)
      BY <3>1
    <3> QED
      BY <1>22, <3>2 DEF Spread
  <2>3. SlotTypes' /\ StealTypes'
    BY <1>22 DEF Spread, Pick
  <2>4. RunTypes'
    <3>1. Head(buffer[w]) \in Items
      BY <1>22 DEF Spread, Control
    <3> QED
      BY <1>22, <3>1 DEF Spread, Pick
  <2> QED
    BY <2>1, <2>2, <2>3, <2>4
<1>23. ASSUME NEW w \in Workers, CheckImpudence(w), GoesOn PROVE Types'
  <2>1. StealTypes'
    <3>1. (N + 1) \div 2 \in Nat
      <4>1. \A m \in Nat : (m + 1) \div 2 \in Nat
        OBVIOUS
      <4> QED
        BY <4>1
    <3>2. series' \in [Workers -> Nat]
      <4>1. series' = [series EXCEPT ![w] = (N + 1) \div 2] \/ series' = series
        BY <1>23 DEF CheckImpudence
      <4>2. series \in [Workers -> Nat]
        OBVIOUS
      <4> HIDE DEF Workers
      <4> QED
        BY ONLY <3>1, <4>1, <4>2
    <3> QED
      BY <1>23, <3>2 DEF CheckImpudence
  <2>2. GlobalTypes' /\ SleepTypes' /\ QueueTypes' /\ SlotTypes' /\ RunTypes'
    BY <1>23 DEF CheckImpudence, GiveUp
  <2> QED
    BY <2>1, <2>2
<1>24. ASSUME NEW w \in Workers, NEW v \in Workers, GiveVictim(w, v), GoesOn PROVE Types'
  <2>1. StealTypes'
    <3>1. series[w] - 1 \in Nat /\ v \in 0 .. N
      <4>1. series[w] \in Nat /\ series[w] > 0
        BY <1>24 DEF GiveVictim
      <4>2. v \in 0 .. N
        BY DEF Workers
      <4> QED
        BY ONLY <4>1, <4>2
    <3> QED
      BY <1>24, <3>1 DEF GiveVictim
  <2>2. GlobalTypes' /\ SleepTypes' /\ QueueTypes' /\ SlotTypes' /\ RunTypes'
    BY <1>24 DEF GiveVictim
  <2> QED
    BY <2>1, <2>2
<1>25. ASSUME NEW w \in Workers, NoVictim(w), GoesOn PROVE Types'
  BY <1>25 DEF NoVictim, GiveUp
<1>26. ASSUME NEW w \in Workers, LowSize(w), GoesOn PROVE Types'
  <2>1. StealTypes'
    <3>1. victim[w] \in Workers
      BY <1>26 DEF LowSize, Control
    <3>2. Len(local[victim[w]]) \in Nat
      BY <3>1
    <3>3. \A m \in Nat : m \div 2 \in Nat
      OBVIOUS
    <3>4. Len(local[victim[w]]) \div 2 \in Nat
      BY <3>2, <3>3
    <3> QED
      BY <1>26, <3>4 DEF LowSize
  <2>2. GlobalTypes' /\ SleepTypes' /\ QueueTypes' /\ SlotTypes' /\ RunTypes'
    BY <1>26 DEF LowSize
  <2> QED
    BY <2>1, <2>2
<1>27. ASSUME NEW w \in Workers, Steal(w), GoesOn PROVE Types'
  <2>1. QueueTypes'
    <3> DEFINE v == victim[w]
    <3>1. v \in Workers /\ local[v] \in Seq(Items) /\ limit[w] \in Nat
      BY <1>27 DEF Steal, Control
    <3>2. PICK n \in 0 .. Len(local[v]) :
             /\ buffer' = [buffer EXCEPT ![w] = SubSeq(local[v], 1, n)]
             /\ local' = [local EXCEPT ![v] = SubSeq(local[v], n + 1, Len(local[v]))]
      BY <1>27, <3>1, StealEffect
    <3>3. SubSeq(local[v], 1, n) \in Seq(Items) /\ SubSeq(local[v], n + 1, Len(local[v])) \in Seq(Items)
      BY <3>1, CutFacts
    <3> HIDE DEF v
    <3> QED
      BY <3>1, <3>2, <3>3
  <2>2. GlobalTypes' /\ SleepTypes' /\ SlotTypes'
    BY <1>27 DEF Steal
  <2>3. StealTypes' /\ RunTypes'
    BY <1>27 DEF Steal
  <2> QED
    BY <2>1, <2>2, <2>3
<1>28. ASSUME NEW w \in Workers, TryParkMe(w), GoesOn PROVE Types'
  BY <1>28 DEF TryParkMe, Park, Unlink, Lists
<1>29. ASSUME NEW w \in Workers, WakeUp(w), GoesOn PROVE Types'
  BY <1>29 DEF WakeUp, Unpark, Acquire, Lists
<1>30. ASSUME NEW w \in Workers, LeaveLoop(w), GoesOn PROVE Types'
  BY <1>30 DEF LeaveLoop, Release, Lists
<1>31. ASSUME NEW w \in Workers, DiscardOwn(w), GoesOn PROVE Types'
  BY <1>31 DEF DiscardOwn
<1>32. ASSUME NEW w \in Workers, RunReturns(w), GoesOn PROVE Types'
  <2>1. RunTypes'
    <3>1. current[w] \in Tasks
      BY <1>32 DEF RunReturns, Control, InTask
    <3> QED
      BY <1>32, <3>1 DEF RunReturns, TaskOver
  <2>2. GlobalTypes' /\ SleepTypes' /\ QueueTypes' /\ SlotTypes' /\ StealTypes'
    BY <1>32 DEF RunReturns, TaskOver
  <2> QED
    BY <2>1, <2>2
<1>33. ASSUME NEW w \in Workers, RunThrows(w), GoesOn PROVE Types'
  BY SMTT(60), <1>33 DEF RunThrows, TaskOver
<1>34. ASSUME NEW c \in Clients, WaitIdle(c), GoesOn PROVE Types'
  BY <1>34 DEF WaitIdle, ClientOnly
<1>35. ASSUME NEW c \in Clients, GlobalIsZero(c), GoesOn PROVE Types'
  BY <1>35 DEF GlobalIsZero, ClientOnly
<1>36. ASSUME NEW c \in Clients, AwakeIsZero(c), GoesOn PROVE Types'
  BY <1>36 DEF AwakeIsZero, ClientOnly
<1>37. ASSUME NEW c \in Clients, Stop(c), GoesOn PROVE Types'
  BY <1>37 DEF Stop, ClientOnly
<1>38. ASSUME NEW c \in Clients, StopWorker(c), GoesOn PROVE Types'
  BY <1>38 DEF StopWorker, ClientOnly
<1>39. ASSUME NEW c \in Clients, StopGlobal(c), GoesOn PROVE Types'
  BY <1>39 DEF StopGlobal, CloseQueue, ClientOnly
<1>40. ASSUME NEW c \in Clients, DrainGlobal(c), GoesOn PROVE Types'
  <2>1. GlobalTypes'
    <3>1. CASE global = <<>>
      BY <1>40, <3>1 DEF DrainGlobal
    <3>2. CASE global # <<>>
      BY <1>40, <3>2 DEF DrainGlobal, Drain
    <3> QED
      BY <3>1, <3>2
  <2>2. SleepTypes' /\ QueueTypes' /\ SlotTypes' /\ StealTypes' /\ RunTypes'
    BY <1>40 DEF DrainGlobal, Drain, ClientOnly
  <2> QED
    BY <2>1, <2>2
<1>41. ASSUME NEW c \in Clients, AwakeAll(c), GoesOn PROVE Types'
  BY <1>41 DEF AwakeAll, AwakeEveryoneForever, ClientOnly
<1>42. ASSUME NEW c \in Clients, Join(c), GoesOn PROVE Types'
  BY <1>42 DEF Join, ClientOnly
<1>43. CASE UNCHANGED vars
  BY SMTT(60), <1>43 DEF vars
<1> QED
  BY ONLY Steps, [Next]_vars, <1>1, <1>2, <1>3, <1>4, <1>5, <1>6, <1>7, <1>8, <1>9, <1>10, <1>11,
          <1>12, <1>13, <1>14, <1>15, <1>16, <1>17, <1>18, <1>19, <1>20, <1>21, <1>22, <1>23, <1>24,
          <1>25, <1>26, <1>27, <1>28, <1>29, <1>30, <1>31, <1>32, <1>33, <1>34, <1>35, <1>36, <1>37,
          <1>38, <1>39, <1>40, <1>41, <1>42, <1>43

LEMMA NextLabels == ASSUME Labels, [Next]_vars PROVE Labels'
<1> USE FastPoolAssumption
    DEF Labels, WorkerLabels, ClientLabels, InTask, Seeking, Absent, Threads, Goto, Home
<1>1. ASSUME NEW w \in Workers, Construct(w) PROVE Labels'
  BY <1>1 DEF Construct, Acquire, Lists
<1>2. ASSUME NEW t \in Threads, NEW x \in Tasks, \E hint \in {"Next", "UpToYou", "Slow"} : Execute(t, x, hint), GoesOn PROVE Labels'
  BY <1>2 DEF Execute, MaySubmit, Entry
<1>3. ASSUME NEW t \in Threads, CheckClosed(t), GoesOn PROVE Labels'
  BY <1>3 DEF CheckClosed
<1>4. ASSUME NEW t \in Threads, PushOne(t), GoesOn PROVE Labels'
  BY <1>4 DEF PushOne, PushBack
<1>5. ASSUME NEW t \in Threads, ProhibitAfterPush(t), GoesOn PROVE Labels'
  BY <1>5 DEF ProhibitAfterPush, ProhibitParking, Permit, NotifyOne, Wake, Return
<1>6. ASSUME NEW w \in Workers, Refuse(w), GoesOn PROVE Labels'
  BY <1>6 DEF Refuse, Return
<1>7. ASSUME NEW w \in Workers, PushToLifoSlot(w), GoesOn PROVE Labels'
  BY <1>7 DEF PushToLifoSlot, Return
<1>8. ASSUME NEW w \in Workers, PushToLocalQueue(w), GoesOn PROVE Labels'
  BY <1>8 DEF PushToLocalQueue, Return
<1>9. ASSUME NEW w \in Workers, LocalQueueFull(w), GoesOn PROVE Labels'
  BY <1>9 DEF LocalQueueFull
<1>10. ASSUME NEW w \in Workers, OffloadGrab(w), GoesOn PROVE Labels'
  BY <1>10 DEF OffloadGrab
<1>11. ASSUME NEW w \in Workers, OffloadCheck(w), GoesOn PROVE Labels'
  BY <1>11 DEF OffloadCheck
<1>12. ASSUME NEW w \in Workers, Offload(w), GoesOn PROVE Labels'
  BY <1>12 DEF Offload, PushBack
<1>13. ASSUME NEW w \in Workers, AwakeAfterOffload(w), GoesOn PROVE Labels'
  BY <1>13 DEF AwakeAfterOffload, AwakeOne, NotifyOne, Wake, Return
<1>14. ASSUME NEW w \in Workers, StartPass(w), GoesOn PROVE Labels'
  BY <1>14 DEF StartPass
<1>15. ASSUME NEW w \in Workers, Tick(w), GoesOn PROVE Labels'
  BY <1>15 DEF Tick, AwakeOne, NotifyOne, Wake
<1>16. ASSUME NEW w \in Workers, TakeLifo(w), GoesOn PROVE Labels'
  BY <1>16 DEF TakeLifo, Pick
<1>17. ASSUME NEW w \in Workers, Pop(w), GoesOn PROVE Labels'
  BY <1>17 DEF Pop, SkipLifo, Pick
<1>18. ASSUME NEW w \in Workers, PopNothing(w), GoesOn PROVE Labels'
  BY <1>18 DEF PopNothing, SkipLifo
<1>19. ASSUME NEW w \in Workers, GrabGlobal(w), GoesOn PROVE Labels'
  BY <1>19 DEF GrabGlobal, GrabFront
<1>20. ASSUME NEW w \in Workers, GrabNothing(w), GoesOn PROVE Labels'
  BY <1>20 DEF GrabNothing
<1>21. ASSUME NEW w \in Workers, AllowAfterGrab(w), GoesOn PROVE Labels'
  BY <1>21 DEF AllowAfterGrab, AllowParking, Permit
<1>22. ASSUME NEW w \in Workers, Spread(w), GoesOn PROVE Labels'
  BY <1>22 DEF Spread, Pick
<1>23. ASSUME NEW w \in Workers, CheckImpudence(w), GoesOn PROVE Labels'
  BY <1>23 DEF CheckImpudence, GiveUp
<1>24. ASSUME NEW w \in Workers, NEW v \in Workers, GiveVictim(w, v), GoesOn PROVE Labels'
  BY <1>24 DEF GiveVictim
<1>25. ASSUME NEW w \in Workers, NoVictim(w), GoesOn PROVE Labels'
  BY <1>25 DEF NoVictim, GiveUp
<1>26. ASSUME NEW w \in Workers, LowSize(w), GoesOn PROVE Labels'
  BY <1>26 DEF LowSize
<1>27. ASSUME NEW w \in Workers, Steal(w), GoesOn PROVE Labels'
  BY <1>27 DEF Steal
<1>28. ASSUME NEW w \in Workers, TryParkMe(w), GoesOn PROVE Labels'
  BY <1>28 DEF TryParkMe, Park, Unlink, Lists
<1>29. ASSUME NEW w \in Workers, WakeUp(w), GoesOn PROVE Labels'
  BY <1>29 DEF WakeUp, Unpark, Acquire, Lists
<1>30. ASSUME NEW w \in Workers, LeaveLoop(w), GoesOn PROVE Labels'
  BY <1>30 DEF LeaveLoop, Release, Lists
<1>31. ASSUME NEW w \in Workers, DiscardOwn(w), GoesOn PROVE Labels'
  BY <1>31 DEF DiscardOwn
<1>32. ASSUME NEW w \in Workers, RunReturns(w), GoesOn PROVE Labels'
  BY <1>32 DEF RunReturns, TaskOver
<1>33. ASSUME NEW w \in Workers, RunThrows(w), GoesOn PROVE Labels'
  BY <1>33 DEF RunThrows, TaskOver
<1>34. ASSUME NEW c \in Clients, WaitIdle(c), GoesOn PROVE Labels'
  BY <1>34 DEF WaitIdle, ClientOnly
<1>35. ASSUME NEW c \in Clients, GlobalIsZero(c), GoesOn PROVE Labels'
  BY <1>35 DEF GlobalIsZero, ClientOnly
<1>36. ASSUME NEW c \in Clients, AwakeIsZero(c), GoesOn PROVE Labels'
  BY <1>36 DEF AwakeIsZero, ClientOnly
<1>37. ASSUME NEW c \in Clients, Stop(c), GoesOn PROVE Labels'
  BY <1>37 DEF Stop, ClientOnly
<1>38. ASSUME NEW c \in Clients, StopWorker(c), GoesOn PROVE Labels'
  BY <1>38 DEF StopWorker, ClientOnly
<1>39. ASSUME NEW c \in Clients, StopGlobal(c), GoesOn PROVE Labels'
  BY <1>39 DEF StopGlobal, CloseQueue, ClientOnly
<1>40. ASSUME NEW c \in Clients, DrainGlobal(c), GoesOn PROVE Labels'
  BY <1>40 DEF DrainGlobal, Drain, ClientOnly
<1>41. ASSUME NEW c \in Clients, AwakeAll(c), GoesOn PROVE Labels'
  BY <1>41 DEF AwakeAll, AwakeEveryoneForever, ClientOnly
<1>42. ASSUME NEW c \in Clients, Join(c), GoesOn PROVE Labels'
  BY <1>42 DEF Join, ClientOnly
<1>43. CASE UNCHANGED vars
  BY SMTT(60), <1>43 DEF vars
<1> QED
  BY ONLY Steps, [Next]_vars, <1>1, <1>2, <1>3, <1>4, <1>5, <1>6, <1>7, <1>8, <1>9, <1>10, <1>11,
          <1>12, <1>13, <1>14, <1>15, <1>16, <1>17, <1>18, <1>19, <1>20, <1>21, <1>22, <1>23, <1>24,
          <1>25, <1>26, <1>27, <1>28, <1>29, <1>30, <1>31, <1>32, <1>33, <1>34, <1>35, <1>36, <1>37,
          <1>38, <1>39, <1>40, <1>41, <1>42, <1>43

LEMMA NextControl == ASSUME Types, Labels, Control, Hands, [Next]_vars PROVE Control'
<1> USE FastPoolAssumption
    DEF Types, SlotTypes, StealTypes, QueueTypes, RunTypes, Labels, Control, Placing, InTask, Threads, Goto, Home,
        globalVars, coordinatorVars, lifoVars, stealVars, runVars, fateVars, submitVars, restVars
<1>1. ASSUME NEW w \in Workers, Construct(w) PROVE Control'
  BY <1>1 DEF Construct, Acquire, Lists
<1>2. ASSUME NEW t \in Threads, NEW x \in Tasks, \E hint \in {"Next", "UpToYou", "Slow"} : Execute(t, x, hint), GoesOn PROVE Control'
  BY SMTT(60), <1>2 DEF Execute, MaySubmit, Entry
<1>3. ASSUME NEW t \in Threads, CheckClosed(t), GoesOn PROVE Control'
  BY <1>3 DEF CheckClosed
<1>4. ASSUME NEW t \in Threads, PushOne(t), GoesOn PROVE Control'
  BY <1>4 DEF PushOne, PushBack
<1>5. ASSUME NEW t \in Threads, ProhibitAfterPush(t), GoesOn PROVE Control'
  <2>1. PICK label \in {"run", "idle"} :
           pc' = [pc EXCEPT ![t] = label] /\ pc[t] = "prohibit" /\ (t \in Workers => label = "run")
    BY <1>5 DEF ProhibitAfterPush, Return
  <2>2. arg' = [arg EXCEPT ![t] = Null] /\ UNCHANGED <<local, current, buffer, victim, usage>>
    BY <1>5 DEF ProhibitAfterPush, Return
  <2> QED
    BY ZenonT(60), <2>1, <2>2
<1>6. ASSUME NEW w \in Workers, Refuse(w), GoesOn PROVE Control'
  BY <1>6 DEF Refuse, Return
<1>7. ASSUME NEW w \in Workers, PushToLifoSlot(w), GoesOn PROVE Control'
  <2>1. PICK label \in {"run", "toLocal"}, x \in Tasks \cup {Null} :
           /\ pc' = [pc EXCEPT ![w] = label] /\ arg' = [arg EXCEPT ![w] = x]
           /\ label = "toLocal" => x \in Tasks
    BY <1>7 DEF PushToLifoSlot, Return
  <2>2. pc[w] = "toLifo" /\ UNCHANGED <<local, current, buffer, victim, usage>>
    BY <1>7 DEF PushToLifoSlot
  <2> QED
    BY <2>1, <2>2
<1>8. ASSUME NEW w \in Workers, PushToLocalQueue(w), GoesOn PROVE Control'
  <2>1. arg[w] \in Items /\ local[w] \in Seq(Items) /\ Len(local[w]) < Capacity /\ Capacity \in Nat
    BY <1>8 DEF PushToLocalQueue, Items
  <2>2. Len(Append(local[w], arg[w])) <= Capacity
    BY <2>1
  <2>3. \A v \in Workers : Len(local'[v]) <= Capacity
    BY <1>8, <2>2 DEF PushToLocalQueue
  <2>4. /\ pc' = [pc EXCEPT ![w] = "run"] /\ pc[w] = "toLocal"
        /\ arg' = [arg EXCEPT ![w] = Null] /\ UNCHANGED <<current, buffer, victim, usage>>
    BY <1>8 DEF PushToLocalQueue, Return
  <2> QED
    BY <2>3, <2>4
<1>9. ASSUME NEW w \in Workers, LocalQueueFull(w), GoesOn PROVE Control'
  BY <1>9 DEF LocalQueueFull
<1>10. ASSUME NEW w \in Workers, OffloadGrab(w), GoesOn PROVE Control'
  <2>1. local[w] \in Seq(Items) /\ Len(local[w]) <= Capacity /\ Len(local[w]) \in Nat /\ Capacity \in Nat
    OBVIOUS
  <2>2. PICK n \in 0 .. Len(local[w]) :
           local' = [local EXCEPT ![w] = SubSeq(local[w], n + 1, Len(local[w]))]
    BY <1>10, <2>1, OffloadEffect
  <2>3. Len(SubSeq(local[w], n + 1, Len(local[w]))) <= Capacity
    <3>1. Len(SubSeq(local[w], n + 1, Len(local[w]))) = Len(local[w]) - n
      BY <2>1, CutFacts
    <3> QED
      BY ONLY <2>1, <3>1
  <2>4. \A v \in Workers : Len(local'[v]) <= Capacity
    BY <2>2, <2>3
  <2>5. /\ pc' = [pc EXCEPT ![w] = "offloadCheck"] /\ pc[w] = "offloadGrab"
        /\ arg' = [arg EXCEPT ![w] = Null] /\ UNCHANGED <<current, victim, usage>>
        /\ \A v \in Workers : v # w => buffer'[v] = buffer[v]
    BY <1>10 DEF OffloadGrab
  <2> QED
    BY ZenonT(60), <2>4, <2>5
<1>11. ASSUME NEW w \in Workers, OffloadCheck(w), GoesOn PROVE Control'
  BY <1>11 DEF OffloadCheck
<1>12. ASSUME NEW w \in Workers, Offload(w), GoesOn PROVE Control'
  BY <1>12 DEF Offload, PushBack
<1>13. ASSUME NEW w \in Workers, AwakeAfterOffload(w), GoesOn PROVE Control'
  BY <1>13 DEF AwakeAfterOffload, AwakeOne, NotifyOne, Wake, Return
<1>14. ASSUME NEW w \in Workers, StartPass(w), GoesOn PROVE Control'
  BY <1>14 DEF StartPass
<1>15. ASSUME NEW w \in Workers, Tick(w), GoesOn PROVE Control'
  BY <1>15 DEF Tick, AwakeOne, NotifyOne, Wake
<1>16. ASSUME NEW w \in Workers, TakeLifo(w), GoesOn PROVE Control'
  BY <1>16 DEF TakeLifo, Pick
<1>17. ASSUME NEW w \in Workers, Pop(w), GoesOn PROVE Control'
  <2>1. local[w] \in Seq(Items) /\ Len(local[w]) <= Capacity /\ local[w] # <<>>
    BY <1>17 DEF Pop
  <2>2. Len(Tail(local[w])) <= Capacity /\ Head(local[w]) \in Items
    BY <2>1
  <2>3. \A v \in Workers : Len(local'[v]) <= Capacity
    BY <1>17, <2>2 DEF Pop
  <2>4. /\ pc' = [pc EXCEPT ![w] = IF Head(local[w]) \in Tasks THEN "run" ELSE "crashed"]
        /\ current' = [current EXCEPT ![w] = Head(local[w])]
        /\ usage' = [usage EXCEPT ![w] = 0] /\ UNCHANGED <<arg, buffer, victim>>
    BY <1>17 DEF Pop, SkipLifo, Pick
  <2> QED
    BY SMTT(60), <2>2, <2>3, <2>4
<1>18. ASSUME NEW w \in Workers, PopNothing(w), GoesOn PROVE Control'
  BY SMTT(60), <1>18 DEF PopNothing, SkipLifo
<1>19. ASSUME NEW w \in Workers, GrabGlobal(w), GoesOn PROVE Control'
  <2>1. PICK n \in 1 .. Len(global) : buffer' = [buffer EXCEPT ![w] = SubSeq(global, 1, n)]
    BY <1>19, GrabEffect DEF GlobalTypes
  <2>2. SubSeq(global, 1, n) # <<>>
    <3>1. Len(SubSeq(global, 1, n)) = n /\ n > 0 /\ Len(<<>>) = 0
      BY <2>1, CutFacts DEF GlobalTypes
    <3> QED
      BY ONLY <2>1, <3>1
  <2>3. /\ pc' = [pc EXCEPT ![w] = "spread"] /\ pc[w] \in {"grab", "regrab"}
        /\ UNCHANGED <<arg, local, current, victim, usage>>
    BY <1>19 DEF GrabGlobal
  <2> QED
    BY ZenonT(60), <2>1, <2>2, <2>3
<1>20. ASSUME NEW w \in Workers, GrabNothing(w), GoesOn PROVE Control'
  <2>1. PICK label \in {"allow", "impudence"} : pc' = [pc EXCEPT ![w] = label]
    BY <1>20 DEF GrabNothing
  <2>2. pc[w] \in {"grab", "regrab"} /\ UNCHANGED <<arg, local, current, buffer, victim, usage>>
    BY <1>20 DEF GrabNothing
  <2> QED
    BY <2>1, <2>2
<1>21. ASSUME NEW w \in Workers, AllowAfterGrab(w), GoesOn PROVE Control'
  BY <1>21 DEF AllowAfterGrab, AllowParking, Permit
<1>22. ASSUME NEW w \in Workers, Spread(w), GoesOn PROVE Control'
  <2>1. /\ local[w] = <<>> /\ buffer[w] \in Seq(Items) /\ buffer[w] # <<>>
        /\ Len(buffer[w]) <= Capacity /\ pc[w] = "spread"
    BY <1>22 DEF Spread, Hands
  <2>2. Head(buffer[w]) \in Items /\ <<>> \o Tail(buffer[w]) = Tail(buffer[w])
        /\ Len(Tail(buffer[w])) <= Capacity
    BY <2>1
  <2>3. \A v \in Workers : Len(local'[v]) <= Capacity
    BY <1>22, <2>1, <2>2 DEF Spread
  <2>4. /\ pc' = [pc EXCEPT ![w] = IF Head(buffer[w]) \in Tasks THEN "run" ELSE "crashed"]
        /\ current' = [current EXCEPT ![w] = Head(buffer[w])]
        /\ buffer' = [buffer EXCEPT ![w] = <<>>] /\ UNCHANGED <<arg, usage, victim>>
    BY <1>22 DEF Spread, Pick
  <2> QED
    BY SMTT(60), <2>1, <2>2, <2>3, <2>4
<1>23. ASSUME NEW w \in Workers, CheckImpudence(w), GoesOn PROVE Control'
  <2>1. PICK label \in {"victim", "pick", "park"} : pc' = [pc EXCEPT ![w] = label]
    BY <1>23 DEF CheckImpudence, GiveUp
  <2>2. pc[w] = "impudence" /\ UNCHANGED <<arg, local, current, buffer, victim, usage>>
    BY <1>23 DEF CheckImpudence, GiveUp
  <2> QED
    BY <2>1, <2>2
<1>24. ASSUME NEW w \in Workers, NEW v \in Workers, GiveVictim(w, v), GoesOn PROVE Control'
  BY SMTT(60), <1>24 DEF GiveVictim
<1>25. ASSUME NEW w \in Workers, NoVictim(w), GoesOn PROVE Control'
  BY ZenonT(60), <1>25 DEF NoVictim, GiveUp
<1>26. ASSUME NEW w \in Workers, LowSize(w), GoesOn PROVE Control'
  BY <1>26 DEF LowSize
<1>27. ASSUME NEW w \in Workers, Steal(w), GoesOn PROVE Control'
  <2> DEFINE v == victim[w]
  <2>1. v \in Workers /\ local[v] \in Seq(Items) /\ limit[w] \in Nat /\ Len(local[v]) <= Capacity
        /\ Capacity \in Nat /\ Len(local[v]) \in Nat
    BY <1>27 DEF Steal
  <2>2. PICK n \in 0 .. Len(local[v]) :
           /\ buffer' = [buffer EXCEPT ![w] = SubSeq(local[v], 1, n)]
           /\ local' = [local EXCEPT ![v] = SubSeq(local[v], n + 1, Len(local[v]))]
           /\ Goto(w, IF n = 0 THEN "victim" ELSE "spread")
    BY <1>27, <2>1, StealEffect
  <2>3. /\ Len(SubSeq(local[v], 1, n)) = n
        /\ Len(SubSeq(local[v], n + 1, Len(local[v]))) = Len(local[v]) - n
    BY <2>1, <2>2, CutFacts
  <2>4. n # 0 => SubSeq(local[v], 1, n) # <<>>
    BY <2>1, <2>3
  <2>5. Len(local[v]) - n <= Capacity
    BY ONLY <2>1, <2>2
  <2> HIDE DEF v
  <2>6. \A u \in Workers : Len(local'[u]) <= Capacity
    BY <2>1, <2>2, <2>3, <2>5
  <2>7. /\ pc[w] = "steal" /\ victim' = [victim EXCEPT ![w] = 0]
        /\ UNCHANGED <<arg, current, usage>>
    BY <1>27 DEF Steal
  <2>8. buffer'[w] = SubSeq(local[v], 1, n) /\ \A u \in Workers : u # w => buffer'[u] = buffer[u]
    BY <2>2
  <2>9. PICK label \in {"victim", "spread"} :
           /\ pc' = [pc EXCEPT ![w] = label]
           /\ label = "spread" => buffer'[w] # <<>>
    BY <2>2, <2>4, <2>8
  <2>10. \A u \in Workers : u # w => buffer'[u] = buffer[u] /\ victim'[u] = victim[u]
    BY <2>7, <2>8
  <2> QED
    BY ONLY <2>6, <2>7, <2>9, <2>10, Labels, Control, Workers \subseteq Threads, w \in Workers
       DEF Control, Labels, Placing, InTask
<1>28. ASSUME NEW w \in Workers, TryParkMe(w), GoesOn PROVE Control'
  <2>1. PICK label \in {"parked", "pick"} : pc' = [pc EXCEPT ![w] = label]
    BY <1>28 DEF TryParkMe
  <2>2. pc[w] = "park" /\ UNCHANGED <<arg, local, current, buffer, victim, usage>>
    BY <1>28 DEF TryParkMe
  <2> QED
    BY <2>1, <2>2
<1>29. ASSUME NEW w \in Workers, WakeUp(w), GoesOn PROVE Control'
  BY <1>29 DEF WakeUp, Unpark, Acquire, Lists
<1>30. ASSUME NEW w \in Workers, LeaveLoop(w), GoesOn PROVE Control'
  BY <1>30 DEF LeaveLoop, Release, Lists
<1>31. ASSUME NEW w \in Workers, DiscardOwn(w), GoesOn PROVE Control'
  <2>1. pc[w] = "leave" /\ UNCHANGED <<arg, current, buffer, victim, usage>>
    BY <1>31 DEF DiscardOwn
  <2>2. /\ \A v \in Workers \ {w} : pc'[v] = pc[v]
        /\ \A v \in Clients : pc'[v] = pc[v]
        /\ pc'[w] \in {"leave", "exited", "crashed"}
    BY <1>31 DEF DiscardOwn
  <2>3. \A v \in Workers : Len(local'[v]) <= Capacity
    <3>1. CASE local[w] = <<>>
      BY <1>31, <3>1 DEF DiscardOwn
    <3>2. CASE local[w] # <<>>
      <4>1. Len(Tail(local[w])) <= Capacity
        BY <3>2
      <4> QED
        BY <1>31, <3>2, <4>1 DEF DiscardOwn
    <3> QED
      BY <3>1, <3>2
  <2> QED
    BY ZenonT(60), <2>1, <2>2, <2>3
<1>32. ASSUME NEW w \in Workers, RunReturns(w), GoesOn PROVE Control'
  BY <1>32 DEF RunReturns, TaskOver
<1>33. ASSUME NEW w \in Workers, RunThrows(w), GoesOn PROVE Control'
  BY <1>33 DEF RunThrows, TaskOver
<1>34. ASSUME NEW c \in Clients, WaitIdle(c), GoesOn PROVE Control'
  BY <1>34 DEF WaitIdle, ClientOnly
<1>35. ASSUME NEW c \in Clients, GlobalIsZero(c), GoesOn PROVE Control'
  BY <1>35 DEF GlobalIsZero, ClientOnly
<1>36. ASSUME NEW c \in Clients, AwakeIsZero(c), GoesOn PROVE Control'
  BY <1>36 DEF AwakeIsZero, ClientOnly
<1>37. ASSUME NEW c \in Clients, Stop(c), GoesOn PROVE Control'
  BY <1>37 DEF Stop, ClientOnly
<1>38. ASSUME NEW c \in Clients, StopWorker(c), GoesOn PROVE Control'
  BY <1>38 DEF StopWorker, ClientOnly
<1>39. ASSUME NEW c \in Clients, StopGlobal(c), GoesOn PROVE Control'
  BY <1>39 DEF StopGlobal, CloseQueue, ClientOnly
<1>40. ASSUME NEW c \in Clients, DrainGlobal(c), GoesOn PROVE Control'
  BY SMTT(60), <1>40 DEF DrainGlobal, Drain, ClientOnly
<1>41. ASSUME NEW c \in Clients, AwakeAll(c), GoesOn PROVE Control'
  BY <1>41 DEF AwakeAll, AwakeEveryoneForever, ClientOnly
<1>42. ASSUME NEW c \in Clients, Join(c), GoesOn PROVE Control'
  BY <1>42 DEF Join, ClientOnly
<1>43. CASE UNCHANGED vars
  BY <1>43 DEF vars
<1> QED
  BY ONLY Steps, [Next]_vars, <1>1, <1>2, <1>3, <1>4, <1>5, <1>6, <1>7, <1>8, <1>9, <1>10, <1>11,
          <1>12, <1>13, <1>14, <1>15, <1>16, <1>17, <1>18, <1>19, <1>20, <1>21, <1>22, <1>23, <1>24,
          <1>25, <1>26, <1>27, <1>28, <1>29, <1>30, <1>31, <1>32, <1>33, <1>34, <1>35, <1>36, <1>37,
          <1>38, <1>39, <1>40, <1>41, <1>42, <1>43

LEMMA NextWaiter == ASSUME GlobalTypes, Labels, Waiter, [Next]_vars PROVE Waiter'
<1> USE FastPoolAssumption
    DEF Waiter, OutstandingIsNonEmpty, GlobalTypes, Labels, Goto, Home, Threads,
        globalVars, coordinatorVars, lifoVars, stealVars, runVars, fateVars, submitVars, restVars
<1>1. ASSUME NEW w \in Workers, Construct(w) PROVE Waiter'
  BY <1>1 DEF Construct, Acquire, Lists
<1>2. ASSUME NEW t \in Threads, NEW x \in Tasks, \E hint \in {"Next", "UpToYou", "Slow"} : Execute(t, x, hint), GoesOn PROVE Waiter'
  BY <1>2 DEF Execute, MaySubmit, Entry
<1>3. ASSUME NEW t \in Threads, CheckClosed(t), GoesOn PROVE Waiter'
  BY <1>3 DEF CheckClosed
<1>4. ASSUME NEW t \in Threads, PushOne(t), GoesOn PROVE Waiter'
  BY <1>4 DEF PushOne, PushBack
<1>5. ASSUME NEW t \in Threads, ProhibitAfterPush(t), GoesOn PROVE Waiter'
  BY <1>5 DEF ProhibitAfterPush, ProhibitParking, Permit, NotifyOne, Wake, Return
<1>6. ASSUME NEW w \in Workers, Refuse(w), GoesOn PROVE Waiter'
  BY <1>6 DEF Refuse, Return
<1>7. ASSUME NEW w \in Workers, PushToLifoSlot(w), GoesOn PROVE Waiter'
  BY <1>7 DEF PushToLifoSlot, Return
<1>8. ASSUME NEW w \in Workers, PushToLocalQueue(w), GoesOn PROVE Waiter'
  BY <1>8 DEF PushToLocalQueue, Return
<1>9. ASSUME NEW w \in Workers, LocalQueueFull(w), GoesOn PROVE Waiter'
  BY <1>9 DEF LocalQueueFull
<1>10. ASSUME NEW w \in Workers, OffloadGrab(w), GoesOn PROVE Waiter'
  BY <1>10 DEF OffloadGrab
<1>11. ASSUME NEW w \in Workers, OffloadCheck(w), GoesOn PROVE Waiter'
  BY <1>11 DEF OffloadCheck
<1>12. ASSUME NEW w \in Workers, Offload(w), GoesOn PROVE Waiter'
  BY <1>12 DEF Offload, PushBack
<1>13. ASSUME NEW w \in Workers, AwakeAfterOffload(w), GoesOn PROVE Waiter'
  BY <1>13 DEF AwakeAfterOffload, AwakeOne, NotifyOne, Wake, Return
<1>14. ASSUME NEW w \in Workers, StartPass(w), GoesOn PROVE Waiter'
  BY <1>14 DEF StartPass
<1>15. ASSUME NEW w \in Workers, Tick(w), GoesOn PROVE Waiter'
  BY <1>15 DEF Tick, AwakeOne, NotifyOne, Wake
<1>16. ASSUME NEW w \in Workers, TakeLifo(w), GoesOn PROVE Waiter'
  BY <1>16 DEF TakeLifo, Pick
<1>17. ASSUME NEW w \in Workers, Pop(w), GoesOn PROVE Waiter'
  BY <1>17 DEF Pop, SkipLifo, Pick
<1>18. ASSUME NEW w \in Workers, PopNothing(w), GoesOn PROVE Waiter'
  BY <1>18 DEF PopNothing, SkipLifo
<1>19. ASSUME NEW w \in Workers, GrabGlobal(w), GoesOn PROVE Waiter'
  <2>1. PICK n \in 1 .. Len(global) :
           /\ global' = SubSeq(global, n + 1, Len(global))
           /\ outstanding' = IF n = Len(global) THEN outstanding - 1 ELSE outstanding
    BY <1>19, GrabEffect
  <2>2. UNCHANGED closed /\ \A c \in Clients : pc'[c] = "drain" => pc[c] = "drain"
    BY <1>19 DEF GrabGlobal, GrabFront, Goto
  <2>3. global # <<>> /\ outstanding > 0 /\ outstanding \in Nat /\ Len(global') = Len(global) - n
        /\ Len(global) \in Nat /\ global' \in Seq(Items)
    BY <2>1, CutFacts
  <2>4. (global' = <<>>) <=> (n = Len(global))
    <3>1. (global' = <<>>) <=> (Len(global') = 0)
      BY <2>3
    <3> QED
      BY <2>1, <2>3, <3>1
  <2> QED
    BY <2>1, <2>2, <2>3, <2>4
<1>20. ASSUME NEW w \in Workers, GrabNothing(w), GoesOn PROVE Waiter'
  BY <1>20 DEF GrabNothing
<1>21. ASSUME NEW w \in Workers, AllowAfterGrab(w), GoesOn PROVE Waiter'
  BY <1>21 DEF AllowAfterGrab, AllowParking, Permit
<1>22. ASSUME NEW w \in Workers, Spread(w), GoesOn PROVE Waiter'
  BY <1>22 DEF Spread, Pick
<1>23. ASSUME NEW w \in Workers, CheckImpudence(w), GoesOn PROVE Waiter'
  BY <1>23 DEF CheckImpudence, GiveUp
<1>24. ASSUME NEW w \in Workers, NEW v \in Workers, GiveVictim(w, v), GoesOn PROVE Waiter'
  BY <1>24 DEF GiveVictim
<1>25. ASSUME NEW w \in Workers, NoVictim(w), GoesOn PROVE Waiter'
  BY <1>25 DEF NoVictim, GiveUp
<1>26. ASSUME NEW w \in Workers, LowSize(w), GoesOn PROVE Waiter'
  BY <1>26 DEF LowSize
<1>27. ASSUME NEW w \in Workers, Steal(w), GoesOn PROVE Waiter'
  BY <1>27 DEF Steal
<1>28. ASSUME NEW w \in Workers, TryParkMe(w), GoesOn PROVE Waiter'
  BY <1>28 DEF TryParkMe, Park, Unlink, Lists
<1>29. ASSUME NEW w \in Workers, WakeUp(w), GoesOn PROVE Waiter'
  BY <1>29 DEF WakeUp, Unpark, Acquire, Lists
<1>30. ASSUME NEW w \in Workers, LeaveLoop(w), GoesOn PROVE Waiter'
  BY <1>30 DEF LeaveLoop, Release, Lists
<1>31. ASSUME NEW w \in Workers, DiscardOwn(w), GoesOn PROVE Waiter'
  BY <1>31 DEF DiscardOwn
<1>32. ASSUME NEW w \in Workers, RunReturns(w), GoesOn PROVE Waiter'
  BY <1>32 DEF RunReturns, TaskOver
<1>33. ASSUME NEW w \in Workers, RunThrows(w), GoesOn PROVE Waiter'
  BY <1>33 DEF RunThrows, TaskOver
<1>34. ASSUME NEW c \in Clients, WaitIdle(c), GoesOn PROVE Waiter'
  BY <1>34 DEF WaitIdle, ClientOnly
<1>35. ASSUME NEW c \in Clients, GlobalIsZero(c), GoesOn PROVE Waiter'
  BY <1>35 DEF GlobalIsZero, ClientOnly
<1>36. ASSUME NEW c \in Clients, AwakeIsZero(c), GoesOn PROVE Waiter'
  BY <1>36 DEF AwakeIsZero, ClientOnly
<1>37. ASSUME NEW c \in Clients, Stop(c), GoesOn PROVE Waiter'
  BY <1>37 DEF Stop, ClientOnly
<1>38. ASSUME NEW c \in Clients, StopWorker(c), GoesOn PROVE Waiter'
  BY <1>38 DEF StopWorker, ClientOnly
<1>39. ASSUME NEW c \in Clients, StopGlobal(c), GoesOn PROVE Waiter'
  BY <1>39 DEF StopGlobal, CloseQueue, ClientOnly
<1>40. ASSUME NEW c \in Clients, DrainGlobal(c), GoesOn PROVE Waiter'
  BY <1>40 DEF DrainGlobal, Drain, ClientOnly
<1>41. ASSUME NEW c \in Clients, AwakeAll(c), GoesOn PROVE Waiter'
  BY <1>41 DEF AwakeAll, AwakeEveryoneForever, ClientOnly
<1>42. ASSUME NEW c \in Clients, Join(c), GoesOn PROVE Waiter'
  BY <1>42 DEF Join, ClientOnly
<1>43. CASE UNCHANGED vars
  BY <1>43 DEF vars
<1> QED
  BY ONLY Steps, [Next]_vars, <1>1, <1>2, <1>3, <1>4, <1>5, <1>6, <1>7, <1>8, <1>9, <1>10, <1>11,
          <1>12, <1>13, <1>14, <1>15, <1>16, <1>17, <1>18, <1>19, <1>20, <1>21, <1>22, <1>23, <1>24,
          <1>25, <1>26, <1>27, <1>28, <1>29, <1>30, <1>31, <1>32, <1>33, <1>34, <1>35, <1>36, <1>37,
          <1>38, <1>39, <1>40, <1>41, <1>42, <1>43

LEMMA NextHands == ASSUME Types, Labels, Control, Hands, [Next]_vars PROVE Hands'
<1> USE FastPoolAssumption
    DEF Types, SlotTypes, QueueTypes, Labels, Control, Hands, InTask, Threads, Goto, Home,
        globalVars, coordinatorVars, lifoVars, stealVars, runVars, fateVars, submitVars, restVars
<1>1. ASSUME NEW w \in Workers, Construct(w) PROVE Hands'
  BY <1>1 DEF Construct, Acquire, Lists
<1>2. ASSUME NEW t \in Threads, NEW x \in Tasks, \E hint \in {"Next", "UpToYou", "Slow"} : Execute(t, x, hint), GoesOn PROVE Hands'
  BY SMTT(60), <1>2 DEF Execute, MaySubmit, Entry
<1>3. ASSUME NEW t \in Threads, CheckClosed(t), GoesOn PROVE Hands'
  BY <1>3 DEF CheckClosed
<1>4. ASSUME NEW t \in Threads, PushOne(t), GoesOn PROVE Hands'
  BY <1>4 DEF PushOne, PushBack
<1>5. ASSUME NEW t \in Threads, ProhibitAfterPush(t), GoesOn PROVE Hands'
  BY <1>5 DEF ProhibitAfterPush, ProhibitParking, Permit, NotifyOne, Wake, Return
<1>6. ASSUME NEW w \in Workers, Refuse(w), GoesOn PROVE Hands'
  BY <1>6 DEF Refuse, Return
<1>7. ASSUME NEW w \in Workers, PushToLifoSlot(w), GoesOn PROVE Hands'
  BY <1>7 DEF PushToLifoSlot, Return
<1>8. ASSUME NEW w \in Workers, PushToLocalQueue(w), GoesOn PROVE Hands'
  BY <1>8 DEF PushToLocalQueue, Return
<1>9. ASSUME NEW w \in Workers, LocalQueueFull(w), GoesOn PROVE Hands'
  BY <1>9 DEF LocalQueueFull
<1>10. ASSUME NEW w \in Workers, OffloadGrab(w), GoesOn PROVE Hands'
  BY <1>10 DEF OffloadGrab
<1>11. ASSUME NEW w \in Workers, OffloadCheck(w), GoesOn PROVE Hands'
  BY <1>11 DEF OffloadCheck
<1>12. ASSUME NEW w \in Workers, Offload(w), GoesOn PROVE Hands'
  BY <1>12 DEF Offload, PushBack
<1>13. ASSUME NEW w \in Workers, AwakeAfterOffload(w), GoesOn PROVE Hands'
  BY <1>13 DEF AwakeAfterOffload, AwakeOne, NotifyOne, Wake, Return
<1>14. ASSUME NEW w \in Workers, StartPass(w), GoesOn PROVE Hands'
  BY <1>14 DEF StartPass
<1>15. ASSUME NEW w \in Workers, Tick(w), GoesOn PROVE Hands'
  BY <1>15 DEF Tick, AwakeOne, NotifyOne, Wake
<1>16. ASSUME NEW w \in Workers, TakeLifo(w), GoesOn PROVE Hands'
  BY <1>16 DEF TakeLifo, Pick
<1>17. ASSUME NEW w \in Workers, Pop(w), GoesOn PROVE Hands'
  BY SMTT(60), <1>17 DEF Pop, SkipLifo, Pick
<1>18. ASSUME NEW w \in Workers, PopNothing(w), GoesOn PROVE Hands'
  BY <1>18 DEF PopNothing, SkipLifo
<1>19. ASSUME NEW w \in Workers, GrabGlobal(w), GoesOn PROVE Hands'
  <2>1. PICK n \in 1 .. Len(global) : n <= Capacity \div 2 /\ buffer' = [buffer EXCEPT ![w] = SubSeq(global, 1, n)]
    BY <1>19, GrabEffect DEF GlobalTypes
  <2>2. Len(SubSeq(global, 1, n)) <= Capacity
    <3>1. Len(SubSeq(global, 1, n)) = n /\ Len(global) \in Nat
      BY <2>1, CutFacts DEF GlobalTypes
    <3> QED
      BY ONLY <2>1, <3>1, CapacityFacts, FastPoolAssumption
  <2>3. /\ pc' = [pc EXCEPT ![w] = "spread"] /\ pc[w] \in {"grab", "regrab"}
        /\ UNCHANGED <<local, lifo>>
    BY <1>19 DEF GrabGlobal
  <2> QED
    BY <2>1, <2>2, <2>3
<1>20. ASSUME NEW w \in Workers, GrabNothing(w), GoesOn PROVE Hands'
  BY <1>20 DEF GrabNothing
<1>21. ASSUME NEW w \in Workers, AllowAfterGrab(w), GoesOn PROVE Hands'
  BY <1>21 DEF AllowAfterGrab, AllowParking, Permit
<1>22. ASSUME NEW w \in Workers, Spread(w), GoesOn PROVE Hands'
  BY <1>22 DEF Spread, Pick
<1>23. ASSUME NEW w \in Workers, CheckImpudence(w), GoesOn PROVE Hands'
  <2>1. /\ pc[w] = "impudence"
        /\ \/ pc' = [pc EXCEPT ![w] = "victim"]
           \/ pc' = [pc EXCEPT ![w] = "pick"]
           \/ pc' = [pc EXCEPT ![w] = "park"] /\ lifo[w] = Null
        /\ UNCHANGED <<local, lifo, buffer>>
    BY <1>23 DEF CheckImpudence, GiveUp
  <2> QED
    BY ZenonT(60), <2>1
<1>24. ASSUME NEW w \in Workers, NEW v \in Workers, GiveVictim(w, v), GoesOn PROVE Hands'
  BY <1>24 DEF GiveVictim
<1>25. ASSUME NEW w \in Workers, NoVictim(w), GoesOn PROVE Hands'
  BY <1>25 DEF NoVictim, GiveUp
<1>26. ASSUME NEW w \in Workers, LowSize(w), GoesOn PROVE Hands'
  BY <1>26 DEF LowSize
<1>27. ASSUME NEW w \in Workers, Steal(w), GoesOn PROVE Hands'
  <2> DEFINE v == victim[w]
  <2>1. v \in Workers /\ local[v] \in Seq(Items) /\ limit[w] \in Nat /\ Len(local[v]) <= Capacity
        /\ Capacity \in Nat /\ Len(local[v]) \in Nat
    BY <1>27 DEF Steal, Control, StealTypes
  <2>2. PICK n \in 0 .. Len(local[v]) :
           /\ buffer' = [buffer EXCEPT ![w] = SubSeq(local[v], 1, n)]
           /\ local' = [local EXCEPT ![v] = SubSeq(local[v], n + 1, Len(local[v]))]
           /\ Goto(w, IF n = 0 THEN "victim" ELSE "spread")
    BY <1>27, <2>1, StealEffect
  <2>3. /\ Len(SubSeq(local[v], 1, n)) = n
        /\ Len(SubSeq(local[v], n + 1, Len(local[v]))) = Len(local[v]) - n
        /\ SubSeq(local[v], 1, n) \in Seq(Items) 
        /\ SubSeq(local[v], n + 1, Len(local[v])) \in Seq(Items)
    <3>1. n \in 0 .. Len(local[v]) /\ local[v] \in Seq(Items)
      BY <2>1, <2>2
    <3> HIDE DEF v
    <3> QED
      BY ONLY <3>1, CutFacts
  <2>4. /\ n = 0 => SubSeq(local[v], 1, n) = <<>>
        /\ Len(SubSeq(local[v], 1, n)) <= Capacity
    BY SMTT(60), <2>1, <2>3
  <2>5. local[v] = <<>> => SubSeq(local[v], n + 1, Len(local[v])) = <<>>
    <3>1. local[v] = <<>> => Len(local[v]) - n = 0
      BY <2>1, <2>2
    <3> QED
      BY <2>3, <3>1
  <2> HIDE DEF v
  <2>6. \A u \in Workers : local[u] = <<>> => local'[u] = <<>>
    BY <2>1, <2>2, <2>5
  <2>7. pc[w] = "steal" /\ UNCHANGED lifo
    BY <1>27 DEF Steal
  <2>8. buffer'[w] = SubSeq(local[v], 1, n) /\ \A u \in Workers : u # w => buffer'[u] = buffer[u]
    BY <2>2
  <2>9. CASE n = 0
    BY <2>2, <2>4, <2>6, <2>7, <2>8, <2>9
  <2>10. CASE n # 0
    BY SMTT(60), <2>2, <2>4, <2>6, <2>7, <2>8, <2>10
  <2> QED
    BY <2>9, <2>10
<1>28. ASSUME NEW w \in Workers, TryParkMe(w), GoesOn PROVE Hands'
  BY ZenonT(60), <1>28 DEF TryParkMe, Park, Unlink, Lists
<1>29. ASSUME NEW w \in Workers, WakeUp(w), GoesOn PROVE Hands'
  BY <1>29 DEF WakeUp, Unpark, Acquire, Lists
<1>30. ASSUME NEW w \in Workers, LeaveLoop(w), GoesOn PROVE Hands'
  BY <1>30 DEF LeaveLoop, Release, Lists
<1>31. ASSUME NEW w \in Workers, DiscardOwn(w), GoesOn PROVE Hands'
  BY <1>31 DEF DiscardOwn
<1>32. ASSUME NEW w \in Workers, RunReturns(w), GoesOn PROVE Hands'
  BY <1>32 DEF RunReturns, TaskOver
<1>33. ASSUME NEW w \in Workers, RunThrows(w), GoesOn PROVE Hands'
  BY <1>33 DEF RunThrows, TaskOver
<1>34. ASSUME NEW c \in Clients, WaitIdle(c), GoesOn PROVE Hands'
  BY <1>34 DEF WaitIdle, ClientOnly
<1>35. ASSUME NEW c \in Clients, GlobalIsZero(c), GoesOn PROVE Hands'
  BY <1>35 DEF GlobalIsZero, ClientOnly
<1>36. ASSUME NEW c \in Clients, AwakeIsZero(c), GoesOn PROVE Hands'
  BY <1>36 DEF AwakeIsZero, ClientOnly
<1>37. ASSUME NEW c \in Clients, Stop(c), GoesOn PROVE Hands'
  BY <1>37 DEF Stop, ClientOnly
<1>38. ASSUME NEW c \in Clients, StopWorker(c), GoesOn PROVE Hands'
  BY <1>38 DEF StopWorker, ClientOnly
<1>39. ASSUME NEW c \in Clients, StopGlobal(c), GoesOn PROVE Hands'
  BY <1>39 DEF StopGlobal, CloseQueue, ClientOnly
<1>40. ASSUME NEW c \in Clients, DrainGlobal(c), GoesOn PROVE Hands'
  BY <1>40 DEF DrainGlobal, Drain, ClientOnly
<1>41. ASSUME NEW c \in Clients, AwakeAll(c), GoesOn PROVE Hands'
  BY <1>41 DEF AwakeAll, AwakeEveryoneForever, ClientOnly
<1>42. ASSUME NEW c \in Clients, Join(c), GoesOn PROVE Hands'
  BY <1>42 DEF Join, ClientOnly
<1>43. CASE UNCHANGED vars
  BY <1>43 DEF vars
<1> QED
  BY ONLY Steps, [Next]_vars, <1>1, <1>2, <1>3, <1>4, <1>5, <1>6, <1>7, <1>8, <1>9, <1>10, <1>11,
          <1>12, <1>13, <1>14, <1>15, <1>16, <1>17, <1>18, <1>19, <1>20, <1>21, <1>22, <1>23, <1>24,
          <1>25, <1>26, <1>27, <1>28, <1>29, <1>30, <1>31, <1>32, <1>33, <1>34, <1>35, <1>36, <1>37,
          <1>38, <1>39, <1>40, <1>41, <1>42, <1>43

-----------------------------------------------------------------------------
(* The books of the coordinator *)

Awake == {w \in Workers : pc[w] \notin Absent}

\* The lists hold the workers that are awake, each once, and are counted, until
\* a crash; who is parked either waits for a notification or has been given one.
ListTypes == active \in Seq(Workers) /\ passive \in Seq(Workers) /\ awake \in Nat

Books == /\ ListTypes
         /\ ~ Crashed => Hold(active, passive, Awake) /\ awake = Cardinality(Awake)
         /\ asleep \cap woken = {} /\ asleep \cup woken = {w \in Workers : pc[w] = "parked"}

\* A step that leaves everybody where the books have them.
Settled == /\ \A w \in Workers : /\ pc'[w] \in Absent <=> pc[w] \in Absent
                                 /\ pc'[w] = "parked" <=> pc[w] = "parked"
           /\ UNCHANGED <<active, passive, awake>>
           /\ asleep' \cup woken' = asleep \cup woken /\ asleep' \cap woken' = {}

LEMMA BooksKept == ASSUME Books, Settled, ~ Crashed PROVE Books'
<1>1. Awake' = Awake
  BY DEF Settled, Awake
<1>2. {w \in Workers : pc'[w] = "parked"} = {w \in Workers : pc[w] = "parked"}
  BY DEF Settled
<1> QED
  BY ONLY Books, Settled, ~ Crashed, <1>1, <1>2 DEF Books, Settled, ListTypes

LEMMA AwakeIsFinite == IsFiniteSet(Awake) /\ Cardinality(Awake) \in Nat
<1>1. IsFiniteSet(Workers)
  BY FS_Interval, FastPoolAssumption DEF Workers
<1> QED
  BY <1>1, FS_Subset, FS_CardinalityType DEF Awake

\* Lists that hold workers are lists of workers.
LEMMA HoldTypes ==
    ASSUME NEW S \in SUBSET Workers, NEW a, NEW p, Hold(a, p, S)
    PROVE  a \in Seq(Workers) /\ p \in Seq(Workers) /\ Cardinality(S) \in Nat
<1>1. a \in Seq(S) /\ p \in Seq(S)
  BY DEF Hold
<1>2. IsFiniteSet(S)
  BY HoldFacts
<1> QED
  BY <1>1, <1>2, FS_CardinalityType

LEMMA AcquireTypes == ASSUME ListTypes, NEW w \in Workers, Acquire(w) PROVE ListTypes'
<1>1. <<w>> \o active \in Seq(Workers) /\ passive \in Seq(Workers) /\ awake' \in Nat
  BY DEF ListTypes, Acquire
<1>2. /\ Rebalanced(<<w>> \o active, passive)[1] \in Seq(Workers)
      /\ Rebalanced(<<w>> \o active, passive)[2] \in Seq(Workers)
  BY <1>1, RebalancedTypes
<1> QED
  BY <1>1, <1>2 DEF ListTypes, Acquire, Lists, Acquired

\* A worker joins the lists, a worker leaves them.
LEMMA Joins ==
    ASSUME Books, NEW w \in Workers, pc[w] \in Absent, ~ Crashed, Acquire(w),
           Awake' = Awake \cup {w}
    PROVE  Hold(active', passive', Awake') /\ awake' = Cardinality(Awake')
<1>1. w \notin Awake /\ Hold(active, passive, Awake) /\ awake = Cardinality(Awake)
  BY DEF Awake, Books
<1>2. Hold(Acquired(<<active, passive>>, w)[1], Acquired(<<active, passive>>, w)[2], Awake \cup {w})
  BY <1>1, AcquiredHolds
<1>3. Cardinality(Awake \cup {w}) = Cardinality(Awake) + 1
  BY <1>1, AwakeIsFinite, FS_AddElement
<1> QED
  BY <1>1, <1>2, <1>3 DEF Acquire, Lists

LEMMA Leaves ==
    ASSUME Books, NEW w \in Awake, ~ Crashed, awake' = awake - 1, Awake' = Awake \ {w}
    PROVE  /\ Hold(Without(active, w), Without(passive, w), Awake')
           /\ awake' = Cardinality(Awake')
<1>1. Hold(active, passive, Awake) /\ awake = Cardinality(Awake)
  BY DEF Books
<1>2. Cardinality(Awake \ {w}) = Cardinality(Awake) - 1
  BY AwakeIsFinite, FS_RemoveElement
<1> QED
  BY <1>1, <1>2, WithoutHolds


LEMMA NextBooks == ASSUME Labels, SleepTypes, Books, [Next]_vars PROVE Books'
<1> USE FastPoolAssumption
    DEF Labels, SleepTypes, Books, Settled, InTask, Absent, Goto, Home, Threads, coordinatorVars
<1>1. ASSUME NEW w \in Workers, Construct(w) PROVE Books'
  <2>1. pc[w] = "new" /\ pc' = [pc EXCEPT ![w] = "pick"] /\ UNCHANGED <<asleep, woken>>
    BY <1>1 DEF Construct, Goto
  <2>2. pc'[w] = "pick" /\ \A t \in Threads : t # w => pc'[t] = pc[t]
    BY <2>1
  <2>3. Awake' = Awake \cup {w}
    BY <2>1, <2>2 DEF Awake
  <2>4. {v \in Workers : pc'[v] = "parked"} = {v \in Workers : pc[v] = "parked"}
    BY <2>1, <2>2
  <2>5. Crashed' = Crashed
    BY <2>1, <2>2 DEF Crashed
  <2>6. ~ Crashed => Hold(active', passive', Awake') /\ awake' = Cardinality(Awake')
    BY <1>1, <2>1, <2>3, Joins DEF Construct, Absent
  <2>7. ListTypes'
    BY <1>1, AcquireTypes DEF Construct
  <2> QED
    BY ONLY Books, <2>1, <2>4, <2>5, <2>6, <2>7 DEF Books
<1>2. ASSUME NEW t \in Threads, NEW x \in Tasks, \E hint \in {"Next", "UpToYou", "Slow"} : Execute(t, x, hint), GoesOn PROVE Settled
  BY <1>2 DEF Execute, MaySubmit, Entry
<1>3. ASSUME NEW t \in Threads, CheckClosed(t), GoesOn PROVE Settled
  BY <1>3 DEF CheckClosed
<1>4. ASSUME NEW t \in Threads, PushOne(t), GoesOn PROVE Settled
  BY <1>4 DEF PushOne, PushBack
<1>5. ASSUME NEW t \in Threads, ProhibitAfterPush(t), GoesOn PROVE Settled
  BY <1>5 DEF ProhibitAfterPush, ProhibitParking, Permit, NotifyOne, Wake, Return
<1>6. ASSUME NEW w \in Workers, Refuse(w), GoesOn PROVE Settled
  BY <1>6 DEF Refuse, Return
<1>7. ASSUME NEW w \in Workers, PushToLifoSlot(w), GoesOn PROVE Settled
  BY <1>7 DEF PushToLifoSlot, Return
<1>8. ASSUME NEW w \in Workers, PushToLocalQueue(w), GoesOn PROVE Settled
  BY <1>8 DEF PushToLocalQueue, Return
<1>9. ASSUME NEW w \in Workers, LocalQueueFull(w), GoesOn PROVE Settled
  BY <1>9 DEF LocalQueueFull
<1>10. ASSUME NEW w \in Workers, OffloadGrab(w), GoesOn PROVE Settled
  BY <1>10 DEF OffloadGrab
<1>11. ASSUME NEW w \in Workers, OffloadCheck(w), GoesOn PROVE Settled
  BY <1>11 DEF OffloadCheck
<1>12. ASSUME NEW w \in Workers, Offload(w), GoesOn PROVE Settled
  BY <1>12 DEF Offload, PushBack
<1>13. ASSUME NEW w \in Workers, AwakeAfterOffload(w), GoesOn PROVE Settled
  BY <1>13 DEF AwakeAfterOffload, AwakeOne, NotifyOne, Wake, Return
<1>14. ASSUME NEW w \in Workers, StartPass(w), GoesOn PROVE Settled
  BY <1>14 DEF StartPass
<1>15. ASSUME NEW w \in Workers, Tick(w), GoesOn PROVE Settled
  BY <1>15 DEF Tick, AwakeOne, NotifyOne, Wake
<1>16. ASSUME NEW w \in Workers, TakeLifo(w), GoesOn PROVE Settled
  BY <1>16 DEF TakeLifo, Pick
<1>17. ASSUME NEW w \in Workers, Pop(w), GoesOn PROVE Settled
  BY <1>17 DEF Pop, SkipLifo, Pick
<1>18. ASSUME NEW w \in Workers, PopNothing(w), GoesOn PROVE Settled
  BY <1>18 DEF PopNothing, SkipLifo
<1>19. ASSUME NEW w \in Workers, GrabGlobal(w), GoesOn PROVE Settled
  BY <1>19 DEF GrabGlobal, GrabFront
<1>20. ASSUME NEW w \in Workers, GrabNothing(w), GoesOn PROVE Settled
  BY <1>20 DEF GrabNothing
<1>21. ASSUME NEW w \in Workers, AllowAfterGrab(w), GoesOn PROVE Settled
  BY <1>21 DEF AllowAfterGrab, AllowParking, Permit
<1>22. ASSUME NEW w \in Workers, Spread(w), GoesOn PROVE Settled
  BY <1>22 DEF Spread, Pick
<1>23. ASSUME NEW w \in Workers, CheckImpudence(w), GoesOn PROVE Settled
  BY <1>23 DEF CheckImpudence, GiveUp
<1>24. ASSUME NEW w \in Workers, NEW v \in Workers, GiveVictim(w, v), GoesOn PROVE Settled
  BY <1>24 DEF GiveVictim
<1>25. ASSUME NEW w \in Workers, NoVictim(w), GoesOn PROVE Settled
  BY <1>25 DEF NoVictim, GiveUp
<1>26. ASSUME NEW w \in Workers, LowSize(w), GoesOn PROVE Settled
  BY <1>26 DEF LowSize
<1>27. ASSUME NEW w \in Workers, Steal(w), GoesOn PROVE Settled
  BY <1>27 DEF Steal
<1>28. ASSUME NEW w \in Workers, TryParkMe(w), GoesOn PROVE Books'
  <2>1. CASE UNCHANGED coordinatorVars /\ Goto(w, "pick")
    <3>1. Settled
      BY <1>28, <2>1 DEF Settled, coordinatorVars, Books, TryParkMe, Absent, Goto
    <3> QED
      BY <1>28, <3>1, BooksKept DEF GoesOn
  <2>2. CASE Park(w) /\ Goto(w, "parked")
    <3>1. pc[w] = "park" /\ pc' = [pc EXCEPT ![w] = "parked"]
      BY <1>28, <2>2 DEF TryParkMe, Goto
    <3>2. pc'[w] = "parked" /\ \A v \in Workers : v # w => pc'[v] = pc[v]
      BY <3>1
    <3>3. Awake' = Awake \ {w} /\ w \in Awake
      BY <3>1, <3>2 DEF Awake, Absent
    <3>4. {v \in Workers : pc'[v] = "parked"} = {v \in Workers : pc[v] = "parked"} \cup {w}
      BY <3>1, <3>2
    <3>5. /\ active' = Without(active, w) /\ passive' = Without(passive, w) /\ awake' = awake - 1
          /\ asleep' = asleep \cup {w} /\ woken' = woken
      BY <2>2 DEF Park, Unlink, Lists
    <3>6. Hold(active', passive', Awake') /\ awake' = Cardinality(Awake')
      BY <1>28, <3>3, <3>5, Leaves DEF GoesOn
    <3>7. w \notin asleep \cup woken
      BY <3>1 DEF Books
    <3>8. ListTypes'
      <4>1. PICK S \in SUBSET Workers : S = Awake'
        BY <3>3 DEF Awake
      <4> QED
        BY <3>6, <4>1, HoldTypes DEF ListTypes
    <3> QED
      BY ONLY Books, <3>4, <3>5, <3>6, <3>7, <3>8 DEF Books
  <2> QED
    BY <1>28, <2>1, <2>2 DEF TryParkMe
<1>29. ASSUME NEW w \in Workers, WakeUp(w), GoesOn PROVE Books'
  <2>1. pc[w] = "parked" /\ pc' = [pc EXCEPT ![w] = "pick"] /\ w \in woken
        /\ woken' = woken \ {w} /\ asleep' = asleep /\ Acquire(w)
    BY <1>29 DEF WakeUp, Unpark, Goto
  <2>2. pc'[w] = "pick" /\ \A v \in Workers : v # w => pc'[v] = pc[v]
    BY <2>1
  <2>3. Awake' = Awake \cup {w}
    BY <2>1, <2>2 DEF Awake, Absent
  <2>4. {v \in Workers : pc'[v] = "parked"} = {v \in Workers : pc[v] = "parked"} \ {w}
    BY <2>1, <2>2
  <2>5. Hold(active', passive', Awake') /\ awake' = Cardinality(Awake')
    BY <1>29, <2>1, <2>3, Joins DEF GoesOn, Absent
  <2>6. ListTypes'
    BY <2>1, AcquireTypes
  <2> QED
    BY ONLY Books, <2>1, <2>4, <2>5, <2>6 DEF Books
<1>30. ASSUME NEW w \in Workers, LeaveLoop(w), GoesOn PROVE Books'
  <2>1. pc[w] = "pick" /\ pc' = [pc EXCEPT ![w] = "leave"] /\ Release(w)
    BY <1>30 DEF LeaveLoop, Goto
  <2>2. pc'[w] = "leave" /\ \A v \in Workers : v # w => pc'[v] = pc[v]
    BY <2>1
  <2>3. Awake' = Awake \ {w} /\ w \in Awake
    BY <2>1, <2>2 DEF Awake, Absent
  <2>4. {v \in Workers : pc'[v] = "parked"} = {v \in Workers : pc[v] = "parked"}
    BY <2>1, <2>2
  <2>5. /\ active' = Rebalanced(Without(active, w), Without(passive, w))[1]
        /\ passive' = Rebalanced(Without(active, w), Without(passive, w))[2]
        /\ awake' = awake - 1 /\ asleep' = asleep /\ woken' = woken
    BY <2>1 DEF Release, Lists
  <2>6. Hold(active', passive', Awake') /\ awake' = Cardinality(Awake')
    BY <1>30, <2>3, <2>5, Leaves, RebalancedHolds DEF GoesOn
  <2>7. ListTypes'
    <3>1. PICK S \in SUBSET Workers : S = Awake'
      BY <2>3 DEF Awake
    <3> QED
      BY <2>6, <3>1, HoldTypes DEF ListTypes
  <2> QED
    BY ONLY Books, <2>4, <2>5, <2>6, <2>7 DEF Books
<1>31. ASSUME NEW w \in Workers, DiscardOwn(w), GoesOn PROVE Books'
  <2>1. pc[w] = "leave" /\ UNCHANGED <<active, passive, awake, asleep, woken>>
        /\ pc' = [pc EXCEPT ![w] = IF local[w] = <<>> THEN "exited"
                                   ELSE IF Head(local[w]) \in Tasks THEN "leave" ELSE "crashed"]
    BY <1>31 DEF DiscardOwn, Goto, coordinatorVars
  <2>2. \A v \in Workers : v # w => pc'[v] = pc[v]
    BY <2>1
  <2>3. pc'[w] \in {"exited", "leave", "crashed"}
    BY <2>1
  <2>4. CASE pc'[w] = "crashed"
    <3>1. Crashed'
      BY <2>4 DEF Crashed
    <3>2. {v \in Workers : pc'[v] = "parked"} = {v \in Workers : pc[v] = "parked"}
      BY <2>1, <2>2, <2>4
    <3> QED
      BY ONLY Books, <2>1, <3>1, <3>2 DEF Books, ListTypes
  <2>5. CASE pc'[w] # "crashed"
    <3>1. Settled
      BY <2>1, <2>2, <2>3, <2>5 DEF Settled, Books, Absent
    <3> QED
      BY <1>31, <3>1, BooksKept DEF GoesOn
  <2> QED
    BY <2>4, <2>5
<1>32. ASSUME NEW w \in Workers, RunReturns(w), GoesOn PROVE Settled
  BY <1>32 DEF RunReturns, TaskOver
<1>33. ASSUME NEW w \in Workers, RunThrows(w), GoesOn PROVE Settled
  BY <1>33 DEF RunThrows, TaskOver
<1>34. ASSUME NEW c \in Clients, WaitIdle(c), GoesOn PROVE Settled
  BY <1>34 DEF WaitIdle, ClientOnly
<1>35. ASSUME NEW c \in Clients, GlobalIsZero(c), GoesOn PROVE Settled
  BY <1>35 DEF GlobalIsZero, ClientOnly
<1>36. ASSUME NEW c \in Clients, AwakeIsZero(c), GoesOn PROVE Settled
  BY <1>36 DEF AwakeIsZero, ClientOnly
<1>37. ASSUME NEW c \in Clients, Stop(c), GoesOn PROVE Settled
  BY <1>37 DEF Stop, ClientOnly
<1>38. ASSUME NEW c \in Clients, StopWorker(c), GoesOn PROVE Settled
  BY <1>38 DEF StopWorker, ClientOnly
<1>39. ASSUME NEW c \in Clients, StopGlobal(c), GoesOn PROVE Settled
  BY <1>39 DEF StopGlobal, CloseQueue, ClientOnly
<1>40. ASSUME NEW c \in Clients, DrainGlobal(c), GoesOn PROVE Settled
  BY <1>40 DEF DrainGlobal, Drain, ClientOnly
<1>41. ASSUME NEW c \in Clients, AwakeAll(c), GoesOn PROVE Settled
  BY <1>41 DEF AwakeAll, AwakeEveryoneForever, ClientOnly
<1>42. ASSUME NEW c \in Clients, Join(c), GoesOn PROVE Settled
  BY <1>42 DEF Join, ClientOnly
<1>43. CASE UNCHANGED vars
  <2>1. pc' = pc /\ UNCHANGED <<active, passive, awake, asleep, woken>>
    BY <1>43 DEF vars
  <2>2. Crashed' = Crashed /\ Awake' = Awake
    BY <2>1 DEF Crashed, Awake
  <2> QED
    BY ONLY Books, <2>1, <2>2 DEF Books, ListTypes
<1>44. Books' \/ (GoesOn /\ Settled)
  BY ONLY Steps, [Next]_vars, <1>1, <1>2, <1>3, <1>4, <1>5, <1>6, <1>7, <1>8, <1>9, <1>10, <1>11,
          <1>12, <1>13, <1>14, <1>15, <1>16, <1>17, <1>18, <1>19, <1>20, <1>21, <1>22, <1>23, <1>24,
          <1>25, <1>26, <1>27, <1>28, <1>29, <1>30, <1>31, <1>32, <1>33, <1>34, <1>35, <1>36, <1>37,
          <1>38, <1>39, <1>40, <1>41, <1>42, <1>43
<1> QED
  BY <1>44, BooksKept DEF GoesOn

-----------------------------------------------------------------------------
(* Wake-ups *)

\* A worker that will look at the global queue before it parks.
Looking(w) == \/ pc[w] \notin {"impudence", "victim", "lowSize", "steal", "park", "parked"}
              \/ w \in woken

Watch ==
    /\ permission # "Allowed" => asleep # Workers
    /\ global # <<>> /\ ~ closed /\ permission = "Allowed" =>
          (\E t \in Threads : pc[t] = "prohibit") \/ (\E w \in Workers : Looking(w))

\* A step that gives no worker a reason to look and takes none away.
Watched == /\ closed => closed'
           /\ asleep' \subseteq asleep /\ permission' = permission
           /\ global = <<>> => global' = <<>>
           /\ \A t \in Threads : pc[t] = "prohibit" => pc'[t] = "prohibit"
           /\ \A w \in Workers : Looking(w) => Looking(w)'

LEMMA WatchKept == ASSUME Watch, SleepTypes, Watched PROVE Watch'
  BY DEF Watch, SleepTypes, Watched


LEMMA NextWatch == ASSUME Labels, GlobalTypes, SleepTypes, Waiter, Watch, [Next]_vars PROVE Watch'
<1> USE FastPoolAssumption
    DEF Labels, SleepTypes, Watched, Looking, Goto, Home, Threads, globalVars, coordinatorVars
<1>1. ASSUME NEW w \in Workers, Construct(w) PROVE Watched
  BY <1>1 DEF Construct, Acquire, Lists
<1>2. ASSUME NEW t \in Threads, NEW x \in Tasks, \E hint \in {"Next", "UpToYou", "Slow"} : Execute(t, x, hint), GoesOn PROVE Watched
  BY <1>2 DEF Execute, MaySubmit, Entry
<1>3. ASSUME NEW t \in Threads, CheckClosed(t), GoesOn PROVE Watched
  BY <1>3 DEF CheckClosed
<1>4. ASSUME NEW t \in Threads, PushOne(t), GoesOn PROVE Watch'
  <2>1. pc'[t] = "prohibit" /\ UNCHANGED <<permission, asleep>>
    BY <1>4 DEF PushOne
  <2> QED
    BY <2>1 DEF Watch
<1>5. ASSUME NEW t \in Threads, ProhibitAfterPush(t), GoesOn PROVE Watch'
  <2>1. permission' # "Allowed"
    BY <1>5 DEF ProhibitAfterPush, ProhibitParking, Permit
  <2>2. asleep' # Workers
    <3>1. CASE \E w \in asleep : Wake(w)
      BY <3>1 DEF Wake
    <3>2. CASE asleep = {} /\ UNCHANGED <<asleep, woken>>
      <4>1. 1 \in Workers
        BY DEF Workers
      <4> QED
        BY <3>2, <4>1
    <3> QED
      BY <1>5, <3>1, <3>2 DEF ProhibitAfterPush, ProhibitParking, NotifyOne
  <2> QED
    BY <2>1, <2>2 DEF Watch
<1>6. ASSUME NEW w \in Workers, Refuse(w), GoesOn PROVE Watched
  BY <1>6 DEF Refuse, Return
<1>7. ASSUME NEW w \in Workers, PushToLifoSlot(w), GoesOn PROVE Watched
  BY <1>7 DEF PushToLifoSlot, Return
<1>8. ASSUME NEW w \in Workers, PushToLocalQueue(w), GoesOn PROVE Watched
  BY <1>8 DEF PushToLocalQueue, Return
<1>9. ASSUME NEW w \in Workers, LocalQueueFull(w), GoesOn PROVE Watched
  BY <1>9 DEF LocalQueueFull
<1>10. ASSUME NEW w \in Workers, OffloadGrab(w), GoesOn PROVE Watched
  BY <1>10 DEF OffloadGrab
<1>11. ASSUME NEW w \in Workers, OffloadCheck(w), GoesOn PROVE Watched
  BY <1>11 DEF OffloadCheck
<1>12. ASSUME NEW w \in Workers, Offload(w), GoesOn PROVE Watch'
  <2>1. pc'[w] = "awakeOne" /\ UNCHANGED <<permission, asleep, woken>>
    BY <1>12 DEF Offload
  <2>2. Looking(w)'
    BY <2>1
  <2> QED
    BY <2>1, <2>2 DEF Watch
<1>13. ASSUME NEW w \in Workers, AwakeAfterOffload(w), GoesOn PROVE Watched
  BY <1>13 DEF AwakeAfterOffload, AwakeOne, NotifyOne, Wake, Return
<1>14. ASSUME NEW w \in Workers, StartPass(w), GoesOn PROVE Watched
  BY <1>14 DEF StartPass
<1>15. ASSUME NEW w \in Workers, Tick(w), GoesOn PROVE Watched
  BY <1>15 DEF Tick, AwakeOne, NotifyOne, Wake
<1>16. ASSUME NEW w \in Workers, TakeLifo(w), GoesOn PROVE Watched
  BY <1>16 DEF TakeLifo, Pick
<1>17. ASSUME NEW w \in Workers, Pop(w), GoesOn PROVE Watched
  BY <1>17 DEF Pop, SkipLifo, Pick
<1>18. ASSUME NEW w \in Workers, PopNothing(w), GoesOn PROVE Watched
  BY <1>18 DEF PopNothing, SkipLifo
<1>19. ASSUME NEW w \in Workers, GrabGlobal(w), GoesOn PROVE Watched
  BY <1>19 DEF GrabGlobal, GrabFront
<1>20. ASSUME NEW w \in Workers, GrabNothing(w), GoesOn PROVE Watch'
  <2>1. UNCHANGED <<global, closed, permission, asleep, woken>>
    BY <1>20 DEF GrabNothing
  <2>2. Capacity \div 2 \in Nat /\ Capacity \div 2 > 0
    BY CapacityFacts
  <2>3. global = <<>>
    BY <1>20, <2>2, ShareFits DEF GrabNothing, GlobalTypes
  <2> QED
    BY <2>1, <2>3 DEF Watch
<1>21. ASSUME NEW w \in Workers, AllowAfterGrab(w), GoesOn PROVE Watch'
  <2>1. pc'[w] = "regrab" /\ asleep' = asleep /\ permission' \in {permission, "Allowed"}
    BY <1>21 DEF AllowAfterGrab, AllowParking, Permit
  <2>2. Looking(w)'
    BY <2>1
  <2> QED
    BY <2>1, <2>2 DEF Watch
<1>22. ASSUME NEW w \in Workers, Spread(w), GoesOn PROVE Watched
  BY <1>22 DEF Spread, Pick
<1>23. ASSUME NEW w \in Workers, CheckImpudence(w), GoesOn PROVE Watched
  BY <1>23 DEF CheckImpudence, GiveUp
<1>24. ASSUME NEW w \in Workers, NEW v \in Workers, GiveVictim(w, v), GoesOn PROVE Watched
  BY <1>24 DEF GiveVictim
<1>25. ASSUME NEW w \in Workers, NoVictim(w), GoesOn PROVE Watched
  BY <1>25 DEF NoVictim, GiveUp
<1>26. ASSUME NEW w \in Workers, LowSize(w), GoesOn PROVE Watched
  BY <1>26 DEF LowSize
<1>27. ASSUME NEW w \in Workers, Steal(w), GoesOn PROVE Watched
  BY <1>27 DEF Steal
<1>28. ASSUME NEW w \in Workers, TryParkMe(w), GoesOn PROVE Watch'
  <2>1. CASE UNCHANGED coordinatorVars /\ Goto(w, "pick")
    <3>1. Watched
      BY <1>28, <2>1 DEF Watched, TryParkMe
    <3> QED
      BY <3>1, WatchKept
  <2>2. CASE Park(w) /\ Goto(w, "parked")
    <3>1. permission = "Allowed" /\ permission' = permission /\ UNCHANGED <<global, closed, woken>>
      BY <1>28, <2>2 DEF TryParkMe, Park
    <3>2. pc[w] = "park" /\ pc'[w] = "parked" /\ \A t \in Threads : t # w => pc'[t] = pc[t]
      BY <1>28, <2>2 DEF TryParkMe
    <3>3. \A t \in Threads : pc[t] = "prohibit" => pc'[t] = "prohibit"
      BY <3>2
    <3>4. \A v \in Workers : Looking(v) => Looking(v)'
      BY <3>1, <3>2
    <3> QED
      BY ONLY Watch, <3>1, <3>3, <3>4 DEF Watch
  <2> QED
    BY <1>28, <2>1, <2>2 DEF TryParkMe
<1>29. ASSUME NEW w \in Workers, WakeUp(w), GoesOn PROVE Watched
  BY <1>29 DEF WakeUp, Unpark, Acquire, Lists
<1>30. ASSUME NEW w \in Workers, LeaveLoop(w), GoesOn PROVE Watched
  BY <1>30 DEF LeaveLoop, Release, Lists
<1>31. ASSUME NEW w \in Workers, DiscardOwn(w), GoesOn PROVE Watched
  BY <1>31 DEF DiscardOwn
<1>32. ASSUME NEW w \in Workers, RunReturns(w), GoesOn PROVE Watched
  BY <1>32 DEF RunReturns, TaskOver
<1>33. ASSUME NEW w \in Workers, RunThrows(w), GoesOn PROVE Watched
  BY <1>33 DEF RunThrows, TaskOver
<1>34. ASSUME NEW c \in Clients, WaitIdle(c), GoesOn PROVE Watched
  BY <1>34 DEF WaitIdle, ClientOnly
<1>35. ASSUME NEW c \in Clients, GlobalIsZero(c), GoesOn PROVE Watched
  BY <1>35 DEF GlobalIsZero, ClientOnly
<1>36. ASSUME NEW c \in Clients, AwakeIsZero(c), GoesOn PROVE Watched
  BY <1>36 DEF AwakeIsZero, ClientOnly
<1>37. ASSUME NEW c \in Clients, Stop(c), GoesOn PROVE Watched
  BY <1>37 DEF Stop, ClientOnly
<1>38. ASSUME NEW c \in Clients, StopWorker(c), GoesOn PROVE Watched
  BY <1>38 DEF StopWorker, ClientOnly
<1>39. ASSUME NEW c \in Clients, StopGlobal(c), GoesOn PROVE Watched
  BY <1>39 DEF StopGlobal, CloseQueue, ClientOnly
<1>40. ASSUME NEW c \in Clients, DrainGlobal(c), GoesOn PROVE Watch'
  <2>1. closed /\ UNCHANGED <<closed, permission, asleep>>
    BY <1>40 DEF DrainGlobal, Drain, Waiter
  <2> QED
    BY <2>1 DEF Watch
<1>41. ASSUME NEW c \in Clients, AwakeAll(c), GoesOn PROVE Watch'
  <2>1. asleep' = {} /\ permission' = "PermanentlyProhibited"
    BY <1>41 DEF AwakeAll, AwakeEveryoneForever
  <2>2. 1 \in Workers
    BY DEF Workers
  <2> QED
    BY <2>1, <2>2 DEF Watch
<1>42. ASSUME NEW c \in Clients, Join(c), GoesOn PROVE Watched
  BY <1>42 DEF Join, ClientOnly
<1>43. CASE UNCHANGED vars
  <2>1. Watched
    BY <1>43 DEF vars, Watched
  <2> QED
    BY <2>1, WatchKept
<1>44. Watch' \/ Watched
  BY ONLY Steps, [Next]_vars, <1>1, <1>2, <1>3, <1>4, <1>5, <1>6, <1>7, <1>8, <1>9, <1>10, <1>11,
          <1>12, <1>13, <1>14, <1>15, <1>16, <1>17, <1>18, <1>19, <1>20, <1>21, <1>22, <1>23, <1>24,
          <1>25, <1>26, <1>27, <1>28, <1>29, <1>30, <1>31, <1>32, <1>33, <1>34, <1>35, <1>36, <1>37,
          <1>38, <1>39, <1>40, <1>41, <1>42, <1>43
<1> QED
  BY <1>44, WatchKept

-----------------------------------------------------------------------------
(* The invariant *)

IInv == Types /\ Labels /\ Control /\ Waiter /\ Hands /\ Books /\ Watch

LEMMA InitIInv == Init => IInv
<1> SUFFICES ASSUME Init PROVE IInv
  OBVIOUS
<1> USE FastPoolAssumption DEF Init, GlobalInit, CoordinatorInit, WorkerInit, Threads
<1>1. Types
  <2>1. GlobalTypes /\ SleepTypes
    <3>1. global \in Seq(Items) /\ outstanding \in Nat /\ closed \in BOOLEAN
      <4>1. closed = FALSE
        OBVIOUS
      <4>2. closed \in BOOLEAN
        BY ONLY <4>1
      <4>3. global \in Seq(Items) /\ outstanding \in Nat
        OBVIOUS
      <4> QED
        BY <4>2, <4>3
    <3>2. children \in [Tasks -> SUBSET (Tasks \ Roots)]
      <4>1. Programs \subseteq [Tasks -> SUBSET (Tasks \ Roots)] /\ children \in Programs
        OBVIOUS
      <4> QED
        BY ONLY <4>1
    <3> QED
      BY <3>1, <3>2 DEF GlobalTypes, SleepTypes
  <2>2. QueueTypes
    BY DEF QueueTypes
  <2>3. SlotTypes
    <3>1. 0 \in 0 .. LifoLimit /\ 0 \in 0 .. CycleLimit - 1
      OBVIOUS
    <3> QED
      BY <3>1 DEF SlotTypes
  <2>4. StealTypes /\ RunTypes
    BY DEF StealTypes, RunTypes
  <2> QED
    BY <2>1, <2>2, <2>3, <2>4 DEF Types
<1>2. Labels
  BY DEF Labels, WorkerLabels, ClientLabels, Absent
<1>3. Control /\ Waiter /\ Hands
  BY DEF Control, Placing, InTask, Waiter, OutstandingIsNonEmpty, Hands
<1>4. Books
  <2>1. Awake = {} /\ {w \in Workers : pc[w] = "parked"} = {}
    BY DEF Awake, Absent
  <2>2. Hold(active, passive, {})
    <3>1. active \o passive = <<>> /\ <<>> \in Seq({}) /\ DOMAIN <<>> = {}
      OBVIOUS
    <3>2. IsInjective(<<>>) /\ ToSet(<<>>) = {}
      BY <3>1 DEF IsInjective, ToSet
    <3> QED
      BY <3>1, <3>2 DEF Hold
  <2>3. ListTypes
    BY DEF ListTypes
  <2> QED
    BY <2>1, <2>2, <2>3, FS_EmptySet DEF Books
<1>5. Watch
  BY DEF Watch
<1> QED
  BY <1>1, <1>2, <1>3, <1>4, <1>5 DEF IInv

\* The whole invariant, on which what the pool promises rests.
THEOREM Inductive == Spec => []IInv
<1>1. IInv /\ [Next]_vars => IInv'
  BY NextTypes, NextLabels, NextControl, NextWaiter, NextHands, NextBooks, NextWatch DEF IInv, Types
<1> QED
  BY InitIInv, <1>1, PTL DEF Spec

-----------------------------------------------------------------------------
(* What the pool promises *)

\* A worker that parks or leaves has nothing in its own queues, and PushMany
\* finds the room it takes for granted.
THEOREM NothingLeftBehind == Spec => []EmptyHanded
<1>1. IInv => EmptyHanded
  BY DEF IInv, Hands, EmptyHanded, ParkedHasNothing, PushManyIntoEmpty
<1> QED
  BY Inductive, <1>1, PTL

\* Both counters that WaitIdle reads say what it takes them for: outstanding
\* whether the global queue holds tasks, awake how many workers may.
THEOREM Counted == Spec => []CountersAreTrue
<1>1. IInv => CountersAreTrue
  <2> SUFFICES ASSUME IInv PROVE CountersAreTrue
    OBVIOUS
  <2>1. ~ Crashed => /\ Listed = Awake /\ awake = Cardinality(Awake)
                     /\ Len(active) + Len(passive) = Cardinality(Awake)
    BY HoldFacts DEF IInv, Books, Listed
  <2> QED
    BY <2>1 DEF IInv, Books, Waiter, Awake, Absent, CountersAreTrue, AwakeAreListed
<1> QED
  BY Inductive, <1>1, PTL

\* While a task waits in the global queue, not all workers sleep without a
\* wake-up on its way.
THEOREM SomebodyComes == Spec => []NoLostWakeUp
<1>1. IInv => NoLostWakeUp
  <2> SUFFICES ASSUME IInv, global # <<>>, ~ closed,
                      \A t \in Threads : pc[t] # "prohibit"
               PROVE  \E w \in Workers : pc[w] # "parked" \/ w \in woken
    BY DEF NoLostWakeUp
  <2>1. CASE permission = "Allowed"
    BY <2>1 DEF IInv, Watch, Looking
  <2>2. CASE permission # "Allowed"
    BY <2>2 DEF IInv, Types, SleepTypes, Watch, Books
  <2> QED
    BY <2>1, <2>2
<1> QED
  BY Inductive, <1>1, PTL

-----------------------------------------------------------------------------
(* After Stop *)

\* A worker that has left its loop takes nothing up again.
LEMMA ExitedForever ==
    ASSUME Labels, Control, \A w \in Workers : pc[w] = "exited", [Next]_vars
    PROVE  (\A w \in Workers : pc'[w] = "exited") /\ UNCHANGED <<done, current, todo>>
<1> DEFINE Idle == (\A w \in Workers : pc'[w] = "exited") /\ UNCHANGED <<done, current, todo>>
<1> USE FastPoolAssumption DEF Labels, ClientLabels, Threads, Goto, fateVars, runVars, Home
<1>1. ASSUME NEW w \in Workers, Construct(w) PROVE Idle
  BY <1>1 DEF Construct, Acquire, Lists
<1>2. ASSUME NEW t \in Threads, NEW x \in Tasks, \E hint \in {"Next", "UpToYou", "Slow"} : Execute(t, x, hint), GoesOn PROVE Idle
  BY <1>2 DEF Execute, MaySubmit, Entry
<1>3. ASSUME NEW t \in Threads, CheckClosed(t), GoesOn PROVE Idle
  BY <1>3 DEF CheckClosed
<1>4. ASSUME NEW t \in Threads, PushOne(t), GoesOn PROVE Idle
  BY <1>4 DEF PushOne, PushBack
<1>5. ASSUME NEW t \in Threads, ProhibitAfterPush(t), GoesOn PROVE Idle
  BY <1>5 DEF ProhibitAfterPush, ProhibitParking, Permit, NotifyOne, Wake, Return
<1>6. ASSUME NEW w \in Workers, Refuse(w), GoesOn PROVE Idle
  BY <1>6 DEF Refuse, Return
<1>7. ASSUME NEW w \in Workers, PushToLifoSlot(w), GoesOn PROVE Idle
  BY <1>7 DEF PushToLifoSlot, Return
<1>8. ASSUME NEW w \in Workers, PushToLocalQueue(w), GoesOn PROVE Idle
  BY <1>8 DEF PushToLocalQueue, Return
<1>9. ASSUME NEW w \in Workers, LocalQueueFull(w), GoesOn PROVE Idle
  BY <1>9 DEF LocalQueueFull
<1>10. ASSUME NEW w \in Workers, OffloadGrab(w), GoesOn PROVE Idle
  BY <1>10 DEF OffloadGrab
<1>11. ASSUME NEW w \in Workers, OffloadCheck(w), GoesOn PROVE Idle
  BY <1>11 DEF OffloadCheck
<1>12. ASSUME NEW w \in Workers, Offload(w), GoesOn PROVE Idle
  BY <1>12 DEF Offload, PushBack
<1>13. ASSUME NEW w \in Workers, AwakeAfterOffload(w), GoesOn PROVE Idle
  BY <1>13 DEF AwakeAfterOffload, AwakeOne, NotifyOne, Wake, Return
<1>14. ASSUME NEW w \in Workers, StartPass(w), GoesOn PROVE Idle
  BY <1>14 DEF StartPass
<1>15. ASSUME NEW w \in Workers, Tick(w), GoesOn PROVE Idle
  BY <1>15 DEF Tick, AwakeOne, NotifyOne, Wake
<1>16. ASSUME NEW w \in Workers, TakeLifo(w), GoesOn PROVE Idle
  BY <1>16 DEF TakeLifo, Pick
<1>17. ASSUME NEW w \in Workers, Pop(w), GoesOn PROVE Idle
  BY <1>17 DEF Pop, SkipLifo, Pick
<1>18. ASSUME NEW w \in Workers, PopNothing(w), GoesOn PROVE Idle
  BY <1>18 DEF PopNothing, SkipLifo
<1>19. ASSUME NEW w \in Workers, GrabGlobal(w), GoesOn PROVE Idle
  BY <1>19 DEF GrabGlobal, GrabFront
<1>20. ASSUME NEW w \in Workers, GrabNothing(w), GoesOn PROVE Idle
  BY <1>20 DEF GrabNothing
<1>21. ASSUME NEW w \in Workers, AllowAfterGrab(w), GoesOn PROVE Idle
  BY <1>21 DEF AllowAfterGrab, AllowParking, Permit
<1>22. ASSUME NEW w \in Workers, Spread(w), GoesOn PROVE Idle
  BY <1>22 DEF Spread, Pick
<1>23. ASSUME NEW w \in Workers, CheckImpudence(w), GoesOn PROVE Idle
  BY <1>23 DEF CheckImpudence, GiveUp
<1>24. ASSUME NEW w \in Workers, NEW v \in Workers, GiveVictim(w, v), GoesOn PROVE Idle
  BY <1>24 DEF GiveVictim
<1>25. ASSUME NEW w \in Workers, NoVictim(w), GoesOn PROVE Idle
  BY <1>25 DEF NoVictim, GiveUp
<1>26. ASSUME NEW w \in Workers, LowSize(w), GoesOn PROVE Idle
  BY <1>26 DEF LowSize
<1>27. ASSUME NEW w \in Workers, Steal(w), GoesOn PROVE Idle
  BY <1>27 DEF Steal
<1>28. ASSUME NEW w \in Workers, TryParkMe(w), GoesOn PROVE Idle
  BY <1>28 DEF TryParkMe, Park, Unlink, Lists
<1>29. ASSUME NEW w \in Workers, WakeUp(w), GoesOn PROVE Idle
  BY <1>29 DEF WakeUp, Unpark, Acquire, Lists
<1>30. ASSUME NEW w \in Workers, LeaveLoop(w), GoesOn PROVE Idle
  BY <1>30 DEF LeaveLoop, Release, Lists
<1>31. ASSUME NEW w \in Workers, DiscardOwn(w), GoesOn PROVE Idle
  BY <1>31 DEF DiscardOwn
<1>32. ASSUME NEW w \in Workers, RunReturns(w), GoesOn PROVE Idle
  BY <1>32 DEF RunReturns, TaskOver
<1>33. ASSUME NEW w \in Workers, RunThrows(w), GoesOn PROVE Idle
  BY <1>33 DEF RunThrows, TaskOver
<1>34. ASSUME NEW c \in Clients, WaitIdle(c), GoesOn PROVE Idle
  BY <1>34 DEF WaitIdle, ClientOnly
<1>35. ASSUME NEW c \in Clients, GlobalIsZero(c), GoesOn PROVE Idle
  BY <1>35 DEF GlobalIsZero, ClientOnly
<1>36. ASSUME NEW c \in Clients, AwakeIsZero(c), GoesOn PROVE Idle
  BY <1>36 DEF AwakeIsZero, ClientOnly
<1>37. ASSUME NEW c \in Clients, Stop(c), GoesOn PROVE Idle
  BY <1>37 DEF Stop, ClientOnly
<1>38. ASSUME NEW c \in Clients, StopWorker(c), GoesOn PROVE Idle
  BY <1>38 DEF StopWorker, ClientOnly
<1>39. ASSUME NEW c \in Clients, StopGlobal(c), GoesOn PROVE Idle
  BY <1>39 DEF StopGlobal, CloseQueue, ClientOnly
<1>40. ASSUME NEW c \in Clients, DrainGlobal(c), GoesOn PROVE Idle
  BY <1>40 DEF DrainGlobal, Drain, ClientOnly
<1>41. ASSUME NEW c \in Clients, AwakeAll(c), GoesOn PROVE Idle
  BY <1>41 DEF AwakeAll, AwakeEveryoneForever, ClientOnly
<1>42. ASSUME NEW c \in Clients, Join(c), GoesOn PROVE Idle
  BY <1>42 DEF Join, ClientOnly
<1>43. CASE UNCHANGED vars
  BY <1>43 DEF vars
<1> QED
  BY ONLY Steps, [Next]_vars, <1>1, <1>2, <1>3, <1>4, <1>5, <1>6, <1>7, <1>8, <1>9, <1>10, <1>11,
          <1>12, <1>13, <1>14, <1>15, <1>16, <1>17, <1>18, <1>19, <1>20, <1>21, <1>22, <1>23, <1>24,
          <1>25, <1>26, <1>27, <1>28, <1>29, <1>30, <1>31, <1>32, <1>33, <1>34, <1>35, <1>36, <1>37,
          <1>38, <1>39, <1>40, <1>41, <1>42, <1>43

\* Stop returns when every worker has left.
LEMMA OnlyJoinReturns ==
    ASSUME Labels, [Next]_vars, NEW c \in Clients, pc'[c] = "stopped", pc[c] # "stopped"
    PROVE  \A w \in Workers : pc[w] = "exited"
<1> DEFINE Left == \A w \in Workers : pc[w] = "exited"
<1> USE FastPoolAssumption DEF Labels, Threads, Goto, Home
<1>1. ASSUME NEW w \in Workers, Construct(w) PROVE Left
  BY <1>1 DEF Construct, Acquire, Lists
<1>2. ASSUME NEW t \in Threads, NEW x \in Tasks, \E hint \in {"Next", "UpToYou", "Slow"} : Execute(t, x, hint), GoesOn PROVE Left
  BY <1>2 DEF Execute, MaySubmit, Entry
<1>3. ASSUME NEW t \in Threads, CheckClosed(t), GoesOn PROVE Left
  BY <1>3 DEF CheckClosed
<1>4. ASSUME NEW t \in Threads, PushOne(t), GoesOn PROVE Left
  BY <1>4 DEF PushOne, PushBack
<1>5. ASSUME NEW t \in Threads, ProhibitAfterPush(t), GoesOn PROVE Left
  BY <1>5 DEF ProhibitAfterPush, ProhibitParking, Permit, NotifyOne, Wake, Return
<1>6. ASSUME NEW w \in Workers, Refuse(w), GoesOn PROVE Left
  BY <1>6 DEF Refuse, Return
<1>7. ASSUME NEW w \in Workers, PushToLifoSlot(w), GoesOn PROVE Left
  BY <1>7 DEF PushToLifoSlot, Return
<1>8. ASSUME NEW w \in Workers, PushToLocalQueue(w), GoesOn PROVE Left
  BY <1>8 DEF PushToLocalQueue, Return
<1>9. ASSUME NEW w \in Workers, LocalQueueFull(w), GoesOn PROVE Left
  BY <1>9 DEF LocalQueueFull
<1>10. ASSUME NEW w \in Workers, OffloadGrab(w), GoesOn PROVE Left
  BY <1>10 DEF OffloadGrab
<1>11. ASSUME NEW w \in Workers, OffloadCheck(w), GoesOn PROVE Left
  BY <1>11 DEF OffloadCheck
<1>12. ASSUME NEW w \in Workers, Offload(w), GoesOn PROVE Left
  BY <1>12 DEF Offload, PushBack
<1>13. ASSUME NEW w \in Workers, AwakeAfterOffload(w), GoesOn PROVE Left
  BY <1>13 DEF AwakeAfterOffload, AwakeOne, NotifyOne, Wake, Return
<1>14. ASSUME NEW w \in Workers, StartPass(w), GoesOn PROVE Left
  BY <1>14 DEF StartPass
<1>15. ASSUME NEW w \in Workers, Tick(w), GoesOn PROVE Left
  BY <1>15 DEF Tick, AwakeOne, NotifyOne, Wake
<1>16. ASSUME NEW w \in Workers, TakeLifo(w), GoesOn PROVE Left
  BY <1>16 DEF TakeLifo, Pick
<1>17. ASSUME NEW w \in Workers, Pop(w), GoesOn PROVE Left
  BY <1>17 DEF Pop, SkipLifo, Pick
<1>18. ASSUME NEW w \in Workers, PopNothing(w), GoesOn PROVE Left
  BY <1>18 DEF PopNothing, SkipLifo
<1>19. ASSUME NEW w \in Workers, GrabGlobal(w), GoesOn PROVE Left
  BY <1>19 DEF GrabGlobal, GrabFront
<1>20. ASSUME NEW w \in Workers, GrabNothing(w), GoesOn PROVE Left
  BY <1>20 DEF GrabNothing
<1>21. ASSUME NEW w \in Workers, AllowAfterGrab(w), GoesOn PROVE Left
  BY <1>21 DEF AllowAfterGrab, AllowParking, Permit
<1>22. ASSUME NEW w \in Workers, Spread(w), GoesOn PROVE Left
  BY <1>22 DEF Spread, Pick
<1>23. ASSUME NEW w \in Workers, CheckImpudence(w), GoesOn PROVE Left
  BY <1>23 DEF CheckImpudence, GiveUp
<1>24. ASSUME NEW w \in Workers, NEW v \in Workers, GiveVictim(w, v), GoesOn PROVE Left
  BY <1>24 DEF GiveVictim
<1>25. ASSUME NEW w \in Workers, NoVictim(w), GoesOn PROVE Left
  BY <1>25 DEF NoVictim, GiveUp
<1>26. ASSUME NEW w \in Workers, LowSize(w), GoesOn PROVE Left
  BY <1>26 DEF LowSize
<1>27. ASSUME NEW w \in Workers, Steal(w), GoesOn PROVE Left
  BY <1>27 DEF Steal
<1>28. ASSUME NEW w \in Workers, TryParkMe(w), GoesOn PROVE Left
  BY <1>28 DEF TryParkMe, Park, Unlink, Lists
<1>29. ASSUME NEW w \in Workers, WakeUp(w), GoesOn PROVE Left
  BY <1>29 DEF WakeUp, Unpark, Acquire, Lists
<1>30. ASSUME NEW w \in Workers, LeaveLoop(w), GoesOn PROVE Left
  BY <1>30 DEF LeaveLoop, Release, Lists
<1>31. ASSUME NEW w \in Workers, DiscardOwn(w), GoesOn PROVE Left
  BY <1>31 DEF DiscardOwn
<1>32. ASSUME NEW w \in Workers, RunReturns(w), GoesOn PROVE Left
  BY <1>32 DEF RunReturns, TaskOver
<1>33. ASSUME NEW w \in Workers, RunThrows(w), GoesOn PROVE Left
  BY <1>33 DEF RunThrows, TaskOver
<1>34. ASSUME NEW b \in Clients, WaitIdle(b), GoesOn PROVE Left
  BY <1>34 DEF WaitIdle, ClientOnly
<1>35. ASSUME NEW b \in Clients, GlobalIsZero(b), GoesOn PROVE Left
  BY <1>35 DEF GlobalIsZero, ClientOnly
<1>36. ASSUME NEW b \in Clients, AwakeIsZero(b), GoesOn PROVE Left
  BY <1>36 DEF AwakeIsZero, ClientOnly
<1>37. ASSUME NEW b \in Clients, Stop(b), GoesOn PROVE Left
  BY <1>37 DEF Stop, ClientOnly
<1>38. ASSUME NEW b \in Clients, StopWorker(b), GoesOn PROVE Left
  BY <1>38 DEF StopWorker, ClientOnly
<1>39. ASSUME NEW b \in Clients, StopGlobal(b), GoesOn PROVE Left
  BY <1>39 DEF StopGlobal, CloseQueue, ClientOnly
<1>40. ASSUME NEW b \in Clients, DrainGlobal(b), GoesOn PROVE Left
  BY <1>40 DEF DrainGlobal, Drain, ClientOnly
<1>41. ASSUME NEW b \in Clients, AwakeAll(b), GoesOn PROVE Left
  BY <1>41 DEF AwakeAll, AwakeEveryoneForever, ClientOnly
<1>42. ASSUME NEW b \in Clients, Join(b), GoesOn PROVE Left
  BY <1>42 DEF Join, ClientOnly
<1>43. CASE UNCHANGED vars
  BY <1>43 DEF vars
<1> QED
  BY ONLY Steps, [Next]_vars, <1>1, <1>2, <1>3, <1>4, <1>5, <1>6, <1>7, <1>8, <1>9, <1>10, <1>11,
          <1>12, <1>13, <1>14, <1>15, <1>16, <1>17, <1>18, <1>19, <1>20, <1>21, <1>22, <1>23, <1>24,
          <1>25, <1>26, <1>27, <1>28, <1>29, <1>30, <1>31, <1>32, <1>33, <1>34, <1>35, <1>36, <1>37,
          <1>38, <1>39, <1>40, <1>41, <1>42, <1>43

\* From the moment Stop returns no worker runs a task.
THEOREM QuietAfterStop == Spec => NothingRunsAfterStop
<1> DEFINE Over == (\E c \in Clients : pc[c] = "stopped") => \A w \in Workers : pc[w] = "exited"
<1>1. Init => Over
  BY FastPoolAssumption DEF Init, Threads
<1>2. IInv /\ Over /\ [Next]_vars => Over'
  <2> SUFFICES ASSUME IInv, Over, [Next]_vars, NEW c \in Clients, pc'[c] = "stopped"
               PROVE  \A w \in Workers : pc'[w] = "exited"
    OBVIOUS
  <2>1. \A w \in Workers : pc[w] = "exited"
    BY OnlyJoinReturns DEF IInv
  <2> QED
    BY <2>1, ExitedForever DEF IInv
<1>3. IInv /\ Over /\ [Next]_vars => [(\E c \in Clients : pc[c] = "stopped") => UNCHANGED <<done, current, todo>>]_vars
  BY ExitedForever DEF IInv
<1> QED
  BY Inductive, <1>1, <1>2, <1>3, PTL DEF Spec, NothingRunsAfterStop

-----------------------------------------------------------------------------
(* Where a task is *)

\* The boxes that a task can be in: what a thread is submitting, what a worker
\* runs, its slot, its buffer and its queue, the global queue, and the ends.
Boxes == ({"arg"} \X Threads) \cup ({"current", "lifo", "buffer", "local"} \X Workers)
         \cup ({"global", "done", "discarded", "dropped"} \X {0})

In(x, k) ==
    \/ k[1] = "arg" /\ pc[k[2]] \in Placing /\ arg[k[2]] = x
    \/ k[1] = "global" /\ x \in ToSet(global)
    \/ k[1] = "current" /\ current[k[2]] = x
    \/ k[1] = "lifo" /\ lifo[k[2]] = x
    \/ k[1] = "buffer" /\ x \in ToSet(buffer[k[2]])
    \/ k[1] = "local" /\ x \in ToSet(local[k[2]])
    \/ k[1] = "done" /\ x \in done
    \/ k[1] = "discarded" /\ x \in discarded
    \/ k[1] = "dropped" /\ x \in dropped

\* A task that was handed in is in one box, another in none.
Placed == \A x \in Tasks : /\ \A k \in Boxes : In(x, k) => x \in handed
                           /\ x \in handed => \E l \in Boxes : \A k \in Boxes : In(x, k) <=> k = l

\* No queue holds a task twice.
SeqsOnce == /\ OnceIn(global)
            /\ \A w \in Workers : OnceIn(local[w]) /\ OnceIn(buffer[w])

\* What Execute was called with stays in its frame until it returns, also when
\* the task is somewhere else already.
ArgsOnce == \A t \in Threads : arg[t] \in Tasks =>
               /\ arg[t] \in handed
               /\ \A u \in Threads : u # t => arg[u] # arg[t]
               /\ \A w \in Workers : lifo[w] # arg[t]

\* A task is handed in by the one that has it as a child, while that one runs.
Family ==
    /\ \A x, y \in Tasks : x # y => children[x] \cap children[y] = {}
    /\ \A w \in Workers : /\ todo[w] \cap handed = {}
                          /\ todo[w] # {} => current[w] \in Tasks /\ todo[w] \subseteq children[current[w]]
    /\ \A x \in Tasks : children[x] \cap handed # {} => x \in done \/ \E w \in Workers : current[w] = x

FateTypes == discarded \subseteq Items /\ dropped \subseteq Items

Accounts == Placed /\ SeqsOnce /\ ArgsOnce /\ Family /\ FateTypes

LEMMA BoxFacts ==
    /\ \A t \in Threads : <<"arg", t>> \in Boxes
    /\ \A w \in Workers : /\ <<"current", w>> \in Boxes /\ <<"lifo", w>> \in Boxes
                          /\ <<"buffer", w>> \in Boxes /\ <<"local", w>> \in Boxes
    /\ <<"global", 0>> \in Boxes /\ <<"done", 0>> \in Boxes
    /\ <<"discarded", 0>> \in Boxes /\ <<"dropped", 0>> \in Boxes
  BY DEF Boxes

LEMMA BoxIs ==
    \A k \in Boxes :
       \/ k[1] = "arg" /\ k[2] \in Threads /\ k = <<"arg", k[2]>>
       \/ k[1] = "current" /\ k[2] \in Workers /\ k = <<"current", k[2]>>
       \/ k[1] = "lifo" /\ k[2] \in Workers /\ k = <<"lifo", k[2]>>
       \/ k[1] = "buffer" /\ k[2] \in Workers /\ k = <<"buffer", k[2]>>
       \/ k[1] = "local" /\ k[2] \in Workers /\ k = <<"local", k[2]>>
       \/ k[1] \in {"global", "done", "discarded", "dropped"} /\ k = <<k[1], 0>>
  BY DEF Boxes

LEMMA InFacts ==
    \A x, t :
      /\ In(x, <<"arg", t>>) <=> pc[t] \in Placing /\ arg[t] = x
      /\ In(x, <<"current", t>>) <=> current[t] = x
      /\ In(x, <<"lifo", t>>) <=> lifo[t] = x
      /\ In(x, <<"buffer", t>>) <=> x \in ToSet(buffer[t])
      /\ In(x, <<"local", t>>) <=> x \in ToSet(local[t])
      /\ In(x, <<"global", t>>) <=> x \in ToSet(global)
      /\ In(x, <<"done", t>>) <=> x \in done
      /\ In(x, <<"discarded", t>>) <=> x \in discarded
      /\ In(x, <<"dropped", t>>) <=> x \in dropped
  BY DEF In

\* What a step does to the task x: nothing, or it takes it from one box to
\* another, or brings it into the pool.
Same(x) == /\ x \in handed' <=> x \in handed
           /\ \A k \in Boxes : In(x, k)' <=> In(x, k)
Goes(x, s, d) == /\ x \in handed' <=> x \in handed
                 /\ s \in Boxes /\ d \in Boxes /\ In(x, s)
                 /\ \A k \in Boxes : In(x, k)' <=> k = d \/ (In(x, k) /\ k # s)
Enters(x, d) == /\ x \notin handed /\ x \in handed' /\ d \in Boxes
                /\ \A k \in Boxes : In(x, k)' <=> k = d \/ In(x, k)

LEMMA PlacedKept ==
    ASSUME Placed, \A x \in Tasks : \/ Same(x)
                                    \/ \E s, d \in Boxes : Goes(x, s, d)
                                    \/ \E d \in Boxes : Enters(x, d)
    PROVE  Placed'
<1>1. ASSUME NEW x \in Tasks
      PROVE  /\ \A k \in Boxes : In(x, k)' => x \in handed'
             /\ x \in handed' => \E l \in Boxes : \A k \in Boxes : In(x, k)' <=> k = l
  <2>1. /\ \A k \in Boxes : In(x, k) => x \in handed
        /\ x \in handed => \E l \in Boxes : \A k \in Boxes : In(x, k) <=> k = l
    BY DEF Placed
  <2>2. CASE Same(x)
    BY ONLY <2>1, <2>2 DEF Same
  <2>3. ASSUME NEW s \in Boxes, NEW d \in Boxes, Goes(x, s, d)
        PROVE  /\ \A k \in Boxes : In(x, k)' => x \in handed'
               /\ x \in handed' => \E l \in Boxes : \A k \in Boxes : In(x, k)' <=> k = l
    BY ONLY <2>1, <2>3 DEF Goes
  <2>4. ASSUME NEW d \in Boxes, Enters(x, d)
        PROVE  /\ \A k \in Boxes : In(x, k)' => x \in handed'
               /\ x \in handed' => \E l \in Boxes : \A k \in Boxes : In(x, k)' <=> k = l
    BY ONLY <2>1, <2>4 DEF Enters
  <2> QED
    BY <2>2, <2>3, <2>4
<1>2. Boxes' = Boxes /\ Tasks' = Tasks
  BY DEF Boxes
<1> QED
  BY ONLY <1>1, <1>2 DEF Placed


Keep(k) == \A x \in Tasks : In(x, k)' <=> In(x, k)

\* A step that moves the tasks of S from the box s to the box d.
Moves(S, s, d) ==
    /\ handed' = handed /\ s \in Boxes /\ d \in Boxes /\ s # d
    /\ \A x \in Tasks : x \in S => In(x, s)
    /\ \A x \in Tasks : In(x, s)' <=> In(x, s) /\ x \notin S
    /\ \A x \in Tasks : In(x, d)' <=> In(x, d) \/ x \in S
    /\ \A k \in Boxes : k # s /\ k # d => Keep(k)

LEMMA PlacedMoves == ASSUME Placed, NEW S, NEW s, NEW d, Moves(S, s, d) PROVE Placed'
<1>1. ASSUME NEW x \in Tasks PROVE Same(x) \/ Goes(x, s, d)
  <2>1. CASE x \in S
    BY ONLY <2>1, x \in Tasks, Moves(S, s, d) DEF Moves, Keep, Goes
  <2>2. CASE x \notin S
    BY ONLY <2>2, x \in Tasks, Moves(S, s, d) DEF Moves, Keep, Same
  <2> QED
    BY ONLY <2>1, <2>2
<1>2. s \in Boxes /\ d \in Boxes
  BY ONLY Moves(S, s, d) DEF Moves
<1> QED
  BY <1>1, <1>2, PlacedKept

LEMMA PlacedRests == ASSUME Placed, handed' = handed, \A k \in Boxes : Keep(k) PROVE Placed'
<1>1. \A x \in Tasks : Same(x)
  BY ONLY handed' = handed, \A k \in Boxes : Keep(k) DEF Keep, Same
<1> QED
  BY <1>1, PlacedKept

\* A box that nothing of a step touches.
LEMMA KeepFacts ==
    /\ \A t \in Threads : (pc'[t] \in Placing <=> pc[t] \in Placing) /\ (pc[t] \in Placing => arg'[t] = arg[t])
                            => Keep(<<"arg", t>>)
    /\ \A w \in Workers : /\ current'[w] = current[w] => Keep(<<"current", w>>)
                          /\ lifo'[w] = lifo[w] => Keep(<<"lifo", w>>)
                          /\ buffer'[w] = buffer[w] => Keep(<<"buffer", w>>)
                          /\ local'[w] = local[w] => Keep(<<"local", w>>)
    /\ global' = global => Keep(<<"global", 0>>)
    /\ done' = done => Keep(<<"done", 0>>)
    /\ discarded' = discarded => Keep(<<"discarded", 0>>)
    /\ dropped' = dropped => Keep(<<"dropped", 0>>)
  BY DEF Keep, In

\* All boxes but those of a set D.
LEMMA KeepOthers ==
    ASSUME NEW D,
           \A t \in Threads : <<"arg", t>> \notin D => /\ pc'[t] \in Placing <=> pc[t] \in Placing
                                                       /\ pc[t] \in Placing => arg'[t] = arg[t],
           \A w \in Workers : /\ <<"current", w>> \notin D => current'[w] = current[w]
                              /\ <<"lifo", w>> \notin D => lifo'[w] = lifo[w]
                              /\ <<"buffer", w>> \notin D => buffer'[w] = buffer[w]
                              /\ <<"local", w>> \notin D => local'[w] = local[w],
           <<"global", 0>> \notin D => global' = global,
           <<"done", 0>> \notin D => done' = done,
           <<"discarded", 0>> \notin D => discarded' = discarded,
           <<"dropped", 0>> \notin D => dropped' = dropped
    PROVE  \A k \in Boxes : k \notin D => Keep(k)
<1>1. ASSUME NEW k \in Boxes, k \notin D PROVE Keep(k)
  <2>1. CASE k[1] = "arg"
    BY <1>1, <2>1, BoxIs, KeepFacts
  <2>2. CASE k[1] = "current"
    <3>1. k[2] \in Workers /\ k = <<"current", k[2]>>
      BY ONLY <1>1, <2>2, BoxIs
    <3> QED
      BY ONLY <1>1, <3>1, KeepFacts,
              \A w \in Workers : <<"current", w>> \notin D => current'[w] = current[w]
  <2>3. CASE k[1] = "lifo"
    <3>1. k[2] \in Workers /\ k = <<"lifo", k[2]>>
      BY ONLY <1>1, <2>3, BoxIs
    <3> QED
      BY ONLY <1>1, <3>1, KeepFacts,
              \A w \in Workers : <<"lifo", w>> \notin D => lifo'[w] = lifo[w]
  <2>4. CASE k[1] = "buffer"
    <3>1. k[2] \in Workers /\ k = <<"buffer", k[2]>>
      BY ONLY <1>1, <2>4, BoxIs
    <3> QED
      BY ONLY <1>1, <3>1, KeepFacts,
              \A w \in Workers : <<"buffer", w>> \notin D => buffer'[w] = buffer[w]
  <2>5. CASE k[1] = "local"
    <3>1. k[2] \in Workers /\ k = <<"local", k[2]>>
      BY ONLY <1>1, <2>5, BoxIs
    <3> QED
      BY ONLY <1>1, <3>1, KeepFacts,
              \A w \in Workers : <<"local", w>> \notin D => local'[w] = local[w]
  <2>6. CASE k[1] = "global"
    BY <1>1, <2>6, BoxIs, KeepFacts
  <2>7. CASE k[1] = "done"
    BY <1>1, <2>7, BoxIs, KeepFacts
  <2>8. CASE k[1] = "discarded"
    BY <1>1, <2>8, BoxIs, KeepFacts
  <2>9. CASE k[1] = "dropped"
    BY <1>1, <2>9, BoxIs, KeepFacts
  <2> QED
    BY ONLY <1>1, <2>1, <2>2, <2>3, <2>4, <2>5, <2>6, <2>7, <2>8, <2>9, BoxIs
<1> QED
  BY <1>1


-----------------------------------------------------------------------------
(* Queues that hold no task twice *)

LEMMA OnceIs ==
    ASSUME NEW q \in Seq(Items)
    PROVE  /\ Len(q) \in Nat /\ DOMAIN q = 1 .. Len(q) /\ ToSet(q) = {q[i] : i \in 1 .. Len(q)}
           /\ ToSet(q) \subseteq Items
           /\ OnceIn(q) <=> \A i, j \in 1 .. Len(q) : i # j /\ q[i] = q[j] => q[i] = Garbage
<1>1. Len(q) \in Nat /\ DOMAIN q = 1 .. Len(q)
  OBVIOUS
<1>2. OnceIn(q) <=> \A i, j \in 1 .. Len(q) : i # j /\ q[i] = q[j] => q[i] = Garbage
  BY ONLY <1>1 DEF OnceIn
<1> QED
  BY <1>1, <1>2, ToSetIsImage

\* A queue cut in two.
LEMMA OnceCut ==
    ASSUME NEW q \in Seq(Items), NEW n \in 0 .. Len(q), OnceIn(q)
    PROVE  /\ OnceIn(SubSeq(q, 1, n)) /\ OnceIn(SubSeq(q, n + 1, Len(q)))
           /\ \A x \in Tasks : x \in ToSet(q) => \/ x \in ToSet(SubSeq(q, 1, n))
                                                 \/ x \in ToSet(SubSeq(q, n + 1, Len(q)))
           /\ \A x \in Tasks : x \in ToSet(SubSeq(q, 1, n)) =>
                 x \in ToSet(q) /\ x \notin ToSet(SubSeq(q, n + 1, Len(q)))
           /\ \A x \in Tasks : x \in ToSet(SubSeq(q, n + 1, Len(q))) => x \in ToSet(q)
<1> DEFINE a == SubSeq(q, 1, n)  b == SubSeq(q, n + 1, Len(q))
<1>1. /\ a \in Seq(Items) /\ b \in Seq(Items) /\ Len(a) = n /\ Len(b) = Len(q) - n
      /\ Len(q) \in Nat /\ n \in Nat /\ n <= Len(q)
  BY CutFacts
<1>2. (\A i \in 1 .. n : a[i] = q[i]) /\ \A i \in 1 .. Len(q) - n : b[i] = q[i + n]
  BY <1>1
<1> HIDE DEF a, b
<1>3. \A i, j \in 1 .. Len(q) : i # j /\ q[i] = q[j] => q[i] = Garbage
  BY OnceIs
<1>4. OnceIn(a)
  <2>1. \A i, j \in 1 .. Len(a) : i # j /\ a[i] = a[j] => a[i] = Garbage
    <3> SUFFICES ASSUME NEW i \in 1 .. Len(a), NEW j \in 1 .. Len(a), i # j, a[i] = a[j] PROVE a[i] = Garbage
      OBVIOUS
    <3>1. i \in 1 .. Len(q) /\ j \in 1 .. Len(q) /\ a[i] = q[i] /\ a[j] = q[j]
      BY ONLY <1>1, <1>2, i \in 1 .. Len(a), j \in 1 .. Len(a)
    <3> QED
      BY ONLY <1>3, <3>1, i # j, a[i] = a[j]
  <2> QED
    BY <1>1, <2>1, OnceIs
<1>5. OnceIn(b)
  <2>1. \A i, j \in 1 .. Len(b) : i # j /\ b[i] = b[j] => b[i] = Garbage
    <3> SUFFICES ASSUME NEW i \in 1 .. Len(b), NEW j \in 1 .. Len(b), i # j, b[i] = b[j] PROVE b[i] = Garbage
      OBVIOUS
    <3>1. /\ i + n \in 1 .. Len(q) /\ j + n \in 1 .. Len(q) /\ i + n # j + n
          /\ b[i] = q[i + n] /\ b[j] = q[j + n]
      BY ONLY <1>1, <1>2, i # j, i \in 1 .. Len(b), j \in 1 .. Len(b)
    <3> QED
      BY ONLY <1>3, <3>1, b[i] = b[j]
  <2> QED
    BY <1>1, <2>1, OnceIs
<1>6. /\ ToSet(q) = {q[i] : i \in 1 .. Len(q)} /\ ToSet(a) = {a[i] : i \in 1 .. n}
      /\ ToSet(b) = {b[i] : i \in 1 .. Len(q) - n}
  BY <1>1, OnceIs
<1>7. ASSUME NEW x \in Tasks
      PROVE  /\ x \in ToSet(q) => x \in ToSet(a) \/ x \in ToSet(b)
             /\ x \in ToSet(a) => x \in ToSet(q) /\ x \notin ToSet(b)
             /\ x \in ToSet(b) => x \in ToSet(q)
  <2>1. x \in ToSet(a) => \E i \in 1 .. Len(q) : i <= n /\ q[i] = x
    <3>1. ASSUME NEW i \in 1 .. n, x = a[i] PROVE \E j \in 1 .. Len(q) : j <= n /\ q[j] = x
      <4>1. i \in 1 .. Len(q) /\ i <= n /\ q[i] = x
        BY ONLY <1>1, <1>2, <3>1
      <4> QED
        BY ONLY <4>1
    <3> QED
      BY ONLY <1>6, <3>1
  <2>2. x \in ToSet(b) => \E i \in 1 .. Len(q) : i > n /\ q[i] = x
    <3>1. ASSUME NEW j \in 1 .. Len(q) - n, x = b[j] PROVE \E i \in 1 .. Len(q) : i > n /\ q[i] = x
      <4>1. j + n \in 1 .. Len(q) /\ j + n > n /\ q[j + n] = x
        BY ONLY <1>1, <1>2, <3>1
      <4> QED
        BY ONLY <4>1
    <3> QED
      BY ONLY <1>6, <3>1
  <2>3. x \in ToSet(q) => x \in ToSet(a) \/ x \in ToSet(b)
    <3>1. ASSUME NEW i \in 1 .. Len(q), x = q[i] PROVE x \in ToSet(a) \/ x \in ToSet(b)
      <4>1. CASE i <= n
        BY ONLY <1>1, <1>2, <1>6, <3>1, <4>1
      <4>2. CASE ~ i <= n
        <5>1. i - n \in 1 .. Len(q) - n /\ (i - n) + n = i
          BY ONLY <1>1, <3>1, <4>2
        <5> QED
          BY ONLY <1>2, <1>6, <3>1, <5>1
      <4> QED
        BY ONLY <4>1, <4>2
    <3> QED
      BY ONLY <1>6, <3>1
  <2>4. x \in ToSet(a) \/ x \in ToSet(b) => x \in ToSet(q)
    BY ONLY <1>6, <2>1, <2>2
  <2>5. ~ (x \in ToSet(a) /\ x \in ToSet(b))
    <3>1. x # Garbage
      BY ItemFacts
    <3>2. \A i, j \in 1 .. Len(q) : i <= n /\ j > n => i # j
      BY ONLY <1>1
    <3> QED
      BY ONLY <1>3, <2>1, <2>2, <3>1, <3>2
  <2> QED
    BY ONLY <2>3, <2>4, <2>5
<1> QED
  BY ONLY <1>4, <1>5, <1>7 DEF a, b

\* Two queues joined.
LEMMA OnceJoin ==
    ASSUME NEW q \in Seq(Items), NEW r \in Seq(Items), OnceIn(q), OnceIn(r),
           \A x \in Tasks : ~ (x \in ToSet(q) /\ x \in ToSet(r))
    PROVE  OnceIn(q \o r) /\ ToSet(q \o r) = ToSet(q) \cup ToSet(r)
<1>1. /\ q \o r \in Seq(Items) /\ Len(q \o r) = Len(q) + Len(r)
      /\ \A i \in 1 .. Len(q) + Len(r) : (q \o r)[i] = IF i <= Len(q) THEN q[i] ELSE r[i - Len(q)]
  BY ConcatFacts
<1>2. /\ Len(q) \in Nat /\ ToSet(q) = {q[i] : i \in 1 .. Len(q)} /\ ToSet(q) \subseteq Items
      /\ \A i, j \in 1 .. Len(q) : i # j /\ q[i] = q[j] => q[i] = Garbage
  BY OnceIs
<1>3. /\ Len(r) \in Nat /\ ToSet(r) = {r[i] : i \in 1 .. Len(r)} /\ ToSet(r) \subseteq Items
      /\ \A i, j \in 1 .. Len(r) : i # j /\ r[i] = r[j] => r[i] = Garbage
  BY OnceIs
<1>4. \A x \in ToSet(q) \cap ToSet(r) : x = Garbage
  BY ONLY <1>2, \A x \in Tasks : ~ (x \in ToSet(q) /\ x \in ToSet(r)) DEF Items
<1> DEFINE s == q \o r
<1>5. /\ Len(s) = Len(q) + Len(r)
      /\ \A i \in 1 .. Len(q) + Len(r) : i <= Len(q) => i \in 1 .. Len(q) /\ s[i] = q[i]
      /\ \A i \in 1 .. Len(q) + Len(r) : ~ i <= Len(q) => i - Len(q) \in 1 .. Len(r) /\ s[i] = r[i - Len(q)]
  BY ONLY <1>1, <1>2, <1>3
<1> HIDE DEF s
<1>6. ASSUME NEW i \in 1 .. Len(s), NEW j \in 1 .. Len(s), i # j, s[i] = s[j] PROVE s[i] = Garbage
  <2>0. i \in 1 .. Len(q) + Len(r) /\ j \in 1 .. Len(q) + Len(r) /\ i \in Int /\ j \in Int
    BY ONLY <1>2, <1>3, <1>5
  <2>1. CASE i <= Len(q) /\ j <= Len(q)
    <3>1. i \in 1 .. Len(q) /\ j \in 1 .. Len(q) /\ s[i] = q[i] /\ s[j] = q[j]
      BY ONLY <1>5, <2>0, <2>1
    <3> QED
      BY ONLY <1>2, <1>6, <3>1
  <2>2. CASE ~ i <= Len(q) /\ ~ j <= Len(q)
    <3>1. i - Len(q) \in 1 .. Len(r) /\ j - Len(q) \in 1 .. Len(r) /\ s[i] = r[i - Len(q)] /\ s[j] = r[j - Len(q)]
      BY ONLY <1>5, <2>0, <2>2
    <3>2. i - Len(q) # j - Len(q)
      BY ONLY <1>2, <1>6, <2>0
    <3> QED
      BY ONLY <1>3, <1>6, <3>1, <3>2
  <2>3. CASE i <= Len(q) /\ ~ j <= Len(q)
    <3>1. i \in 1 .. Len(q) /\ j - Len(q) \in 1 .. Len(r) /\ s[i] = q[i] /\ s[j] = r[j - Len(q)]
      BY ONLY <1>5, <2>0, <2>3
    <3> QED
      BY ONLY <1>2, <1>3, <1>4, <1>6, <3>1
  <2>4. CASE ~ i <= Len(q) /\ j <= Len(q)
    <3>1. j \in 1 .. Len(q) /\ i - Len(q) \in 1 .. Len(r) /\ s[j] = q[j] /\ s[i] = r[i - Len(q)]
      BY ONLY <1>5, <2>0, <2>4
    <3> QED
      BY ONLY <1>2, <1>3, <1>4, <1>6, <3>1
  <2> QED
    BY ONLY <2>1, <2>2, <2>3, <2>4
<1>7. OnceIn(s)
  <2>1. s \in Seq(Items)
    BY <1>1 DEF s
  <2> QED
    BY <1>6, <2>1, OnceIs
<1> QED
  BY <1>7, ToSetConcat DEF s

\* The first of a queue and the others.
LEMMA OnceHead ==
    ASSUME NEW q \in Seq(Items), q # <<>>, OnceIn(q)
    PROVE  /\ OnceIn(Tail(q)) /\ Tail(q) \in Seq(Items) /\ Head(q) \in ToSet(q)
           /\ \A x \in Tasks : x \in ToSet(q) <=> x = Head(q) \/ x \in ToSet(Tail(q))
           /\ Head(q) \in Tasks => Head(q) \notin ToSet(Tail(q))
<1>1. 1 \in 0 .. Len(q) /\ Len(q) \in Nat /\ Len(q) >= 1
  OBVIOUS
<1>2. Tail(q) = SubSeq(q, 1 + 1, Len(q)) /\ Tail(q) \in Seq(Items)
  BY <1>1
<1> DEFINE a == SubSeq(q, 1, 1)  b == SubSeq(q, 1 + 1, Len(q))
<1>3. a \in Seq(Items) /\ Len(a) = 1 /\ a[1] = q[1] /\ Head(q) = q[1]
  BY <1>1
<1>4. /\ OnceIn(b)
      /\ \A x \in Tasks : x \in ToSet(q) => x \in ToSet(a) \/ x \in ToSet(b)
      /\ \A x \in Tasks : x \in ToSet(a) => x \in ToSet(q) /\ x \notin ToSet(b)
      /\ \A x \in Tasks : x \in ToSet(b) => x \in ToSet(q)
  BY <1>1, OnceCut
<1> HIDE DEF a, b
<1>5. Head(q) \in ToSet(q) /\ ToSet(a) = {Head(q)}
  <2>1. ToSet(q) = {q[i] : i \in 1 .. Len(q)} /\ ToSet(a) = {a[i] : i \in 1 .. Len(a)}
    BY <1>3, OnceIs
  <2> QED
    BY ONLY <1>1, <1>3, <2>1
<1>6. Tail(q) = b /\ Tail(q) \in Seq(Items)
  BY <1>2 DEF b
<1> QED
  BY ONLY <1>4, <1>5, <1>6

LEMMA OnceOne == ASSUME NEW x \in Items PROVE OnceIn(<<x>>) /\ ToSet(<<x>>) = {x} /\ <<x>> \in Seq(Items)
<1>1. <<x>> \in Seq(Items) /\ Len(<<x>>) = 1 /\ <<x>>[1] = x
  OBVIOUS
<1>2. \A i, j \in 1 .. Len(<<x>>) : i # j => FALSE
  BY <1>1
<1>3. OnceIn(<<x>>)
  BY <1>1, <1>2, OnceIs
<1>4. ToSet(<<x>>) = {<<x>>[i] : i \in 1 .. 1}
  BY ONLY <1>1 DEF ToSet
<1> QED
  BY ONLY <1>1, <1>3, <1>4

LEMMA ItemsJoined ==
    /\ ToSet(<<>>) = {}
    /\ \A q, r \in Seq(Items) : ToSet(q \o r) = ToSet(q) \cup ToSet(r)
    /\ \A q \in Seq(Items), x \in Items : /\ ToSet(q \o <<x>>) = ToSet(q) \cup {x}
                                          /\ ToSet(<<x>> \o q) = {x} \cup ToSet(q)
<1>1. ToSet(<<>>) = {}
  BY DEF ToSet
<1>2. \A q, r \in Seq(Items) : ToSet(q \o r) = ToSet(q) \cup ToSet(r)
  BY ToSetConcat
<1>3. ASSUME NEW q \in Seq(Items), NEW x \in Items
      PROVE  ToSet(q \o <<x>>) = ToSet(q) \cup {x} /\ ToSet(<<x>> \o q) = {x} \cup ToSet(q)
  <2>1. PICK one \in Seq(Items) : one = <<x>> /\ ToSet(one) = {x}
    BY OnceOne
  <2>2. ToSet(q \o one) = ToSet(q) \cup {x} /\ ToSet(one \o q) = {x} \cup ToSet(q)
    BY ONLY ZenonT(60), <1>2, <2>1, q \in Seq(Items)
  <2> QED
    BY ONLY <2>1, <2>2
<1> QED
  BY <1>1, <1>2, <1>3


-----------------------------------------------------------------------------
(* The steps that move a task, and the others *)

\* A step that leaves all tasks where they are.
Quiet ==
    /\ UNCHANGED <<global, local, lifo, current, todo, buffer, done, discarded, dropped, handed>>
    /\ \A t \in Threads : /\ pc'[t] \in Placing <=> pc[t] \in Placing
                          /\ pc[t] \in Placing => arg'[t] = arg[t]
                          /\ arg'[t] \in {arg[t], Null}

\* A step of a thread that stays where arg is of no use or goes on with it.
LEMMA QuietStep ==
    ASSUME Labels, SlotTypes, NEW t \in Threads, NEW label, pc' = [pc EXCEPT ![t] = label],
           label \in Placing <=> pc[t] \in Placing,
           arg' = arg \/ (pc[t] \notin Placing /\ arg' = [arg EXCEPT ![t] = Null]),
           UNCHANGED <<global, local, lifo, current, todo, buffer, done, discarded, dropped, handed>>
    PROVE  Quiet
<1>1. \A u \in Threads : pc'[u] = IF u = t THEN label ELSE pc[u]
  BY DEF Labels
<1>2. \A u \in Threads : arg'[u] = arg[u] \/ (u = t /\ pc[t] \notin Placing /\ arg'[u] = Null)
  BY DEF SlotTypes
<1> QED
  BY ONLY <1>1, <1>2, label \in Placing <=> pc[t] \in Placing,
          UNCHANGED <<global, local, lifo, current, todo, buffer, done, discarded, dropped, handed>>
     DEF Quiet

Moving ==
    \/ \E t \in Threads : \/ \E x \in Tasks, hint \in {"Next", "UpToYou", "Slow"} : Execute(t, x, hint)
                          \/ (CheckClosed(t) /\ closed) \/ PushOne(t)
    \/ \E w \in Workers :
          \/ Refuse(w) \/ PushToLifoSlot(w) \/ PushToLocalQueue(w) \/ OffloadGrab(w) \/ Offload(w)
          \/ AwakeAfterOffload(w) \/ TakeLifo(w) \/ Pop(w) \/ GrabGlobal(w) \/ Spread(w) \/ Steal(w)
          \/ DiscardOwn(w) \/ RunReturns(w) \/ RunThrows(w)
    \/ \E c \in Clients : DrainGlobal(c) /\ global # <<>>

LEMMA QuietOrMoving == ASSUME Labels, SlotTypes, [Next]_vars PROVE UNCHANGED children /\ (Quiet \/ Moving)
<1>0. UNCHANGED children
  BY Steps DEF Construct, GoesOn, vars
<1> USE DEF Placing, Goto, globalVars, coordinatorVars, lifoVars, stealVars, runVars, fateVars, submitVars, restVars
<1>t. \A w \in Workers : w \in Threads
  BY DEF Threads
<1>c. \A c \in Clients : c \in Threads
  BY DEF Threads
<1>1. ASSUME NEW w \in Workers, Construct(w) PROVE Quiet
  BY <1>1, <1>t, QuietStep DEF Construct
<1>2. ASSUME NEW t \in Threads, CheckClosed(t), ~ closed PROVE Quiet
  BY <1>2, QuietStep DEF CheckClosed
<1>3. ASSUME NEW t \in Threads, ProhibitAfterPush(t) PROVE Quiet
  <2>1. pc[t] = "prohibit" /\ pc' = [pc EXCEPT ![t] = Home(t)] /\ arg' = [arg EXCEPT ![t] = Null]
        /\ UNCHANGED <<global, local, lifo, current, todo, buffer, done, discarded, dropped, handed>>
    BY <1>3 DEF ProhibitAfterPush, Return
  <2>2. Home(t) \notin Placing
    BY DEF Home
  <2> QED
    BY <2>1, <2>2, QuietStep
<1>4. ASSUME NEW w \in Workers, LocalQueueFull(w) PROVE Quiet
  BY <1>4, <1>t, QuietStep DEF LocalQueueFull
<1>5. ASSUME NEW w \in Workers, OffloadCheck(w) PROVE Quiet
  <2>1. PICK label : label \in {"awakeOne", "crashed", "offload"} /\ pc' = [pc EXCEPT ![w] = label]
    BY <1>5 DEF OffloadCheck
  <2>2. pc[w] = "offloadCheck" /\ arg' = arg /\ UNCHANGED <<global, local, lifo, current, todo, buffer, done, discarded, dropped, handed>>
    BY <1>5 DEF OffloadCheck
  <2> QED
    BY <1>t, <2>1, <2>2, QuietStep
<1>6. ASSUME NEW w \in Workers, StartPass(w) PROVE Quiet
  <2>1. PICK label : label \in {"tick", "lifo"} /\ pc' = [pc EXCEPT ![w] = label]
    BY <1>6 DEF StartPass
  <2>2. pc[w] = "pick" /\ arg' = arg /\ UNCHANGED <<global, local, lifo, current, todo, buffer, done, discarded, dropped, handed>>
    BY <1>6 DEF StartPass
  <2> QED
    BY <1>t, <2>1, <2>2, QuietStep
<1>7. ASSUME NEW w \in Workers, Tick(w) PROVE Quiet
  BY <1>7, <1>t, QuietStep DEF Tick, AwakeOne
<1>8. ASSUME NEW w \in Workers, PopNothing(w) PROVE Quiet
  BY <1>8, <1>t, QuietStep DEF PopNothing, SkipLifo
<1>9. ASSUME NEW w \in Workers, GrabNothing(w) PROVE Quiet
  <2>1. PICK label : label \in {"allow", "impudence"} /\ pc' = [pc EXCEPT ![w] = label]
    BY <1>9 DEF GrabNothing
  <2>2. pc[w] \in {"grab", "regrab"} /\ arg' = arg /\ UNCHANGED <<global, local, lifo, current, todo, buffer, done, discarded, dropped, handed>>
    BY <1>9 DEF GrabNothing
  <2> QED
    BY <1>t, <2>1, <2>2, QuietStep
<1>10. ASSUME NEW w \in Workers, AllowAfterGrab(w) PROVE Quiet
  BY <1>10, <1>t, QuietStep DEF AllowAfterGrab, AllowParking
<1>11. ASSUME NEW w \in Workers, CheckImpudence(w) PROVE Quiet
  <2>1. PICK label : label \in {"victim", "pick", "park"} /\ pc' = [pc EXCEPT ![w] = label]
    BY <1>11 DEF CheckImpudence, GiveUp
  <2>2. pc[w] = "impudence" /\ arg' = arg /\ UNCHANGED <<global, local, lifo, current, todo, buffer, done, discarded, dropped, handed>>
    BY <1>11 DEF CheckImpudence, GiveUp
  <2> QED
    BY <1>t, <2>1, <2>2, QuietStep
<1>12. ASSUME NEW w \in Workers, NoVictim(w) PROVE Quiet
  <2>1. PICK label : label \in {"pick", "park"} /\ pc' = [pc EXCEPT ![w] = label]
    BY <1>12 DEF NoVictim, GiveUp
  <2>2. pc[w] = "victim" /\ arg' = arg /\ UNCHANGED <<global, local, lifo, current, todo, buffer, done, discarded, dropped, handed>>
    BY <1>12 DEF NoVictim, GiveUp
  <2> QED
    BY <1>t, <2>1, <2>2, QuietStep
<1>13. ASSUME NEW w \in Workers, LowSize(w) PROVE Quiet
  BY <1>13, <1>t, QuietStep DEF LowSize
<1>14. ASSUME NEW w \in Workers, TryParkMe(w) PROVE Quiet
  <2>1. PICK label : label \in {"parked", "pick"} /\ pc' = [pc EXCEPT ![w] = label]
    BY <1>14 DEF TryParkMe
  <2>2. pc[w] = "park" /\ arg' = arg /\ UNCHANGED <<global, local, lifo, current, todo, buffer, done, discarded, dropped, handed>>
    BY <1>14 DEF TryParkMe
  <2> QED
    BY <1>t, <2>1, <2>2, QuietStep
<1>15. ASSUME NEW w \in Workers, WakeUp(w) PROVE Quiet
  BY <1>15, <1>t, QuietStep DEF WakeUp
<1>16. ASSUME NEW w \in Workers, LeaveLoop(w) PROVE Quiet
  BY <1>16, <1>t, QuietStep DEF LeaveLoop
<1>17. ASSUME NEW w \in Workers, NEW v \in Workers, GiveVictim(w, v) PROVE Quiet
  <2>1. PICK label : label \in {"victim", "lowSize"} /\ pc' = [pc EXCEPT ![w] = label]
    BY <1>17 DEF GiveVictim
  <2>2. pc[w] = "victim" /\ arg' = arg /\ UNCHANGED <<global, local, lifo, current, todo, buffer, done, discarded, dropped, handed>>
    BY <1>17 DEF GiveVictim
  <2> QED
    BY <1>t, <2>1, <2>2, QuietStep
<1>18. ASSUME NEW c \in Clients, WaitIdle(c) PROVE Quiet
  BY <1>18, <1>c, QuietStep DEF WaitIdle, ClientOnly
<1>19. ASSUME NEW c \in Clients, GlobalIsZero(c) PROVE Quiet
  BY <1>19, <1>c, QuietStep DEF GlobalIsZero, ClientOnly
<1>20. ASSUME NEW c \in Clients, AwakeIsZero(c) PROVE Quiet
  BY <1>20, <1>c, QuietStep DEF AwakeIsZero, ClientOnly
<1>21. ASSUME NEW c \in Clients, Stop(c) PROVE Quiet
  BY <1>21, <1>c, QuietStep DEF Stop, ClientOnly
<1>22. ASSUME NEW c \in Clients, StopWorker(c) PROVE Quiet
  BY <1>22 DEF StopWorker, ClientOnly, Quiet
<1>23. ASSUME NEW c \in Clients, StopGlobal(c) PROVE Quiet
  BY <1>23, <1>c, QuietStep DEF StopGlobal, ClientOnly, CloseQueue
<1>24. ASSUME NEW c \in Clients, AwakeAll(c) PROVE Quiet
  BY <1>24, <1>c, QuietStep DEF AwakeAll, ClientOnly
<1>25. ASSUME NEW c \in Clients, Join(c) PROVE Quiet
  BY <1>25, <1>c, QuietStep DEF Join, ClientOnly
<1>26. ASSUME NEW c \in Clients, DrainGlobal(c), global = <<>> PROVE Quiet
  BY <1>26, <1>c, QuietStep DEF DrainGlobal, ClientOnly
<1>27. CASE UNCHANGED vars
  BY <1>27 DEF vars, Quiet
<1> QED
  BY ONLY Steps, [Next]_vars, <1>0, <1>1, <1>2, <1>3, <1>4, <1>5, <1>6, <1>7, <1>8, <1>9, <1>10, <1>11, <1>12, <1>13, <1>14, <1>15, <1>16, <1>17, <1>18, <1>19, <1>20, <1>21, <1>22, <1>23, <1>24, <1>25, <1>26, <1>27 DEF Moving


-----------------------------------------------------------------------------
(* Every task stays in one box *)

\* What was submitted leaves the frame of Execute for the box d.
LEMMA ArgLeaves ==
    ASSUME Labels, SlotTypes, NEW t \in Threads, NEW label, NEW d \in Boxes,
           pc[t] \in Placing, pc' = [pc EXCEPT ![t] = label], label \notin Placing,
           arg' = arg \/ arg' = [arg EXCEPT ![t] = Null],
           handed' = handed, d[1] # "arg",
           \A x \in Tasks : In(x, d)' <=> In(x, d) \/ x = arg[t],
           \A k \in Boxes : k[1] # "arg" /\ k # d => Keep(k)
    PROVE  Moves({arg[t]}, <<"arg", t>>, d)
<1> DEFINE s == <<"arg", t>>
<1>1. s \in Boxes /\ s[1] = "arg" /\ s # d
  BY BoxFacts
<1>2. \A u \in Threads : u # t => pc'[u] = pc[u] /\ arg'[u] = arg[u]
  BY DEF Labels, SlotTypes
<1>3. pc'[t] \notin Placing
  BY DEF Labels
<1>4. \A x : In(x, s) <=> arg[t] = x
  BY InFacts
<1>5. \A x : ~ In(x, s)'
  BY <1>3 DEF In
<1>6. ASSUME NEW k \in Boxes, k # s, k # d PROVE Keep(k)
  <2>1. CASE k[1] = "arg"
    <3>1. k[2] \in Threads /\ k = <<"arg", k[2]>>
      BY ONLY <1>6, <2>1, BoxIs
    <3>2. k[2] # t
      BY ONLY <1>6, <3>1
    <3> QED
      BY ONLY <1>2, <3>1, <3>2, KeepFacts
  <2>2. CASE k[1] # "arg"
    BY ONLY <1>6, <2>2, \A b \in Boxes : b[1] # "arg" /\ b # d => Keep(b)
  <2> QED
    BY ONLY <2>1, <2>2
<1> HIDE DEF s
<1>7. Moves({arg[t]}, s, d)
  BY ONLY <1>1, <1>4, <1>5, <1>6, d \in Boxes, handed' = handed,
          \A x \in Tasks : In(x, d)' <=> In(x, d) \/ x = arg[t]
     DEF Moves
<1> QED
  BY ONLY <1>7 DEF s

\* Boxes other than those of Execute that a step leaves alone.
LEMMA KeepPools ==
    ASSUME NEW D,
           \A w \in Workers : /\ <<"current", w>> \notin D => current'[w] = current[w]
                              /\ <<"lifo", w>> \notin D => lifo'[w] = lifo[w]
                              /\ <<"buffer", w>> \notin D => buffer'[w] = buffer[w]
                              /\ <<"local", w>> \notin D => local'[w] = local[w],
           <<"global", 0>> \notin D => global' = global,
           <<"done", 0>> \notin D => done' = done,
           <<"discarded", 0>> \notin D => discarded' = discarded,
           <<"dropped", 0>> \notin D => dropped' = dropped
    PROVE  \A k \in Boxes : k[1] # "arg" /\ k \notin D => Keep(k)
<1> DEFINE E == D \cup ({"arg"} \X Threads)
<1>1. \A t \in Threads : <<"arg", t>> \in E
  OBVIOUS
<1>2. \A k : k \notin E => k \notin D
  OBVIOUS
<1>3. \A w : /\ <<"current", w>> \in E <=> <<"current", w>> \in D
             /\ <<"lifo", w>> \in E <=> <<"lifo", w>> \in D
             /\ <<"buffer", w>> \in E <=> <<"buffer", w>> \in D
             /\ <<"local", w>> \in E <=> <<"local", w>> \in D
             /\ <<"global", w>> \in E <=> <<"global", w>> \in D
             /\ <<"done", w>> \in E <=> <<"done", w>> \in D
             /\ <<"discarded", w>> \in E <=> <<"discarded", w>> \in D
             /\ <<"dropped", w>> \in E <=> <<"dropped", w>> \in D
  OBVIOUS
<1>4. \A k \in Boxes : k \in E => k \in D \/ k[1] = "arg"
  OBVIOUS
<1> HIDE DEF E
<1>5. \A k \in Boxes : k \notin E => Keep(k)
  BY <1>1, <1>3, KeepOthers
<1> QED
  BY <1>4, <1>5

LEMMA PlacedEntered ==
    ASSUME Labels, SlotTypes, RunTypes, Placed, Family, NEW t \in Threads, NEW x \in Tasks,
           NEW hint \in {"Next", "UpToYou", "Slow"}, Execute(t, x, hint)
    PROVE  Placed'
<1> DEFINE d == <<"arg", t>>
<1>1. x \notin handed
  BY DEF Execute, MaySubmit, Family, Threads
<1>2. handed' = handed \cup {x}
  BY DEF Execute
<1>3. pc[t] \notin Placing /\ pc'[t] \in Placing /\ arg'[t] = x
  BY DEF Execute, MaySubmit, Goto, Entry, Home, Labels, SlotTypes, Placing, Threads
<1>4. \A u \in Threads : u # t => pc'[u] = pc[u] /\ arg'[u] = arg[u]
  BY DEF Execute, Goto, Labels, SlotTypes
<1>5. d \in Boxes
  BY BoxFacts
<1>6. \A k \in Boxes : k \notin {d} => Keep(k)
  <2>1. UNCHANGED <<global, local, lifo, buffer, current, done, discarded, dropped>>
    BY DEF Execute, globalVars, lifoVars, fateVars
  <2>2. \A u \in Threads : <<"arg", u>> \notin {d} => /\ pc'[u] \in Placing <=> pc[u] \in Placing
                                                      /\ pc[u] \in Placing => arg'[u] = arg[u]
    BY ONLY <1>4
  <2> HIDE DEF d
  <2> QED
    BY ONLY <2>1, <2>2, KeepOthers
<1>7. \A y : (In(y, d)' <=> y = x) /\ ~ In(y, d)
  BY <1>3, InFacts DEF In
<1> HIDE DEF d
<1>8. Enters(x, d)
  <2>1. ASSUME NEW k \in Boxes, k # d PROVE In(x, k)' <=> In(x, k)
    BY <1>6, <2>1 DEF Keep
  <2> QED
    BY ONLY <1>1, <1>2, <1>5, <1>7, <2>1 DEF Enters
<1>9. ASSUME NEW y \in Tasks, y # x PROVE Same(y)
  <2>1. ASSUME NEW k \in Boxes, k # d PROVE In(y, k)' <=> In(y, k)
    BY <1>6, <2>1 DEF Keep
  <2> QED
    BY ONLY <1>2, <1>7, <1>9, <2>1 DEF Same
<1> QED
  BY <1>5, <1>8, <1>9, PlacedKept


\* A step that only its thread's label tells from one that moves nothing.
LEMMA PlacedFromArg ==
    ASSUME Labels, SlotTypes, QueueTypes, RunTypes, Placed, NEW t \in Threads,
           \/ CheckClosed(t) /\ closed
           \/ PushOne(t) /\ global \in Seq(Items) /\ arg[t] \in Tasks
           \/ t \in Workers /\ Refuse(t)
           \/ t \in Workers /\ PushToLocalQueue(t) /\ arg[t] \in Tasks
           \/ t \in Workers /\ PushToLifoSlot(t) /\ lifo[t] = Null
    PROVE  Placed'
<1> USE DEF globalVars, lifoVars, submitVars, fateVars, runVars
<1>1. ASSUME CheckClosed(t), closed PROVE Moves({arg[t]}, <<"arg", t>>, <<"discarded", 0>>)
  <2>1. pc[t] \in Placing /\ pc' = [pc EXCEPT ![t] = "prohibit"] /\ arg' = arg /\ handed' = handed
        /\ discarded' = discarded \cup {arg[t]}
        /\ UNCHANGED <<global, local, lifo, buffer, current, done, dropped>>
    BY <1>1 DEF CheckClosed, Goto, Placing
  <2> DEFINE d == <<"discarded", 0>>
  <2>2. d \in Boxes /\ d[1] # "arg" /\ d \in {d}
    BY BoxFacts
  <2>3. \A x \in Tasks : In(x, d)' <=> In(x, d) \/ x = arg[t]
    BY ONLY <2>1 DEF In
  <2>4. \A k \in Boxes : k[1] # "arg" /\ k \notin {d} => Keep(k)
    BY ONLY <2>1, KeepPools
  <2>5. "prohibit" \notin Placing
    BY DEF Placing
  <2> HIDE DEF d
  <2>6. Moves({arg[t]}, <<"arg", t>>, d)
    BY <2>1, <2>2, <2>3, <2>4, <2>5, ArgLeaves
  <2> QED
    BY ONLY <2>6 DEF d
<1>2. ASSUME PushOne(t), global \in Seq(Items), arg[t] \in Tasks
      PROVE  Moves({arg[t]}, <<"arg", t>>, <<"global", 0>>)
  <2>1. pc[t] \in Placing /\ pc' = [pc EXCEPT ![t] = "prohibit"] /\ arg' = arg /\ handed' = handed
        /\ global' = global \o <<arg[t]>>
        /\ UNCHANGED <<local, lifo, buffer, current, done, discarded, dropped>>
    BY <1>2 DEF PushOne, Goto, Placing, PushBack
  <2> DEFINE d == <<"global", 0>>
  <2>2. d \in Boxes /\ d[1] # "arg" /\ d \in {d}
    BY BoxFacts
  <2>3. \A x \in Tasks : In(x, d)' <=> In(x, d) \/ x = arg[t]
    <3>1. ToSet(global') = ToSet(global) \cup {arg[t]}
      <4>1. arg[t] \in Items
        BY <1>2, ItemFacts
      <4> QED
        BY ONLY <1>2, <2>1, <4>1, ItemsJoined
    <3> QED
      BY ONLY <3>1 DEF In
  <2>4. \A k \in Boxes : k[1] # "arg" /\ k \notin {d} => Keep(k)
    BY ONLY <2>1, KeepPools
  <2>5. "prohibit" \notin Placing
    BY DEF Placing
  <2> HIDE DEF d
  <2>6. Moves({arg[t]}, <<"arg", t>>, d)
    BY <2>1, <2>2, <2>3, <2>4, <2>5, ArgLeaves
  <2> QED
    BY ONLY <2>6 DEF d
<1>3. ASSUME t \in Workers, Refuse(t) PROVE Moves({arg[t]}, <<"arg", t>>, <<"discarded", 0>>)
  <2>1. pc[t] \in Placing /\ pc' = [pc EXCEPT ![t] = "run"] /\ arg' = [arg EXCEPT ![t] = Null]
        /\ handed' = handed /\ discarded' = discarded \cup {arg[t]}
        /\ UNCHANGED <<global, local, lifo, buffer, current, done, dropped>>
    BY <1>3 DEF Refuse, Goto, Placing, Return, Home
  <2> DEFINE d == <<"discarded", 0>>
  <2>2. d \in Boxes /\ d[1] # "arg" /\ d \in {d}
    BY BoxFacts
  <2>3. \A x \in Tasks : In(x, d)' <=> In(x, d) \/ x = arg[t]
    BY ONLY <2>1 DEF In
  <2>4. \A k \in Boxes : k[1] # "arg" /\ k \notin {d} => Keep(k)
    BY ONLY <2>1, KeepPools
  <2>5. "run" \notin Placing
    BY DEF Placing
  <2> HIDE DEF d
  <2>6. Moves({arg[t]}, <<"arg", t>>, d)
    BY <2>1, <2>2, <2>3, <2>4, <2>5, ArgLeaves
  <2> QED
    BY ONLY <2>6 DEF d
<1>4. ASSUME t \in Workers, PushToLocalQueue(t), arg[t] \in Tasks
      PROVE  Moves({arg[t]}, <<"arg", t>>, <<"local", t>>)
  <2>1. pc[t] \in Placing /\ pc' = [pc EXCEPT ![t] = "run"] /\ arg' = [arg EXCEPT ![t] = Null]
        /\ handed' = handed /\ local' = [local EXCEPT ![t] = local[t] \o <<arg[t]>>]
        /\ UNCHANGED <<global, lifo, buffer, current, done, discarded, dropped>>
    <3>1. Append(local[t], arg[t]) = local[t] \o <<arg[t]>>
      BY <1>4, ItemFacts DEF QueueTypes
    <3> QED
      BY <1>4, <3>1 DEF PushToLocalQueue, Goto, Placing, Return, Home
  <2> DEFINE d == <<"local", t>>
  <2>2. d \in Boxes /\ d[1] # "arg" /\ d \in {d}
    BY <1>4, BoxFacts
  <2>3. \A x \in Tasks : In(x, d)' <=> In(x, d) \/ x = arg[t]
    <3>1. ToSet(local'[t]) = ToSet(local[t]) \cup {arg[t]}
      <4>1. local'[t] = local[t] \o <<arg[t]>> /\ local[t] \in Seq(Items) /\ arg[t] \in Items
        BY <1>4, <2>1, ItemFacts DEF QueueTypes
      <4> QED
        BY ONLY <4>1, ItemsJoined
    <3> QED
      BY ONLY <3>1 DEF In
  <2>4. \A k \in Boxes : k[1] # "arg" /\ k \notin {d} => Keep(k)
    <3>1. \A w \in Workers : <<"local", w>> \notin {d} => local'[w] = local[w]
      BY <2>1 DEF QueueTypes
    <3> QED
      BY ONLY <2>1, <3>1, KeepPools
  <2>5. "run" \notin Placing
    BY DEF Placing
  <2> HIDE DEF d
  <2>6. Moves({arg[t]}, <<"arg", t>>, d)
    BY <2>1, <2>2, <2>3, <2>4, <2>5, ArgLeaves
  <2> QED
    BY ONLY <2>6 DEF d
<1>5. ASSUME t \in Workers, PushToLifoSlot(t), lifo[t] = Null
      PROVE  Moves({arg[t]}, <<"arg", t>>, <<"lifo", t>>)
  <2>1. pc[t] \in Placing /\ pc' = [pc EXCEPT ![t] = "run"] /\ arg' = [arg EXCEPT ![t] = Null]
        /\ handed' = handed /\ lifo' = [lifo EXCEPT ![t] = arg[t]]
        /\ UNCHANGED <<global, local, buffer, current, done, discarded, dropped>>
    BY <1>5 DEF PushToLifoSlot, Goto, Placing, Return, Home
  <2> DEFINE d == <<"lifo", t>>
  <2>2. d \in Boxes /\ d[1] # "arg" /\ d \in {d}
    BY <1>5, BoxFacts
  <2>3. \A x \in Tasks : In(x, d)' <=> In(x, d) \/ x = arg[t]
    <3>1. lifo'[t] = arg[t] /\ lifo[t] = Null
      BY <1>5, <2>1 DEF SlotTypes
    <3> QED
      BY ONLY <3>1, ItemFacts DEF In
  <2>4. \A k \in Boxes : k[1] # "arg" /\ k \notin {d} => Keep(k)
    <3>1. \A w \in Workers : <<"lifo", w>> \notin {d} => lifo'[w] = lifo[w]
      BY <2>1 DEF SlotTypes
    <3> QED
      BY ONLY <2>1, <3>1, KeepPools
  <2>5. "run" \notin Placing
    BY DEF Placing
  <2> HIDE DEF d
  <2>6. Moves({arg[t]}, <<"arg", t>>, d)
    BY <2>1, <2>2, <2>3, <2>4, <2>5, ArgLeaves
  <2> QED
    BY ONLY <2>6 DEF d
<1> QED
  BY <1>1, <1>2, <1>3, <1>4, <1>5, PlacedMoves


\* A step of a thread that is not in Execute before it, nor after it.
LEMMA ArgsKept ==
    ASSUME Labels, SlotTypes, NEW t \in Threads, NEW label,
           pc[t] \notin Placing, pc' = [pc EXCEPT ![t] = label], label \notin Placing,
           arg' = arg \/ arg' = [arg EXCEPT ![t] = Null]
    PROVE  \A u \in Threads : /\ pc'[u] \in Placing <=> pc[u] \in Placing
                              /\ pc[u] \in Placing => arg'[u] = arg[u]
<1>1. \A u \in Threads : pc'[u] = IF u = t THEN label ELSE pc[u]
  BY DEF Labels
<1>2. \A u \in Threads : u # t => arg'[u] = arg[u]
  BY DEF SlotTypes
<1> QED
  BY ONLY <1>1, <1>2, pc[t] \notin Placing, label \notin Placing

\* Such a step that moves the tasks of S.
LEMMA PoolMoves ==
    ASSUME Placed, Labels, SlotTypes, NEW t \in Threads, NEW label, NEW s \in Boxes, NEW d \in Boxes, NEW S,
           pc[t] \notin Placing, pc' = [pc EXCEPT ![t] = label], label \notin Placing,
           arg' = arg \/ arg' = [arg EXCEPT ![t] = Null],
           handed' = handed, s[1] # "arg", d[1] # "arg", s # d,
           \A x \in Tasks : x \in S => In(x, s),
           \A x \in Tasks : In(x, s)' <=> In(x, s) /\ x \notin S,
           \A x \in Tasks : In(x, d)' <=> In(x, d) \/ x \in S,
           \A k \in Boxes : k[1] # "arg" /\ k \notin {s, d} => Keep(k)
    PROVE  Placed'
<1>1. \A u \in Threads : /\ pc'[u] \in Placing <=> pc[u] \in Placing
                         /\ pc[u] \in Placing => arg'[u] = arg[u]
  BY ArgsKept
<1>2. ASSUME NEW k \in Boxes, k # s, k # d PROVE Keep(k)
  <2>1. CASE k[1] = "arg"
    BY ONLY <1>1, <1>2, <2>1, BoxIs, KeepFacts
  <2>2. CASE k[1] # "arg"
    BY ONLY <1>2, <2>2, \A b \in Boxes : b[1] # "arg" /\ b \notin {s, d} => Keep(b)
  <2> QED
    BY ONLY <2>1, <2>2
<1>3. Moves(S, s, d)
  BY ONLY <1>2, s \in Boxes, d \in Boxes, s # d, handed' = handed,
          \A x \in Tasks : x \in S => In(x, s),
          \A x \in Tasks : In(x, s)' <=> In(x, s) /\ x \notin S,
          \A x \in Tasks : In(x, d)' <=> In(x, d) \/ x \in S
     DEF Moves
<1> QED
  BY <1>3, PlacedMoves

LEMMA PlacedTaken ==
    ASSUME Types, Labels, Control, Hands, Placed, SeqsOnce, NEW w \in Workers,
           TakeLifo(w) \/ Pop(w)
    PROVE  Placed'
<1> DEFINE d == <<"current", w>>
<1>0. w \in Threads /\ d \in Boxes /\ d[1] = "current" /\ {"run", "crashed"} \cap Placing = {}
  BY BoxFacts DEF Threads, Placing
<1>1. ASSUME TakeLifo(w) PROVE Placed'
  <2> DEFINE s == <<"lifo", w>>
  <2>1. /\ pc[w] = "lifo" /\ lifo[w] # Null /\ arg' = arg /\ handed' = handed
        /\ lifo' = [lifo EXCEPT ![w] = Null] /\ current' = [current EXCEPT ![w] = lifo[w]]
        /\ UNCHANGED <<global, local, buffer, done, discarded, dropped>>
    BY <1>1 DEF TakeLifo, Pick, globalVars, submitVars, fateVars
  <2>2. PICK label \in {"run", "crashed"} : pc' = [pc EXCEPT ![w] = label]
    BY <1>1 DEF TakeLifo, Pick, Goto
  <2>3. current[w] = Null /\ current'[w] = lifo[w] /\ lifo'[w] = Null
    BY <2>1 DEF Control, InTask, Types, RunTypes, SlotTypes
  <2>4. s \in Boxes /\ s[1] = "lifo"
    BY BoxFacts
  <2>5. /\ \A x \in Tasks : x \in {lifo[w]} => In(x, s)
        /\ \A x \in Tasks : In(x, s)' <=> In(x, s) /\ x \notin {lifo[w]}
        /\ \A x \in Tasks : In(x, d)' <=> In(x, d) \/ x \in {lifo[w]}
    BY ONLY <2>3, ItemFacts DEF In
  <2>6. \A k \in Boxes : k[1] # "arg" /\ k \notin {s, d} => Keep(k)
    <3>1. \A v \in Workers : /\ <<"current", v>> \notin {s, d} => current'[v] = current[v]
                             /\ <<"lifo", v>> \notin {s, d} => lifo'[v] = lifo[v]
      BY <2>1 DEF Types, RunTypes, SlotTypes
    <3> HIDE DEF s, d
    <3> QED
      BY ONLY <2>1, <3>1, KeepPools
  <2>7. s # d /\ s[1] # "arg" /\ d[1] # "arg" /\ pc[w] \notin Placing /\ label \notin Placing
    BY <1>0, <2>1 DEF Placing
  <2> HIDE DEF s, d
  <2> QED
    BY <1>0, <2>1, <2>2, <2>4, <2>5, <2>6, <2>7, PoolMoves DEF Types
<1>2. ASSUME Pop(w) PROVE Placed'
  <2> DEFINE s == <<"local", w>>
  <2>1. /\ pc[w] = "lifo" /\ local[w] # <<>> /\ arg' = arg /\ handed' = handed
        /\ local' = [local EXCEPT ![w] = Tail(local[w])] /\ current' = [current EXCEPT ![w] = Head(local[w])]
        /\ UNCHANGED <<global, lifo, buffer, done, discarded, dropped>>
    BY <1>2 DEF Pop, SkipLifo, Pick, globalVars, submitVars, fateVars
  <2>2. PICK label \in {"run", "crashed"} : pc' = [pc EXCEPT ![w] = label]
    BY <1>2 DEF Pop, Pick, Goto
  <2>3. current[w] = Null /\ current'[w] = Head(local[w]) /\ local'[w] = Tail(local[w])
    BY <2>1 DEF Control, InTask, Types, RunTypes, QueueTypes
  <2>4. s \in Boxes /\ s[1] = "local"
    BY BoxFacts
  <2>5. /\ \A x \in Tasks : x \in {Head(local[w])} => In(x, s)
        /\ \A x \in Tasks : In(x, s)' <=> In(x, s) /\ x \notin {Head(local[w])}
        /\ \A x \in Tasks : In(x, d)' <=> In(x, d) \/ x \in {Head(local[w])}
    <3>1. /\ Head(local[w]) \in ToSet(local[w])
          /\ \A x \in Tasks : x \in ToSet(local[w]) <=> x = Head(local[w]) \/ x \in ToSet(Tail(local[w]))
          /\ Head(local[w]) \in Tasks => Head(local[w]) \notin ToSet(Tail(local[w]))
      BY <2>1, OnceHead DEF Types, QueueTypes, SeqsOnce
    <3> QED
      BY ONLY <2>3, <3>1, ItemFacts DEF In
  <2>6. \A k \in Boxes : k[1] # "arg" /\ k \notin {s, d} => Keep(k)
    <3>1. \A v \in Workers : /\ <<"current", v>> \notin {s, d} => current'[v] = current[v]
                             /\ <<"local", v>> \notin {s, d} => local'[v] = local[v]
      BY <2>1 DEF Types, RunTypes, QueueTypes
    <3> HIDE DEF s, d
    <3> QED
      BY ONLY <2>1, <3>1, KeepPools
  <2>7. s # d /\ s[1] # "arg" /\ d[1] # "arg" /\ pc[w] \notin Placing /\ label \notin Placing
    BY <1>0, <2>1 DEF Placing
  <2> HIDE DEF s, d
  <2> QED
    BY <1>0, <2>1, <2>2, <2>4, <2>5, <2>6, <2>7, PoolMoves DEF Types
<1> QED
  BY <1>1, <1>2

LEMMA PlacedGrabbed ==
    ASSUME Types, Labels, Control, Hands, Placed, SeqsOnce, NEW w \in Workers,
           GrabGlobal(w) \/ Steal(w)
    PROVE  Placed'
<1> DEFINE d == <<"buffer", w>>
<1>0. w \in Threads /\ d \in Boxes /\ d[1] = "buffer" /\ {"spread", "victim"} \cap Placing = {}
  BY BoxFacts DEF Threads, Placing
<1>1. ASSUME GrabGlobal(w) PROVE Placed'
  <2> DEFINE s == <<"global", 0>>
  <2>1. /\ pc[w] \in {"grab", "regrab"} /\ pc' = [pc EXCEPT ![w] = "spread"] /\ arg' = arg /\ handed' = handed
        /\ UNCHANGED <<lifo, local, current, done, discarded, dropped>>
    BY <1>1 DEF GrabGlobal, Goto, lifoVars, submitVars, fateVars, runVars
  <2>2. global \in Seq(Items) /\ OnceIn(global)
    BY DEF Types, GlobalTypes, SeqsOnce
  <2>3. PICK n \in 1 .. Len(global) : /\ global' = SubSeq(global, n + 1, Len(global))
                                      /\ buffer' = [buffer EXCEPT ![w] = SubSeq(global, 1, n)]
    BY <1>1, <2>2, GrabEffect
  <2>4. n \in 0 .. Len(global)
    BY <2>2
  <2> DEFINE S == ToSet(SubSeq(global, 1, n))
  <2>5. s \in Boxes /\ s[1] = "global"
    BY BoxFacts
  <2>6. buffer[w] = <<>> /\ buffer'[w] = SubSeq(global, 1, n) /\ ToSet(<<>>) = {}
    <3>1. buffer[w] = <<>>
      BY <2>1 DEF Hands
    <3>2. buffer'[w] = SubSeq(global, 1, n)
      BY <2>3 DEF Types, QueueTypes
    <3> QED
      BY ONLY <3>1, <3>2, ItemsJoined
  <2>7. /\ \A x \in Tasks : x \in ToSet(global) <=> x \in S \/ x \in ToSet(global')
        /\ \A x \in Tasks : ~ (x \in S /\ x \in ToSet(global'))
    BY <2>2, <2>3, <2>4, OnceCut
  <2>8. /\ \A x \in Tasks : x \in S => In(x, s)
        /\ \A x \in Tasks : In(x, s)' <=> In(x, s) /\ x \notin S
        /\ \A x \in Tasks : In(x, d)' <=> In(x, d) \/ x \in S
    BY ONLY <2>6, <2>7 DEF In
  <2>9. \A k \in Boxes : k[1] # "arg" /\ k \notin {s, d} => Keep(k)
    <3>1. \A v \in Workers : <<"buffer", v>> \notin {s, d} => buffer'[v] = buffer[v]
      BY <2>3 DEF Types, QueueTypes
    <3>2. <<"global", 0>> \in {s, d}
      OBVIOUS
    <3> HIDE DEF s, d
    <3> QED
      BY ONLY <2>1, <3>1, <3>2, KeepPools
  <2>10. s # d /\ s[1] # "arg" /\ d[1] # "arg" /\ pc[w] \notin Placing /\ "spread" \notin Placing
    BY <1>0, <2>1 DEF Placing
  <2> HIDE DEF s, d, S
  <2> QED
    BY <1>0, <2>1, <2>5, <2>8, <2>9, <2>10, PoolMoves DEF Types
<1>2. ASSUME Steal(w) PROVE Placed'
  <2>1. /\ pc[w] = "steal" /\ arg' = arg /\ handed' = handed
        /\ UNCHANGED <<global, lifo, current, done, discarded, dropped>>
    BY <1>2 DEF Steal, globalVars, lifoVars, submitVars, fateVars, runVars
  <2>2. PICK v \in Workers : v = victim[w]
    BY <2>1 DEF Control
  <2>3. local[v] \in Seq(Items) /\ OnceIn(local[v]) /\ limit[w] \in Nat
    BY DEF Types, QueueTypes, StealTypes, SeqsOnce
  <2>4. PICK n \in 0 .. Len(local[v]) : /\ buffer' = [buffer EXCEPT ![w] = SubSeq(local[v], 1, n)]
                                        /\ local' = [local EXCEPT ![v] = SubSeq(local[v], n + 1, Len(local[v]))]
                                        /\ Goto(w, IF n = 0 THEN "victim" ELSE "spread")
    BY <1>2, <2>2, <2>3, StealEffect
  <2>5. PICK label \in {"victim", "spread"} : pc' = [pc EXCEPT ![w] = label]
    BY <2>4 DEF Goto
  <2> DEFINE s == <<"local", v>>
  <2> DEFINE S == ToSet(SubSeq(local[v], 1, n))
  <2>6. s \in Boxes /\ s[1] = "local"
    BY BoxFacts
  <2>7. /\ buffer[w] = <<>> /\ buffer'[w] = SubSeq(local[v], 1, n) /\ ToSet(<<>>) = {}
        /\ local'[v] = SubSeq(local[v], n + 1, Len(local[v]))
    <3>1. buffer[w] = <<>>
      BY <2>1 DEF Hands
    <3>2. buffer'[w] = SubSeq(local[v], 1, n) /\ local'[v] = SubSeq(local[v], n + 1, Len(local[v]))
      BY <2>4 DEF Types, QueueTypes
    <3> QED
      BY ONLY <3>1, <3>2, ItemsJoined
  <2>8. /\ \A x \in Tasks : x \in ToSet(local[v]) <=> x \in S \/ x \in ToSet(local'[v])
        /\ \A x \in Tasks : ~ (x \in S /\ x \in ToSet(local'[v]))
    BY <2>3, <2>7, OnceCut
  <2>9. /\ \A x \in Tasks : x \in S => In(x, s)
        /\ \A x \in Tasks : In(x, s)' <=> In(x, s) /\ x \notin S
        /\ \A x \in Tasks : In(x, d)' <=> In(x, d) \/ x \in S
    BY ONLY <2>7, <2>8 DEF In
  <2>10. \A k \in Boxes : k[1] # "arg" /\ k \notin {s, d} => Keep(k)
    <3>1. \A u \in Workers : /\ <<"buffer", u>> \notin {s, d} => buffer'[u] = buffer[u]
                             /\ <<"local", u>> \notin {s, d} => local'[u] = local[u]
      BY <2>4 DEF Types, QueueTypes
    <3> HIDE DEF s, d
    <3> QED
      BY ONLY <2>1, <3>1, KeepPools
  <2>11. s # d /\ s[1] # "arg" /\ d[1] # "arg" /\ pc[w] \notin Placing /\ label \notin Placing
    BY <1>0, <2>1 DEF Placing
  <2> HIDE DEF s, d, S
  <2> QED
    BY <1>0, <2>1, <2>5, <2>6, <2>9, <2>10, <2>11, PoolMoves DEF Types
<1> QED
  BY <1>1, <1>2


LEMMA PlacedEnded ==
    ASSUME Types, Labels, Control, Placed, NEW w \in Workers,
           AwakeAfterOffload(w) \/ RunReturns(w) \/ RunThrows(w)
    PROVE  Placed'
<1>0. w \in Threads /\ {"run", "pick"} \cap Placing = {}
  BY DEF Threads, Placing
<1>1. ASSUME AwakeAfterOffload(w) PROVE Placed'
  <2> DEFINE s == <<"buffer", w>>  d == <<"dropped", 0>>  S == ToSet(buffer[w])
  <2>1. /\ pc[w] = "awakeOne" /\ pc' = [pc EXCEPT ![w] = "run"] /\ handed' = handed
        /\ arg' = [arg EXCEPT ![w] = Null]
        /\ dropped' = dropped \cup S /\ buffer' = [buffer EXCEPT ![w] = <<>>]
        /\ UNCHANGED <<global, lifo, local, current, done, discarded>>
    BY <1>1 DEF AwakeAfterOffload, Return, Home, Goto, globalVars, lifoVars, runVars
  <2>2. s \in Boxes /\ d \in Boxes /\ s # d /\ s[1] # "arg" /\ d[1] # "arg"
    BY BoxFacts
  <2>3. buffer'[w] = <<>> /\ ToSet(<<>>) = {}
    BY <2>1 DEF Types, QueueTypes, ToSet
  <2>4. /\ \A x \in Tasks : x \in S => In(x, s)
        /\ \A x \in Tasks : In(x, s)' <=> In(x, s) /\ x \notin S
        /\ \A x \in Tasks : In(x, d)' <=> In(x, d) \/ x \in S
    BY ONLY <2>1, <2>3 DEF In
  <2>5. \A k \in Boxes : k[1] # "arg" /\ k \notin {s, d} => Keep(k)
    <3>1. \A v \in Workers : <<"buffer", v>> \notin {s, d} => buffer'[v] = buffer[v]
      BY <2>1 DEF Types, QueueTypes
    <3>2. <<"dropped", 0>> \in {s, d}
      OBVIOUS
    <3> HIDE DEF s, d
    <3> QED
      BY ONLY <2>1, <3>1, <3>2, KeepPools
  <2>6. pc[w] \notin Placing /\ "run" \notin Placing
    BY <2>1 DEF Placing
  <2> HIDE DEF s, d, S
  <2> QED
    BY <1>0, <2>1, <2>2, <2>4, <2>5, <2>6, PoolMoves DEF Types
<1>2. ASSUME RunReturns(w) \/ RunThrows(w) PROVE Placed'
  <2> DEFINE s == <<"current", w>>  d == <<"done", 0>>  S == {current[w]}
  <2>1. /\ pc[w] = "run" /\ pc' = [pc EXCEPT ![w] = "pick"] /\ handed' = handed /\ arg' = arg
        /\ done' = done \cup S /\ current' = [current EXCEPT ![w] = Null]
        /\ UNCHANGED <<global, lifo, local, buffer, discarded, dropped>>
    BY <1>2 DEF RunReturns, RunThrows, TaskOver, Goto, globalVars, lifoVars, submitVars
  <2>2. s \in Boxes /\ d \in Boxes /\ s # d /\ s[1] # "arg" /\ d[1] # "arg"
    BY BoxFacts
  <2>3. current'[w] = Null
    BY <2>1 DEF Types, RunTypes
  <2>4. /\ \A x \in Tasks : x \in S => In(x, s)
        /\ \A x \in Tasks : In(x, s)' <=> In(x, s) /\ x \notin S
        /\ \A x \in Tasks : In(x, d)' <=> In(x, d) \/ x \in S
    BY ONLY <2>1, <2>3, ItemFacts DEF In
  <2>5. \A k \in Boxes : k[1] # "arg" /\ k \notin {s, d} => Keep(k)
    <3>1. \A v \in Workers : <<"current", v>> \notin {s, d} => current'[v] = current[v]
      BY <2>1 DEF Types, RunTypes
    <3>2. <<"done", 0>> \in {s, d}
      OBVIOUS
    <3> HIDE DEF s, d
    <3> QED
      BY ONLY <2>1, <3>1, <3>2, KeepPools
  <2>6. pc[w] \notin Placing /\ "pick" \notin Placing
    BY <2>1 DEF Placing
  <2> HIDE DEF s, d, S
  <2> QED
    BY <1>0, <2>1, <2>2, <2>4, <2>5, <2>6, PoolMoves DEF Types
<1> QED
  BY <1>1, <1>2

LEMMA PlacedDrained ==
    ASSUME Types, Labels, Placed, NEW c \in Clients, DrainGlobal(c), global # <<>>
    PROVE  Placed'
<1> DEFINE s == <<"global", 0>>  d == <<"discarded", 0>>  S == ToSet(global) \ {Garbage}
<1>1. /\ pc[c] = "drain" /\ handed' = handed /\ arg' = arg
      /\ global' = <<>> /\ discarded' = discarded \cup S
      /\ UNCHANGED <<current, lifo, local, buffer, done, dropped>>
  BY DEF DrainGlobal, Drain, ClientOnly, lifoVars, submitVars, runVars
<1>2. PICK label \in {"drain", "crashed"} : pc' = [pc EXCEPT ![c] = label]
  BY DEF DrainGlobal, Goto
<1>3. s \in Boxes /\ d \in Boxes /\ s # d /\ s[1] # "arg" /\ d[1] # "arg"
  BY BoxFacts
<1>4. ToSet(global') = {}
  BY <1>1 DEF ToSet
<1>5. /\ \A x \in Tasks : x \in S => In(x, s)
      /\ \A x \in Tasks : In(x, s)' <=> In(x, s) /\ x \notin S
      /\ \A x \in Tasks : In(x, d)' <=> In(x, d) \/ x \in S
  BY ONLY <1>1, <1>4, ItemFacts DEF In
<1>6. \A k \in Boxes : k[1] # "arg" /\ k \notin {s, d} => Keep(k)
  <2>1. <<"global", 0>> \in {s, d} /\ <<"discarded", 0>> \in {s, d}
    OBVIOUS
  <2> HIDE DEF s, d
  <2> QED
    BY ONLY <1>1, <2>1, KeepPools
<1>7. pc[c] \notin Placing /\ label \notin Placing /\ c \in Threads
  BY <1>1 DEF Placing, Threads
<1> HIDE DEF s, d, S
<1> QED
  BY <1>1, <1>2, <1>3, <1>5, <1>6, <1>7, PoolMoves DEF Types

LEMMA PlacedOffloaded ==
    ASSUME Types, Labels, Placed, NEW w \in Workers, Offload(w)
    PROVE  Placed'
<1>1. /\ pc[w] = "offload" /\ pc' = [pc EXCEPT ![w] = "awakeOne"] /\ handed' = handed /\ arg' = arg
      /\ global' = global \o Offloaded(w)
      /\ UNCHANGED <<current, lifo, local, buffer, done, discarded, dropped>>
  BY DEF Offload, PushBack, Goto, lifoVars, submitVars, runVars, fateVars
<1>2. ToSet(global') = ToSet(global) \cup ToSet(Offloaded(w)) /\ ToSet(Offloaded(w)) \subseteq {Garbage}
  <2>1. Offloaded(w) \in Seq(Items) /\ global \in Seq(Items)
    BY OffloadedIsSeq DEF Types, GlobalTypes
  <2>2. ToSet(Offloaded(w)) \subseteq {Garbage}
    BY DEF ToSet, Offloaded
  <2> QED
    BY <1>1, <2>1, <2>2, ToSetConcat
<1>3. Keep(<<"global", 0>>)
  BY ONLY <1>2, ItemFacts DEF Keep, In
<1>4. \A k \in Boxes : k[1] # "arg" /\ k \notin {<<"global", 0>>} => Keep(k)
  BY ONLY <1>1, KeepPools
<1>5. \A u \in Threads : /\ pc'[u] \in Placing <=> pc[u] \in Placing
                         /\ pc[u] \in Placing => arg'[u] = arg[u]
  BY <1>1, ArgsKept DEF Placing, Threads, Types
<1>6. \A k \in Boxes : Keep(k)
  <2> SUFFICES ASSUME NEW k \in Boxes PROVE Keep(k)
    OBVIOUS
  <2>1. CASE k[1] = "arg"
    BY ONLY <1>5, <2>1, k \in Boxes, BoxIs, KeepFacts
  <2>2. CASE k[1] # "arg"
    BY ONLY <1>3, <1>4, <2>2, k \in Boxes
  <2> QED
    BY ONLY <2>1, <2>2
<1> QED
  BY ONLY <1>1, <1>6, Placed, PlacedRests


\* A step that takes the tasks of S to b and those of T to c, both from a.
LEMMA PlacedSplit ==
    ASSUME Placed, handed' = handed, NEW a \in Boxes, NEW b \in Boxes, NEW c \in Boxes, NEW S, NEW T,
           a # b, a # c, b # c,
           \A x \in Tasks : x \in S => In(x, a) /\ x \notin T,
           \A x \in Tasks : x \in T => In(x, a),
           \A x \in Tasks : In(x, a)' <=> In(x, a) /\ x \notin S /\ x \notin T,
           \A x \in Tasks : In(x, b)' <=> In(x, b) \/ x \in S,
           \A x \in Tasks : In(x, c)' <=> In(x, c) \/ x \in T,
           \A k \in Boxes : k \notin {a, b, c} => Keep(k)
    PROVE  Placed'
<1>1. ASSUME NEW x \in Tasks PROVE Same(x) \/ Goes(x, a, b) \/ Goes(x, a, c)
  <2>1. \A k \in Boxes : k # a /\ k # b /\ k # c => (In(x, k)' <=> In(x, k))
    BY <1>1 DEF Keep
  <2>2. /\ x \in S => In(x, a) /\ x \notin T
        /\ x \in T => In(x, a)
        /\ In(x, a)' <=> In(x, a) /\ x \notin S /\ x \notin T
        /\ In(x, b)' <=> In(x, b) \/ x \in S
        /\ In(x, c)' <=> In(x, c) \/ x \in T
    BY <1>1
  <2>3. CASE x \in S
    <3>1. Goes(x, a, b)
      BY ONLY <2>1, <2>2, <2>3, handed' = handed, a \in Boxes, b \in Boxes, c \in Boxes, a # b, a # c, b # c DEF Goes
    <3> QED
      BY ONLY <3>1
  <2>4. CASE x \in T
    <3>1. Goes(x, a, c)
      BY ONLY <2>1, <2>2, <2>4, handed' = handed, a \in Boxes, b \in Boxes, c \in Boxes, a # b, a # c, b # c DEF Goes
    <3> QED
      BY ONLY <3>1
  <2>5. CASE x \notin S /\ x \notin T
    <3>1. Same(x)
      BY ONLY <2>1, <2>2, <2>5, handed' = handed DEF Same
    <3> QED
      BY ONLY <3>1
  <2> QED
    BY ONLY <2>3, <2>4, <2>5
<1> QED
  BY <1>1, PlacedKept

\* A step that takes the tasks of S from a and those of T from b, both to c.
LEMMA PlacedJoin ==
    ASSUME Placed, handed' = handed, NEW a \in Boxes, NEW b \in Boxes, NEW c \in Boxes, NEW S, NEW T,
           a # b, a # c, b # c,
           \A x \in Tasks : x \in S => In(x, a),
           \A x \in Tasks : x \in T => In(x, b),
           \A x \in Tasks : In(x, a)' <=> In(x, a) /\ x \notin S,
           \A x \in Tasks : In(x, b)' <=> In(x, b) /\ x \notin T,
           \A x \in Tasks : In(x, c)' <=> In(x, c) \/ x \in S \/ x \in T,
           \A k \in Boxes : k \notin {a, b, c} => Keep(k)
    PROVE  Placed'
<1>1. ASSUME NEW x \in Tasks PROVE Same(x) \/ Goes(x, a, c) \/ Goes(x, b, c)
  <2>1. \A k \in Boxes : k # a /\ k # b /\ k # c => (In(x, k)' <=> In(x, k))
    BY <1>1 DEF Keep
  <2>2. /\ x \in S => In(x, a)
        /\ x \in T => In(x, b)
        /\ In(x, a)' <=> In(x, a) /\ x \notin S
        /\ In(x, b)' <=> In(x, b) /\ x \notin T
        /\ In(x, c)' <=> In(x, c) \/ x \in S \/ x \in T
    BY <1>1
  <2>0. ~ (In(x, a) /\ In(x, b))
    BY <1>1 DEF Placed
  <2>3. CASE x \in S
    <3>1. Goes(x, a, c)
      BY ONLY <2>0, <2>1, <2>2, <2>3, handed' = handed, a \in Boxes, b \in Boxes, c \in Boxes, a # b, a # c, b # c DEF Goes
    <3> QED
      BY ONLY <3>1
  <2>4. CASE x \in T
    <3>1. Goes(x, b, c)
      BY ONLY <2>0, <2>1, <2>2, <2>4, handed' = handed, a \in Boxes, b \in Boxes, c \in Boxes, a # b, a # c, b # c DEF Goes
    <3> QED
      BY ONLY <3>1
  <2>5. CASE x \notin S /\ x \notin T
    <3>1. Same(x)
      BY ONLY <2>1, <2>2, <2>5, handed' = handed DEF Same
    <3> QED
      BY ONLY <3>1
  <2> QED
    BY ONLY <2>3, <2>4, <2>5
<1> QED
  BY <1>1, PlacedKept

\* The slot was full: the task in it is pushed to the queue instead.
LEMMA PlacedSwapped ==
    ASSUME Types, Labels, Placed, ArgsOnce, NEW w \in Workers, PushToLifoSlot(w), arg[w] \in Tasks,
           lifo[w] # Null
    PROVE  Placed'
<1> DEFINE a == <<"arg", w>>  b == <<"lifo", w>>
<1>0. w \in Threads
  BY DEF Threads
<1>1. /\ pc[w] = "toLifo" /\ pc' = [pc EXCEPT ![w] = "toLocal"] /\ handed' = handed
      /\ arg' = [arg EXCEPT ![w] = lifo[w]] /\ lifo' = [lifo EXCEPT ![w] = arg[w]]
      /\ UNCHANGED <<current, global, local, buffer, done, discarded, dropped>>
  BY DEF PushToLifoSlot, Goto, globalVars, runVars, fateVars
<1>2. /\ pc[w] \in Placing /\ pc'[w] \in Placing /\ arg'[w] = lifo[w] /\ lifo'[w] = arg[w]
      /\ \A u \in Threads : u # w => pc'[u] = pc[u] /\ arg'[u] = arg[u]
      /\ \A u \in Workers : u # w => lifo'[u] = lifo[u]
  BY <1>0, <1>1 DEF Labels, Types, SlotTypes, Placing
<1>3. arg[w] # lifo[w]
  BY <1>0 DEF ArgsOnce
<1>4. a \in Boxes /\ b \in Boxes /\ a # b
  BY <1>0, BoxFacts
<1>5. \A x : /\ In(x, a) <=> arg[w] = x
             /\ In(x, b) <=> lifo[w] = x
             /\ In(x, a)' <=> lifo[w] = x
             /\ In(x, b)' <=> arg[w] = x
  BY ONLY <1>2 DEF In
<1>6. \A k \in Boxes : k \notin {a, b} => Keep(k)
  <2>1. /\ \A u \in Threads : <<"arg", u>> \notin {a, b} => pc'[u] = pc[u] /\ arg'[u] = arg[u]
        /\ \A u \in Workers : <<"lifo", u>> \notin {a, b} => lifo'[u] = lifo[u]
    BY ONLY <1>2
  <2> HIDE DEF a, b
  <2> QED
    BY ONLY <1>1, <2>1, KeepOthers
<1> HIDE DEF a, b
<1>7. ASSUME NEW x \in Tasks PROVE Same(x) \/ Goes(x, a, b) \/ Goes(x, b, a)
  <2>1. \A k \in Boxes : k # a /\ k # b => (In(x, k)' <=> In(x, k))
    BY <1>6, <1>7 DEF Keep
  <2>2. CASE x = arg[w]
    <3>1. Goes(x, a, b)
      BY ONLY <1>1, <1>3, <1>4, <1>5, <2>1, <2>2 DEF Goes
    <3> QED
      BY ONLY <3>1
  <2>3. CASE x = lifo[w]
    <3>1. Goes(x, b, a)
      BY ONLY <1>1, <1>3, <1>4, <1>5, <2>1, <2>3 DEF Goes
    <3> QED
      BY ONLY <3>1
  <2>4. CASE x # arg[w] /\ x # lifo[w]
    <3>1. Same(x)
      BY ONLY <1>1, <1>5, <2>1, <2>4 DEF Same
    <3> QED
      BY ONLY <3>1
  <2> QED
    BY ONLY <2>2, <2>3, <2>4
<1> QED
  BY <1>4, <1>7, PlacedKept

LEMMA PlacedToBuffer ==
    ASSUME Types, Labels, Hands, Placed, SeqsOnce, NEW w \in Workers, OffloadGrab(w), arg[w] \in Tasks
    PROVE  Placed'
<1> DEFINE a == <<"arg", w>>  b == <<"local", w>>  c == <<"buffer", w>>
<1>0. w \in Threads
  BY DEF Threads
<1>1. /\ pc[w] = "offloadGrab" /\ pc' = [pc EXCEPT ![w] = "offloadCheck"] /\ handed' = handed
      /\ arg' = [arg EXCEPT ![w] = Null]
      /\ UNCHANGED <<current, global, lifo, done, discarded, dropped>>
  BY DEF OffloadGrab, Goto, globalVars, lifoVars, runVars, fateVars
<1>2. local[w] \in Seq(Items) /\ OnceIn(local[w]) /\ buffer[w] = <<>>
  BY <1>1 DEF Types, QueueTypes, SeqsOnce, Hands
<1>3. PICK n \in 0 .. Len(local[w]) :
          /\ buffer' = [buffer EXCEPT ![w] = <<arg[w]>> \o SubSeq(local[w], 1, n)]
          /\ local' = [local EXCEPT ![w] = SubSeq(local[w], n + 1, Len(local[w]))]
  BY <1>2, OffloadEffect
<1> DEFINE T == ToSet(SubSeq(local[w], 1, n))
<1>4. /\ pc[w] \in Placing /\ pc'[w] \notin Placing
      /\ \A u \in Threads : u # w => pc'[u] = pc[u] /\ arg'[u] = arg[u]
      /\ \A u \in Workers : u # w => local'[u] = local[u] /\ buffer'[u] = buffer[u]
      /\ buffer'[w] = <<arg[w]>> \o SubSeq(local[w], 1, n)
      /\ local'[w] = SubSeq(local[w], n + 1, Len(local[w]))
  BY <1>0, <1>1, <1>3 DEF Labels, Types, SlotTypes, QueueTypes, Placing
<1>5. a \in Boxes /\ b \in Boxes /\ c \in Boxes /\ a # b /\ a # c /\ b # c
  BY <1>0, BoxFacts
<1>6. ToSet(buffer'[w]) = {arg[w]} \cup T /\ ToSet(buffer[w]) = {}
  <2>1. SubSeq(local[w], 1, n) \in Seq(Items) /\ arg[w] \in Items
    BY <1>2, CutFacts, ItemFacts
  <2> QED
    BY ONLY <1>2, <1>4, <2>1, ItemsJoined
<1>7. /\ \A x \in Tasks : x \in ToSet(local[w]) <=> x \in T \/ x \in ToSet(local'[w])
      /\ \A x \in Tasks : ~ (x \in T /\ x \in ToSet(local'[w]))
  BY <1>2, <1>4, OnceCut
<1> HIDE DEF T
<1>8. /\ \A x \in Tasks : x \in {arg[w]} => In(x, a)
      /\ \A x \in Tasks : x \in T => In(x, b)
      /\ \A x \in Tasks : In(x, a)' <=> In(x, a) /\ x \notin {arg[w]}
      /\ \A x \in Tasks : In(x, b)' <=> In(x, b) /\ x \notin T
      /\ \A x \in Tasks : In(x, c)' <=> In(x, c) \/ x \in {arg[w]} \/ x \in T
  BY ONLY <1>4, <1>6, <1>7 DEF In
<1>9. \A k \in Boxes : k \notin {a, b, c} => Keep(k)
  <2>1. /\ \A u \in Threads : <<"arg", u>> \notin {a, b, c} => pc'[u] = pc[u] /\ arg'[u] = arg[u]
        /\ \A u \in Workers : /\ <<"local", u>> \notin {a, b, c} => local'[u] = local[u]
                              /\ <<"buffer", u>> \notin {a, b, c} => buffer'[u] = buffer[u]
    BY ONLY <1>4
  <2> HIDE DEF a, b, c
  <2> QED
    BY ONLY <1>1, <2>1, KeepOthers
<1> HIDE DEF a, b, c
<1> QED
  BY <1>1, <1>5, <1>8, <1>9, PlacedJoin

LEMMA PlacedSpread ==
    ASSUME Types, Labels, Control, Placed, SeqsOnce, NEW w \in Workers, Spread(w)
    PROVE  Placed'
<1> DEFINE a == <<"buffer", w>>  b == <<"current", w>>  c == <<"local", w>>
           S == {Head(buffer[w])}  T == ToSet(Tail(buffer[w]))
<1>0. w \in Threads
  BY DEF Threads
<1>1. /\ pc[w] = "spread" /\ handed' = handed /\ arg' = arg
      /\ local' = [local EXCEPT ![w] = local[w] \o Tail(buffer[w])]
      /\ buffer' = [buffer EXCEPT ![w] = <<>>] /\ current' = [current EXCEPT ![w] = Head(buffer[w])]
      /\ UNCHANGED <<global, lifo, done, discarded, dropped>>
  BY DEF Spread, Pick, globalVars, lifoVars, submitVars, fateVars
<1>2. PICK label \in {"run", "crashed"} : pc' = [pc EXCEPT ![w] = label]
  BY DEF Spread, Pick, Goto
<1>3. /\ local[w] \in Seq(Items) /\ buffer[w] \in Seq(Items) /\ OnceIn(buffer[w]) /\ buffer[w] # <<>>
      /\ current[w] = Null
  BY <1>1 DEF Types, QueueTypes, SeqsOnce, Control, InTask
<1>4. /\ \A u \in Workers : u # w => local'[u] = local[u] /\ buffer'[u] = buffer[u] /\ current'[u] = current[u]
      /\ buffer'[w] = <<>> /\ current'[w] = Head(buffer[w]) /\ local'[w] = local[w] \o Tail(buffer[w])
  BY <1>1 DEF Types, RunTypes, QueueTypes
<1>5. a \in Boxes /\ b \in Boxes /\ c \in Boxes /\ a # b /\ a # c /\ b # c
  BY BoxFacts
<1>6. /\ \A x \in Tasks : x \in ToSet(buffer[w]) <=> x \in S \/ x \in T
      /\ \A x \in Tasks : ~ (x \in S /\ x \in T)
  BY <1>3, OnceHead
<1>7. ToSet(local'[w]) = ToSet(local[w]) \cup T /\ ToSet(buffer'[w]) = {}
  <2>1. PICK r \in Seq(Items) : r = Tail(buffer[w])
    BY <1>3, OnceHead
  <2>2. local'[w] = local[w] \o r /\ T = ToSet(r)
    BY ONLY <1>4, <2>1
  <2>3. ToSet(local[w] \o r) = ToSet(local[w]) \cup ToSet(r)
    BY ONLY <1>3, ItemsJoined
  <2>4. ToSet(buffer'[w]) = {}
    BY ONLY <1>4, ItemsJoined
  <2> QED
    BY ONLY <2>2, <2>3, <2>4
<1> HIDE DEF T
<1>8. /\ \A x \in Tasks : x \in S => In(x, a) /\ x \notin T
      /\ \A x \in Tasks : x \in T => In(x, a)
      /\ \A x \in Tasks : In(x, a)' <=> In(x, a) /\ x \notin S /\ x \notin T
      /\ \A x \in Tasks : In(x, b)' <=> In(x, b) \/ x \in S
      /\ \A x \in Tasks : In(x, c)' <=> In(x, c) \/ x \in T
  BY ONLY <1>3, <1>4, <1>6, <1>7, ItemFacts DEF In
<1>9. \A k \in Boxes : k \notin {a, b, c} => Keep(k)
  <2>1. \A u \in Threads : /\ pc'[u] \in Placing <=> pc[u] \in Placing
                           /\ pc[u] \in Placing => arg'[u] = arg[u]
    <3>1. pc[w] \notin Placing /\ label \notin Placing
      BY <1>1 DEF Placing
    <3> QED
      BY <1>0, <1>1, <1>2, <3>1, ArgsKept DEF Types
  <2>2. \A u \in Workers : /\ <<"local", u>> \notin {a, b, c} => local'[u] = local[u]
                           /\ <<"buffer", u>> \notin {a, b, c} => buffer'[u] = buffer[u]
                           /\ <<"current", u>> \notin {a, b, c} => current'[u] = current[u]
    BY ONLY <1>4
  <2> HIDE DEF a, b, c
  <2> QED
    BY ONLY <1>1, <2>1, <2>2, KeepOthers
<1> HIDE DEF a, b, c, S
<1> QED
  BY <1>1, <1>5, <1>8, <1>9, PlacedSplit

LEMMA PlacedLeft ==
    ASSUME Types, Labels, Placed, SeqsOnce, NEW w \in Workers, DiscardOwn(w)
    PROVE  Placed'
<1> DEFINE a == <<"lifo", w>>  b == <<"local", w>>  c == <<"discarded", 0>>
           S == {lifo[w]} \ {Null}  T == IF local[w] = <<>> THEN {} ELSE {Head(local[w])}
<1>0. w \in Threads
  BY DEF Threads
<1>1. /\ pc[w] = "leave" /\ handed' = handed /\ arg' = arg
      /\ discarded' = discarded \cup S \cup T
      /\ lifo' = [lifo EXCEPT ![w] = Null]
      /\ local' = IF local[w] = <<>> THEN local ELSE [local EXCEPT ![w] = Tail(local[w])]
      /\ UNCHANGED <<global, buffer, current, done, dropped>>
  BY DEF DiscardOwn, globalVars, submitVars, runVars
<1>2. PICK label \in {"exited", "leave", "crashed"} : pc' = [pc EXCEPT ![w] = label]
  BY DEF DiscardOwn, Goto
<1>3. local[w] \in Seq(Items) /\ OnceIn(local[w])
  BY DEF Types, QueueTypes, SeqsOnce
<1>4. /\ \A u \in Workers : u # w => local'[u] = local[u] /\ lifo'[u] = lifo[u]
      /\ lifo'[w] = Null /\ local'[w] = IF local[w] = <<>> THEN <<>> ELSE Tail(local[w])
  BY <1>1 DEF Types, SlotTypes, QueueTypes
<1>5. a \in Boxes /\ b \in Boxes /\ c \in Boxes /\ a # b /\ a # c /\ b # c
  BY BoxFacts
<1>6. /\ \A x \in Tasks : x \in ToSet(local[w]) <=> x \in T \/ x \in ToSet(local'[w])
      /\ \A x \in Tasks : ~ (x \in T /\ x \in ToSet(local'[w]))
  <2>1. CASE local[w] = <<>>
    <3>1. T = {} /\ local'[w] = local[w]
      BY <1>4, <2>1
    <3> QED
      BY ONLY <3>1
  <2>2. CASE local[w] # <<>>
    <3>1. /\ \A x \in Tasks : x \in ToSet(local[w]) <=> x = Head(local[w]) \/ x \in ToSet(Tail(local[w]))
          /\ Head(local[w]) \in Tasks => Head(local[w]) \notin ToSet(Tail(local[w]))
      BY <1>3, <2>2, OnceHead
    <3>2. T = {Head(local[w])} /\ local'[w] = Tail(local[w])
      BY <1>4, <2>2
    <3> QED
      BY ONLY <3>1, <3>2
  <2> QED
    BY ONLY <2>1, <2>2
<1>7. \A x \in Tasks : x \in S <=> x = lifo[w]
  BY ItemFacts
<1> HIDE DEF S, T
<1>8. /\ \A x \in Tasks : x \in S => In(x, a)
      /\ \A x \in Tasks : x \in T => In(x, b)
      /\ \A x \in Tasks : In(x, a)' <=> In(x, a) /\ x \notin S
      /\ \A x \in Tasks : In(x, b)' <=> In(x, b) /\ x \notin T
      /\ \A x \in Tasks : In(x, c)' <=> In(x, c) \/ x \in S \/ x \in T
  BY ONLY <1>1, <1>4, <1>6, <1>7, ItemFacts DEF In
<1>9. \A k \in Boxes : k \notin {a, b, c} => Keep(k)
  <2>1. \A u \in Threads : /\ pc'[u] \in Placing <=> pc[u] \in Placing
                           /\ pc[u] \in Placing => arg'[u] = arg[u]
    <3>1. pc[w] \notin Placing /\ label \notin Placing
      BY <1>1 DEF Placing
    <3> QED
      BY <1>0, <1>1, <1>2, <3>1, ArgsKept DEF Types
  <2>2. \A u \in Workers : /\ <<"local", u>> \notin {a, b, c} => local'[u] = local[u]
                           /\ <<"lifo", u>> \notin {a, b, c} => lifo'[u] = lifo[u]
    BY ONLY <1>4
  <2>3. <<"discarded", 0>> \in {a, b, c}
    OBVIOUS
  <2> HIDE DEF a, b, c
  <2> QED
    BY ONLY <1>1, <2>1, <2>2, <2>3, KeepOthers
<1> HIDE DEF a, b, c
<1> QED
  BY <1>1, <1>5, <1>8, <1>9, PlacedJoin


LEMMA NextPlaced ==
    ASSUME Types, Labels, Control, Hands, Accounts, [Next]_vars
    PROVE  Placed'
<1> USE DEF Accounts
<1>1. CASE Quiet
  <2>1. \A k \in Boxes : Keep(k)
    <3>1. PICK D : D = {}
      OBVIOUS
    <3>2. \A k \in Boxes : k \notin D => Keep(k)
      BY <1>1, KeepOthers DEF Quiet
    <3> QED
      BY ONLY <3>1, <3>2
  <2>2. handed' = handed
    BY <1>1 DEF Quiet
  <2> QED
    BY <2>1, <2>2, PlacedRests
<1>2. ASSUME NEW t \in Threads, NEW x \in Tasks, NEW hint \in {"Next", "UpToYou", "Slow"}, Execute(t, x, hint)
      PROVE  Placed'
  BY <1>2, PlacedEntered DEF Types
<1>3. ASSUME NEW t \in Threads, (CheckClosed(t) /\ closed) \/ PushOne(t) PROVE Placed'
  <2>1. global \in Seq(Items) /\ (PushOne(t) => arg[t] \in Tasks)
    BY DEF Types, GlobalTypes, Control, PushOne, Placing
  <2> QED
    BY <1>3, <2>1, PlacedFromArg DEF Types
<1>4. ASSUME NEW w \in Workers, Refuse(w) \/ PushToLocalQueue(w) PROVE Placed'
  <2>1. w \in Threads /\ (PushToLocalQueue(w) => arg[w] \in Tasks)
    BY DEF Threads, Control, PushToLocalQueue, Placing
  <2> QED
    BY <1>4, <2>1, PlacedFromArg DEF Types
<1>5. ASSUME NEW w \in Workers, PushToLifoSlot(w) PROVE Placed'
  <2>1. w \in Threads /\ arg[w] \in Tasks
    BY <1>5 DEF Threads, Control, PushToLifoSlot, Placing
  <2>2. CASE lifo[w] = Null
    BY <1>5, <2>1, <2>2, PlacedFromArg DEF Types
  <2>3. CASE lifo[w] # Null
    BY <1>5, <2>1, <2>3, PlacedSwapped
  <2> QED
    BY <2>2, <2>3
<1>6. ASSUME NEW w \in Workers, OffloadGrab(w) PROVE Placed'
  <2>1. arg[w] \in Tasks
    BY <1>6 DEF Threads, Control, OffloadGrab, Placing
  <2> QED
    BY <1>6, <2>1, PlacedToBuffer
<1>7. ASSUME NEW w \in Workers, \/ Offload(w) \/ AwakeAfterOffload(w) \/ TakeLifo(w) \/ Pop(w) \/ GrabGlobal(w)
                                \/ Spread(w) \/ Steal(w) \/ DiscardOwn(w) \/ RunReturns(w) \/ RunThrows(w)
      PROVE  Placed'
  BY <1>7, PlacedOffloaded, PlacedEnded, PlacedTaken, PlacedGrabbed, PlacedSpread, PlacedLeft
<1>8. ASSUME NEW c \in Clients, DrainGlobal(c), global # <<>> PROVE Placed'
  BY <1>8, PlacedDrained
<1>9. Quiet \/ Moving
  BY QuietOrMoving DEF Types
<1> QED
  BY ONLY <1>1, <1>2, <1>3, <1>4, <1>5, <1>6, <1>7, <1>8, <1>9 DEF Moving


-----------------------------------------------------------------------------
(* No queue gets a task that it has *)

\* A task in two boxes.
LEMMA OneBox ==
    ASSUME Placed, NEW x \in Tasks, NEW k \in Boxes, NEW l \in Boxes, In(x, k), In(x, l)
    PROVE  k = l
  BY DEF Placed

LEMMA SeqsKept ==
    ASSUME SeqsOnce, global' = global \/ OnceIn(global'),
           \A w \in Workers : /\ local'[w] = local[w] \/ OnceIn(local'[w])
                              /\ buffer'[w] = buffer[w] \/ OnceIn(buffer'[w])
    PROVE  SeqsOnce'
  BY DEF SeqsOnce

LEMMA OnceNone == OnceIn(<<>>)
  BY DEF OnceIn

\* What is submitted is in no queue yet.
LEMMA ArgIsElsewhere ==
    ASSUME Placed, NEW t \in Threads, pc[t] \in Placing, arg[t] \in Tasks
    PROVE  /\ arg[t] \notin ToSet(global)
           /\ \A w \in Workers : arg[t] \notin ToSet(local[w]) /\ arg[t] \notin ToSet(buffer[w])
<1>1. In(arg[t], <<"arg", t>>)
  BY InFacts
<1>2. \A k \in Boxes : k[1] # "arg" => ~ In(arg[t], k)
  BY <1>1, BoxFacts, OneBox
<1> QED
  BY ZenonT(60), <1>2, BoxFacts, InFacts

LEMMA OnceOneMore ==
    ASSUME NEW q \in Seq(Items), OnceIn(q), NEW x \in Tasks, x \notin ToSet(q)
    PROVE  OnceIn(q \o <<x>>) /\ OnceIn(<<x>> \o q)
<1>1. PICK one \in Seq(Items) : one = <<x>> /\ OnceIn(one) /\ ToSet(one) = {x}
  BY OnceOne, ItemFacts
<1>2. OnceIn(q \o one) /\ OnceIn(one \o q)
  BY <1>1, OnceJoin
<1> QED
  BY ONLY <1>1, <1>2

LEMMA NextSeqs ==
    ASSUME Types, Labels, Control, Hands, Accounts, [Next]_vars
    PROVE  SeqsOnce'
<1> USE DEF Accounts, Types, GlobalTypes, QueueTypes, globalVars, lifoVars, submitVars, fateVars, runVars
<1>1. CASE Quiet \/ \E t \in Threads : (CheckClosed(t) /\ closed)
                                       \/ \E x \in Tasks, hint \in {"Next", "UpToYou", "Slow"} : Execute(t, x, hint)
  <2>1. UNCHANGED <<global, local, buffer>>
    BY <1>1 DEF Quiet, CheckClosed, Execute
  <2> QED
    BY <2>1, SeqsKept
<1>2. ASSUME NEW t \in Threads, PushOne(t) PROVE SeqsOnce'
  <2>1. /\ pc[t] \in Placing /\ global' = global \o <<arg[t]>> /\ UNCHANGED <<local, buffer>>
        /\ arg[t] \in Tasks
    BY <1>2 DEF PushOne, PushBack, Placing, Control
  <2>2. OnceIn(global \o <<arg[t]>>)
    BY <2>1, ArgIsElsewhere, OnceOneMore DEF SeqsOnce
  <2> QED
    BY ONLY <2>1, <2>2, SeqsOnce, SeqsKept
<1>3. ASSUME NEW w \in Workers, Refuse(w) \/ PushToLifoSlot(w) \/ TakeLifo(w) \/ RunReturns(w) \/ RunThrows(w)
      PROVE  SeqsOnce'
  <2>1. UNCHANGED <<global, local, buffer>>
    BY <1>3 DEF Refuse, PushToLifoSlot, TakeLifo, RunReturns, RunThrows, TaskOver
  <2> QED
    BY <2>1, SeqsKept
<1>4. ASSUME NEW w \in Workers, PushToLocalQueue(w) PROVE SeqsOnce'
  <2>1. /\ pc[w] \in Placing /\ local' = [local EXCEPT ![w] = local[w] \o <<arg[w]>>]
        /\ UNCHANGED <<global, buffer>>
        /\ arg[w] \in Tasks /\ w \in Threads
    <3>1. arg[w] \in Tasks /\ w \in Threads
      BY <1>4 DEF PushToLocalQueue, Placing, Control, Threads
    <3>2. Append(local[w], arg[w]) = local[w] \o <<arg[w]>>
      <4>1. \A q \in Seq(Items), x \in Items : Append(q, x) = q \o <<x>>
        OBVIOUS
      <4>2. local[w] \in Seq(Items) /\ arg[w] \in Items
        BY <3>1, ItemFacts
      <4> QED
        BY ONLY <4>1, <4>2
    <3> QED
      BY <1>4, <3>1, <3>2 DEF PushToLocalQueue, Placing
  <2>2. OnceIn(local[w] \o <<arg[w]>>)
    BY <2>1, ArgIsElsewhere, OnceOneMore DEF SeqsOnce
  <2>3. \A v \in Workers : local'[v] = IF v = w THEN local[w] \o <<arg[w]>> ELSE local[v]
    BY <2>1
  <2> QED
    BY ONLY <2>1, <2>2, <2>3, SeqsOnce, SeqsKept
<1>5. ASSUME NEW w \in Workers, OffloadGrab(w) PROVE SeqsOnce'
  <2>1. arg[w] \in Tasks /\ w \in Threads /\ pc[w] \in Placing /\ global' = global
    BY <1>5 DEF OffloadGrab, Placing, Control, Threads
  <2>2. local[w] \in Seq(Items) /\ OnceIn(local[w])
    BY DEF SeqsOnce
  <2>3. PICK n \in 0 .. Len(local[w]) :
          /\ buffer' = [buffer EXCEPT ![w] = <<arg[w]>> \o SubSeq(local[w], 1, n)]
          /\ local' = [local EXCEPT ![w] = SubSeq(local[w], n + 1, Len(local[w]))]
    BY <1>5, <2>2, OffloadEffect
  <2>4. PICK q \in Seq(Items) : q = SubSeq(local[w], 1, n)
    BY <2>2, CutFacts
  <2>5. /\ OnceIn(q) /\ OnceIn(SubSeq(local[w], n + 1, Len(local[w])))
        /\ \A x \in Tasks : x \in ToSet(q) => x \in ToSet(local[w])
    BY <2>2, <2>4, OnceCut
  <2>6. OnceIn(<<arg[w]>> \o q)
    BY <2>1, <2>5, ArgIsElsewhere, OnceOneMore
  <2>7. \A v \in Workers : /\ local'[v] = IF v = w THEN SubSeq(local[w], n + 1, Len(local[w])) ELSE local[v]
                           /\ buffer'[v] = IF v = w THEN <<arg[w]>> \o q ELSE buffer[v]
    BY <2>3, <2>4
  <2> QED
    BY ONLY <2>1, <2>5, <2>6, <2>7, SeqsOnce, SeqsKept
<1>6. ASSUME NEW w \in Workers, Offload(w) PROVE SeqsOnce'
  <2>1. global' = global \o Offloaded(w) /\ UNCHANGED <<local, buffer>>
    BY <1>6 DEF Offload, PushBack
  <2>2. PICK q \in Seq(Items) : q = Offloaded(w)
    BY OffloadedIsSeq
  <2>3. OnceIn(q) /\ ToSet(q) \subseteq {Garbage}
    <3>1. \A i \in DOMAIN q : q[i] = Garbage
      BY <2>2 DEF Offloaded
    <3> QED
      BY ONLY <3>1 DEF OnceIn, ToSet
  <2>4. OnceIn(global \o q)
    <3>1. \A x \in Tasks : ~ (x \in ToSet(global) /\ x \in ToSet(q))
      BY <2>3, ItemFacts
    <3> QED
      BY <2>3, <3>1, OnceJoin DEF SeqsOnce
  <2> QED
    BY ONLY <2>1, <2>2, <2>4, SeqsOnce, SeqsKept
<1>7. ASSUME NEW w \in Workers, AwakeAfterOffload(w) PROVE SeqsOnce'
  <2>1. UNCHANGED <<global, local>> /\ buffer' = [buffer EXCEPT ![w] = <<>>]
    BY <1>7 DEF AwakeAfterOffload
  <2>2. \A v \in Workers : buffer'[v] = IF v = w THEN <<>> ELSE buffer[v]
    BY <2>1
  <2> QED
    BY ONLY <2>1, <2>2, OnceNone, SeqsOnce, SeqsKept
<1>8. ASSUME NEW w \in Workers, Pop(w) PROVE SeqsOnce'
  <2>1. UNCHANGED <<global, buffer>> /\ local' = [local EXCEPT ![w] = Tail(local[w])] /\ local[w] # <<>>
    BY <1>8 DEF Pop
  <2>2. \A v \in Workers : local'[v] = IF v = w THEN Tail(local[w]) ELSE local[v]
    BY <2>1
  <2>3. OnceIn(Tail(local[w]))
    BY <2>1, OnceHead DEF SeqsOnce
  <2> QED
    BY ONLY <2>1, <2>2, <2>3, SeqsOnce, SeqsKept
<1>9. ASSUME NEW w \in Workers, GrabGlobal(w) PROVE SeqsOnce'
  <2>1. UNCHANGED local
    BY <1>9 DEF GrabGlobal
  <2>2. PICK n \in 1 .. Len(global) : /\ global' = SubSeq(global, n + 1, Len(global))
                                      /\ buffer' = [buffer EXCEPT ![w] = SubSeq(global, 1, n)]
    BY <1>9, GrabEffect
  <2>3. n \in 0 .. Len(global)
    OBVIOUS
  <2>4. OnceIn(SubSeq(global, 1, n)) /\ OnceIn(SubSeq(global, n + 1, Len(global)))
    BY <2>3, OnceCut DEF SeqsOnce
  <2>5. \A v \in Workers : buffer'[v] = IF v = w THEN SubSeq(global, 1, n) ELSE buffer[v]
    BY <2>2
  <2> QED
    BY ONLY <2>1, <2>2, <2>4, <2>5, SeqsOnce, SeqsKept
<1>10. ASSUME NEW w \in Workers, Spread(w) PROVE SeqsOnce'
  <2>1. /\ UNCHANGED global /\ local' = [local EXCEPT ![w] = local[w] \o Tail(buffer[w])]
        /\ buffer' = [buffer EXCEPT ![w] = <<>>] /\ pc[w] = "spread"
    BY <1>10 DEF Spread
  <2>2. local[w] = <<>> /\ buffer[w] # <<>>
    BY <2>1 DEF Hands, Control
  <2>3. PICK q \in Seq(Items) : q = Tail(buffer[w]) /\ OnceIn(q)
    BY <2>2, OnceHead DEF SeqsOnce
  <2>4. <<>> \o q = q
    OBVIOUS
  <2>5. \A v \in Workers : /\ local'[v] = IF v = w THEN q ELSE local[v]
                           /\ buffer'[v] = IF v = w THEN <<>> ELSE buffer[v]
    BY <2>1, <2>2, <2>3, <2>4
  <2> QED
    BY ONLY <2>1, <2>3, <2>5, OnceNone, SeqsOnce, SeqsKept
<1>11. ASSUME NEW w \in Workers, Steal(w) PROVE SeqsOnce'
  <2>1. UNCHANGED global /\ pc[w] = "steal"
    BY <1>11 DEF Steal
  <2>2. PICK v \in Workers : v = victim[w]
    BY <2>1 DEF Control
  <2>3. local[v] \in Seq(Items) /\ OnceIn(local[v]) /\ limit[w] \in Nat
    BY DEF StealTypes, SeqsOnce
  <2>4. PICK n \in 0 .. Len(local[v]) : /\ buffer' = [buffer EXCEPT ![w] = SubSeq(local[v], 1, n)]
                                        /\ local' = [local EXCEPT ![v] = SubSeq(local[v], n + 1, Len(local[v]))]
    BY <1>11, <2>2, <2>3, StealEffect
  <2>5. OnceIn(SubSeq(local[v], 1, n)) /\ OnceIn(SubSeq(local[v], n + 1, Len(local[v])))
    BY <2>3, OnceCut
  <2>6. \A u \in Workers : /\ local'[u] = IF u = v THEN SubSeq(local[v], n + 1, Len(local[v])) ELSE local[u]
                           /\ buffer'[u] = IF u = w THEN SubSeq(local[v], 1, n) ELSE buffer[u]
    BY <2>4
  <2> QED
    BY ONLY <2>1, <2>5, <2>6, SeqsOnce, SeqsKept
<1>12. ASSUME NEW w \in Workers, DiscardOwn(w) PROVE SeqsOnce'
  <2>1. /\ UNCHANGED <<global, buffer>>
        /\ local' = IF local[w] = <<>> THEN local ELSE [local EXCEPT ![w] = Tail(local[w])]
    BY <1>12 DEF DiscardOwn
  <2>2. local[w] # <<>> => OnceIn(Tail(local[w]))
    BY OnceHead DEF SeqsOnce
  <2>3. \A v \in Workers : local'[v] = local[v] \/ (v = w /\ local[w] # <<>> /\ local'[v] = Tail(local[w]))
    BY <2>1
  <2> QED
    BY ONLY <2>1, <2>2, <2>3, SeqsOnce, SeqsKept
<1>13. ASSUME NEW c \in Clients, DrainGlobal(c), global # <<>> PROVE SeqsOnce'
  <2>1. global' = <<>> /\ UNCHANGED <<local, buffer>>
    BY <1>13 DEF DrainGlobal, Drain, ClientOnly
  <2> QED
    BY ONLY <2>1, OnceNone, SeqsOnce, SeqsKept
<1>14. Quiet \/ Moving
  BY QuietOrMoving
<1> QED
  BY ONLY <1>1, <1>2, <1>3, <1>4, <1>5, <1>6, <1>7, <1>8, <1>9, <1>10, <1>11, <1>12, <1>13, <1>14 DEF Moving


-----------------------------------------------------------------------------
(* What Execute has in its frame *)

\* A step that submits nothing.
Fading == /\ handed' = handed
          /\ \A t \in Threads : arg'[t] \in {arg[t], Null}
          /\ \A w \in Workers : lifo'[w] \in {lifo[w], Null}

LEMMA ArgsFade == ASSUME ArgsOnce, Fading PROVE ArgsOnce'
<1>1. ASSUME NEW t \in Threads, arg'[t] \in Tasks
      PROVE  /\ arg'[t] \in handed'
             /\ \A u \in Threads : u # t => arg'[u] # arg'[t]
             /\ \A w \in Workers : lifo'[w] # arg'[t]
  <2>1. arg'[t] # Null
    BY <1>1, ItemFacts
  <2>2. arg'[t] = arg[t] /\ arg[t] \in Tasks
    BY ONLY <1>1, <2>1, Fading DEF Fading
  <2> QED
    BY ONLY <2>1, <2>2, ArgsOnce, Fading, t \in Threads DEF ArgsOnce, Fading
<1> QED
  BY ONLY <1>1 DEF ArgsOnce

LEMMA MostFade ==
    ASSUME SlotTypes, Quiet \/ Moving
    PROVE  \/ Fading
           \/ \E t \in Threads, x \in Tasks, hint \in {"Next", "UpToYou", "Slow"} : Execute(t, x, hint)
           \/ \E w \in Workers : PushToLifoSlot(w)
<1> USE DEF SlotTypes, submitVars, lifoVars, Return
<1>0. \A w \in Workers : w \in Threads
  BY DEF Threads
<1>1. CASE Quiet
  BY <1>1, <1>0 DEF Quiet, Fading
<1>2. ASSUME NEW t \in Threads, (CheckClosed(t) /\ closed) \/ PushOne(t) PROVE Fading
  BY <1>2 DEF CheckClosed, PushOne, Fading
<1>3. ASSUME NEW w \in Workers, \/ Refuse(w) \/ PushToLocalQueue(w) \/ OffloadGrab(w)
                                \/ AwakeAfterOffload(w)
      PROVE  Fading
  <2>1. arg' = [arg EXCEPT ![w] = Null] /\ lifo' = lifo /\ handed' = handed
    BY <1>3 DEF Refuse, PushToLocalQueue, OffloadGrab, AwakeAfterOffload
  <2> QED
    BY <2>1, <1>0 DEF Fading
<1>4. ASSUME NEW w \in Workers, \/ Offload(w) \/ Pop(w) \/ GrabGlobal(w) \/ Spread(w) \/ Steal(w)
                                \/ RunReturns(w) \/ RunThrows(w)
      PROVE  Fading
  <2>1. arg' = arg /\ lifo' = lifo /\ handed' = handed
    BY <1>4 DEF Offload, Pop, SkipLifo, GrabGlobal, Spread, Steal, RunReturns, RunThrows, TaskOver
  <2> QED
    BY <2>1 DEF Fading
<1>5. ASSUME NEW w \in Workers, TakeLifo(w) \/ DiscardOwn(w) PROVE Fading
  <2>1. arg' = arg /\ lifo' = [lifo EXCEPT ![w] = Null] /\ handed' = handed
    BY <1>5 DEF TakeLifo, DiscardOwn
  <2> QED
    BY <2>1 DEF Fading
<1>6. ASSUME NEW c \in Clients, DrainGlobal(c) PROVE Fading
  BY <1>6 DEF DrainGlobal, ClientOnly, Fading
<1> QED
  BY ONLY <1>1, <1>2, <1>3, <1>4, <1>5, <1>6, Quiet \/ Moving DEF Moving

LEMMA NextArgs ==
    ASSUME Types, Labels, Control, Accounts, [Next]_vars
    PROVE  ArgsOnce'
<1> USE DEF Accounts, Types
<1>1. CASE Fading
  BY <1>1, ArgsFade
<1>2. ASSUME NEW t \in Threads, NEW x \in Tasks, NEW hint \in {"Next", "UpToYou", "Slow"}, Execute(t, x, hint)
      PROVE  ArgsOnce'
  <2>1. handed' = handed \cup {x} /\ arg' = [arg EXCEPT ![t] = x] /\ lifo' = lifo
    BY <1>2 DEF Execute, lifoVars
  <2>2. x \notin handed
    BY <1>2 DEF Execute, MaySubmit, Family, Threads
  <2>3. \A u \in Threads : arg'[u] = IF u = t THEN x ELSE arg[u]
    BY <2>1 DEF SlotTypes
  <2>4. \A w \in Workers : lifo[w] \in Tasks => lifo[w] \in handed
    BY BoxFacts, InFacts DEF Placed
  <2>5. ASSUME NEW u \in Threads, arg'[u] \in Tasks
        PROVE  /\ arg'[u] \in handed'
               /\ \A v \in Threads : v # u => arg'[v] # arg'[u]
               /\ \A w \in Workers : lifo'[w] # arg'[u]
    <3>1. CASE u = t
      <4>1. arg'[u] = x /\ \A v \in Threads : v # u => arg'[v] = arg[v]
        BY ONLY <2>3, <3>1, u \in Threads
      <4>2. \A v \in Threads : arg[v] # x
        BY <2>2 DEF ArgsOnce
      <4>3. \A w \in Workers : lifo[w] # x
        BY <2>2, <2>4
      <4> QED
        BY ONLY <2>1, <4>1, <4>2, <4>3
    <3>2. CASE u # t
      <4>1. /\ arg'[u] = arg[u] /\ arg[u] \in Tasks /\ arg[u] \in handed
            /\ \A v \in Threads : v # u => arg[v] # arg[u]
            /\ \A w \in Workers : lifo[w] # arg[u]
        BY <2>3, <2>5, <3>2 DEF ArgsOnce
      <4> QED
        BY ONLY <2>1, <2>2, <2>3, <4>1
    <3> QED
      BY <3>1, <3>2
  <2> QED
    BY ONLY <2>5 DEF ArgsOnce
<1>3. ASSUME NEW w \in Workers, PushToLifoSlot(w) PROVE ArgsOnce'
  <2>0. w \in Threads
    BY DEF Threads
  <2>1. /\ handed' = handed /\ lifo' = [lifo EXCEPT ![w] = arg[w]]
        /\ arg' = [arg EXCEPT ![w] = lifo[w]]
    <3>1. CASE lifo[w] = Null
      BY <1>3, <3>1 DEF PushToLifoSlot, Return
    <3>2. CASE lifo[w] # Null
      BY <1>3, <3>2 DEF PushToLifoSlot
    <3> QED
      BY <3>1, <3>2
  <2>2. /\ \A u \in Threads : arg'[u] = IF u = w THEN lifo[w] ELSE arg[u]
        /\ \A u \in Workers : lifo'[u] = IF u = w THEN arg[w] ELSE lifo[u]
    BY <2>0, <2>1 DEF SlotTypes
  <2>3. arg[w] \in Tasks
    BY <1>3, <2>0 DEF PushToLifoSlot, Control, Placing
  <2>4. lifo[w] \in Tasks => /\ lifo[w] \in handed
                             /\ \A v \in Workers : v # w => lifo[v] # lifo[w]
    <3>1. CASE lifo[w] \in Tasks
      <4>1. In(lifo[w], <<"lifo", w>>) /\ <<"lifo", w>> \in Boxes
        BY ONLY w \in Workers, BoxFacts, InFacts
      <4>2. lifo[w] \in handed
        BY <3>1, <4>1 DEF Placed
      <4>3. ASSUME NEW v \in Workers, v # w, lifo[v] = lifo[w] PROVE FALSE
        <5>1. In(lifo[w], <<"lifo", v>>) /\ <<"lifo", v>> \in Boxes
          BY ONLY <4>3, BoxFacts, InFacts
        <5>2. <<"lifo", v>> = <<"lifo", w>>
          BY <3>1, <4>1, <5>1, OneBox
        <5> QED
          BY ONLY <4>3, <5>2
      <4> QED
        BY ONLY <4>2, <4>3
    <3> QED
      BY ONLY <3>1
  <2>5. ASSUME NEW u \in Threads, arg'[u] \in Tasks
        PROVE  /\ arg'[u] \in handed'
               /\ \A v \in Threads : v # u => arg'[v] # arg'[u]
               /\ \A v \in Workers : lifo'[v] # arg'[u]
    <3>1. CASE u = w
      <4>1. arg'[u] = lifo[w] /\ lifo[w] \in Tasks
        BY ONLY <2>2, <2>5, <3>1
      <4>2. \A v \in Threads : arg[v] # lifo[w]
        BY <2>0, <4>1 DEF ArgsOnce
      <4> QED
        BY ONLY <2>0, <2>1, <2>2, <2>4, <3>1, <4>1, <4>2
    <3>2. CASE u # w
      <4>1. /\ arg'[u] = arg[u] /\ arg[u] \in Tasks /\ arg[u] \in handed
            /\ \A v \in Threads : v # u => arg[v] # arg[u]
            /\ \A v \in Workers : lifo[v] # arg[u]
        BY <2>2, <2>5, <3>2 DEF ArgsOnce
      <4> QED
        BY ONLY <2>0, <2>1, <2>2, <3>2, <4>1
    <3> QED
      BY <3>1, <3>2
  <2> QED
    BY ONLY <2>5 DEF ArgsOnce
<1>4. Quiet \/ Moving
  BY QuietOrMoving
<1> QED
  BY <1>1, <1>2, <1>3, <1>4, MostFade


-----------------------------------------------------------------------------
(* Who submits a task *)

LEMMA FamilyRests == ASSUME Family, UNCHANGED <<children, todo, current, handed, done>> PROVE Family'
  BY DEF Family

\* A worker takes up a task that nobody ran yet.
LEMMA FamilyPicked ==
    ASSUME Types, Placed, Family, UNCHANGED <<children, handed, done>>,
           NEW w \in Workers, current[w] = Null, NEW x \in Items,
           current' = [current EXCEPT ![w] = x],
           todo' = [todo EXCEPT ![w] = IF x \in Tasks THEN children[x] ELSE {}],
           NEW k \in Boxes, k[1] \in {"lifo", "local", "buffer"}, In(x, k)
    PROVE  Family'
<1>1. \A v \in Workers : /\ current'[v] = IF v = w THEN x ELSE current[v]
                         /\ todo'[v] = IF v = w THEN (IF x \in Tasks THEN children[x] ELSE {}) ELSE todo[v]
  BY DEF Types, RunTypes
<1>2. x \in Tasks => children[x] \cap handed = {}
  <2>1. x \in Tasks => x \notin done
    <3>1. In(x, <<"done", 0>>) <=> x \in done
      BY InFacts
    <3>2. <<"done", 0>> # k
      OBVIOUS
    <3> QED
      BY <3>1, <3>2, OneBox, BoxFacts
  <2>2. x \in Tasks => \A v \in Workers : current[v] # x
    <3>0. \A v \in Workers : <<"current", v>>[1] = "current"
      OBVIOUS
    <3>1. \A v \in Workers : (In(x, <<"current", v>>) <=> current[v] = x) /\ <<"current", v>> # k
      BY ONLY <3>0, InFacts, k[1] \in {"lifo", "local", "buffer"}
    <3> QED
      BY <3>1, OneBox, BoxFacts
  <2> QED
    BY <2>1, <2>2 DEF Family
<1>3. \A y \in Tasks : y # Null
  BY ItemFacts
<1>4. \A y \in Tasks : children'[y] \cap handed' # {} => y \in done' \/ \E v \in Workers : current'[v] = y
  <2> TAKE y \in Tasks
  <2> HAVE children'[y] \cap handed' # {}
  <2>1. y \in done \/ \E v \in Workers : current[v] = y
    BY DEF Family
  <2>2. ASSUME NEW v \in Workers, current[v] = y PROVE current'[v] = y
    BY ONLY <1>1, <1>3, <2>2, current[w] = Null, y \in Tasks
  <2> QED
    BY <2>1, <2>2
<1>5. ASSUME NEW v \in Workers
      PROVE  /\ todo'[v] \cap handed' = {}
             /\ todo'[v] # {} => current'[v] \in Tasks /\ todo'[v] \subseteq children'[current'[v]]
  <2>1. /\ todo[v] \cap handed = {}
        /\ todo[v] # {} => current[v] \in Tasks /\ todo[v] \subseteq children[current[v]]
    BY DEF Family
  <2>2. CASE v = w /\ x \in Tasks
    BY ONLY <1>1, <1>2, <2>2, UNCHANGED <<children, handed>>, w \in Workers
  <2>3. CASE v = w /\ x \notin Tasks
    BY ONLY <1>1, <2>3, w \in Workers
  <2>4. CASE v # w
    BY ONLY <1>1, <2>1, <2>4, UNCHANGED <<children, handed>>, v \in Workers
  <2> QED
    BY ONLY <2>2, <2>3, <2>4
<1>6. \A y, z \in Tasks : y # z => children'[y] \cap children'[z] = {}
  BY ONLY Family, UNCHANGED children DEF Family
<1> QED
  BY ONLY <1>4, <1>5, <1>6 DEF Family

\* The task that a worker ran is over.
LEMMA FamilyOver ==
    ASSUME Types, Family, UNCHANGED <<children, handed>>, NEW w \in Workers,
           done' = done \cup {current[w]}, current' = [current EXCEPT ![w] = Null],
           todo' = [todo EXCEPT ![w] = {}]
    PROVE  Family'
<1>1. \A v \in Workers : /\ current'[v] = IF v = w THEN Null ELSE current[v]
                         /\ todo'[v] = IF v = w THEN {} ELSE todo[v]
  BY DEF Types, RunTypes
<1>2. ASSUME NEW y \in Tasks, children'[y] \cap handed' # {}
      PROVE  y \in done' \/ \E v \in Workers : current'[v] = y
  <2>1. y \in done \/ \E v \in Workers : current[v] = y
    BY <1>2 DEF Family
  <2>2. ASSUME NEW v \in Workers, current[v] = y PROVE y \in done' \/ current'[v] = y
    BY ONLY <1>1, <2>2, done' = done \cup {current[w]}
  <2> QED
    BY <2>1, <2>2
<1>3. ASSUME NEW v \in Workers
      PROVE  /\ todo'[v] \cap handed' = {}
             /\ todo'[v] # {} => current'[v] \in Tasks /\ todo'[v] \subseteq children'[current'[v]]
  <2>1. /\ todo[v] \cap handed = {}
        /\ todo[v] # {} => current[v] \in Tasks /\ todo[v] \subseteq children[current[v]]
    BY DEF Family
  <2> QED
    BY ONLY <1>1, <2>1, UNCHANGED <<children, handed>>, v \in Workers
<1>4. \A y, z \in Tasks : y # z => children'[y] \cap children'[z] = {}
  BY ONLY Family, UNCHANGED children DEF Family
<1> QED
  BY ONLY <1>2, <1>3, <1>4 DEF Family

LEMMA FamilySubmits ==
    ASSUME Types, Placed, Family, NEW t \in Threads, NEW x \in Tasks,
           NEW hint \in {"Next", "UpToYou", "Slow"}, Execute(t, x, hint), UNCHANGED children
    PROVE  Family'
<1>1. /\ handed' = handed \cup {x} /\ UNCHANGED <<current, done>>
      /\ todo' = IF t \in Workers THEN [todo EXCEPT ![t] = todo[t] \ {x}] ELSE todo
      /\ x \in IF t \in Workers THEN todo[t] ELSE Roots \ handed
  BY DEF Execute, MaySubmit, fateVars
<1>2. \A v \in Workers : todo'[v] = IF v = t THEN todo[v] \ {x} ELSE todo[v]
  BY <1>1 DEF Types, RunTypes
<1>3. t \in Workers => current[t] \in Tasks /\ x \in children[current[t]]
  BY <1>1 DEF Family
<1>4. t \notin Workers => \A y \in Tasks : x \notin children[y]
  BY <1>1 DEF Types, GlobalTypes
<1>5. \A y, z \in Tasks : y # z => children[y] \cap children[z] = {}
  BY DEF Family
<1>6. \A y \in Tasks : x \in children[y] => t \in Workers /\ y = current[t]
  BY ONLY <1>3, <1>4, <1>5
<1>7. \A v \in Workers : v # t => x \notin todo[v]
  <2> SUFFICES ASSUME NEW v \in Workers, v # t, x \in todo[v] PROVE FALSE
    OBVIOUS
  <2>1. current[v] \in Tasks /\ x \in children[current[v]]
    BY DEF Family
  <2>2. t \in Workers /\ current[v] = current[t]
    BY ONLY <1>6, <2>1
  <2>3. /\ In(current[v], <<"current", v>>) /\ In(current[v], <<"current", t>>)
        /\ <<"current", v>> \in Boxes /\ <<"current", t>> \in Boxes
    BY ONLY <2>2, v \in Workers, BoxFacts, InFacts
  <2>4. <<"current", v>> = <<"current", t>>
    BY <2>1, <2>3, OneBox
  <2> QED
    BY ONLY <2>4, v # t
<1>8. ASSUME NEW y \in Tasks, children'[y] \cap handed' # {}
      PROVE  y \in done' \/ \E v \in Workers : current'[v] = y
  <2>1. CASE x \in children[y]
    BY ONLY <1>1, <1>6, <2>1, y \in Tasks
  <2>2. CASE x \notin children[y]
    <3>1. children[y] \cap handed # {}
      BY ONLY <1>1, <1>8, <2>2, UNCHANGED children
    <3> QED
      BY <1>1, <3>1 DEF Family
  <2> QED
    BY <2>1, <2>2
<1>9. ASSUME NEW v \in Workers
      PROVE  /\ todo'[v] \cap handed' = {}
             /\ todo'[v] # {} => current'[v] \in Tasks /\ todo'[v] \subseteq children'[current'[v]]
  <2>1. /\ todo[v] \cap handed = {}
        /\ todo[v] # {} => current[v] \in Tasks /\ todo[v] \subseteq children[current[v]]
    BY DEF Family
  <2>2. CASE v = t
    BY ONLY <1>1, <1>2, <2>1, <2>2, UNCHANGED children, v \in Workers
  <2>3. CASE v # t
    BY ONLY <1>1, <1>2, <1>7, <2>1, <2>3, UNCHANGED children, v \in Workers
  <2> QED
    BY ONLY <2>2, <2>3
<1>10. \A y, z \in Tasks : y # z => children'[y] \cap children'[z] = {}
  BY ONLY <1>5, UNCHANGED children
<1> QED
  BY ONLY <1>8, <1>9, <1>10 DEF Family

LEMMA NextFamily ==
    ASSUME Types, Labels, Control, Accounts, [Next]_vars
    PROVE  Family'
<1> USE DEF Accounts, globalVars, lifoVars, submitVars, fateVars, runVars
<1>0. UNCHANGED children /\ (Quiet \/ Moving)
  BY QuietOrMoving DEF Types
<1>1. CASE Quiet
  BY <1>0, <1>1, FamilyRests DEF Quiet
<1>2. ASSUME NEW t \in Threads, NEW x \in Tasks, NEW hint \in {"Next", "UpToYou", "Slow"}, Execute(t, x, hint)
      PROVE  Family'
  BY <1>0, <1>2, FamilySubmits
<1>3. ASSUME NEW t \in Threads, (CheckClosed(t) /\ closed) \/ PushOne(t) PROVE Family'
  BY <1>0, <1>3, FamilyRests DEF CheckClosed, PushOne
<1>4. ASSUME NEW w \in Workers, \/ Refuse(w) \/ PushToLifoSlot(w) \/ PushToLocalQueue(w) \/ OffloadGrab(w)
                                \/ Offload(w) \/ AwakeAfterOffload(w) \/ GrabGlobal(w) \/ Steal(w)
                                \/ DiscardOwn(w)
      PROVE  Family'
  <2>1. UNCHANGED <<todo, current, handed, done>>
    BY <1>4 DEF Refuse, PushToLifoSlot, PushToLocalQueue, OffloadGrab, Offload, AwakeAfterOffload,
                GrabGlobal, Steal, DiscardOwn
  <2> QED
    BY <1>0, <2>1, FamilyRests
<1>5. ASSUME NEW w \in Workers, TakeLifo(w) PROVE Family'
  <2>1. PICK x \in Items : x = lifo[w]
    BY <1>5, ItemFacts DEF Types, SlotTypes, TakeLifo
  <2>2. /\ pc[w] = "lifo" /\ UNCHANGED <<handed, done>> /\ current' = [current EXCEPT ![w] = x]
        /\ todo' = [todo EXCEPT ![w] = IF x \in Tasks THEN children[x] ELSE {}]
    BY <1>5, <2>1 DEF TakeLifo, Pick
  <2>3. PICK k \in Boxes : k = <<"lifo", w>>
    BY BoxFacts
  <2>4. In(x, k) /\ k[1] \in {"lifo", "local", "buffer"}
    BY <2>1, <2>3, InFacts
  <2>5. current[w] = Null
    BY <2>2 DEF Control, InTask
  <2> QED
    BY <1>0, <2>2, <2>4, <2>5, FamilyPicked
<1>6. ASSUME NEW w \in Workers, Pop(w) PROVE Family'
  <2>1. local[w] \in Seq(Items) /\ local[w] # <<>>
    BY <1>6 DEF Types, QueueTypes, Pop
  <2>2. PICK x \in Items : x = Head(local[w]) /\ x \in ToSet(local[w])
    BY <2>1, ItemFacts, OnceHead DEF SeqsOnce
  <2>3. /\ pc[w] = "lifo" /\ UNCHANGED <<handed, done>> /\ current' = [current EXCEPT ![w] = x]
        /\ todo' = [todo EXCEPT ![w] = IF x \in Tasks THEN children[x] ELSE {}]
    BY <1>6, <2>2 DEF Pop, SkipLifo, Pick
  <2>4. PICK k \in Boxes : k = <<"local", w>>
    BY BoxFacts
  <2>5. In(x, k) /\ k[1] \in {"lifo", "local", "buffer"}
    BY <2>2, <2>4, InFacts
  <2>6. current[w] = Null
    BY <2>3 DEF Control, InTask
  <2> QED
    BY <1>0, <2>3, <2>5, <2>6, FamilyPicked
<1>7. ASSUME NEW w \in Workers, Spread(w) PROVE Family'
  <2>0. pc[w] = "spread"
    BY <1>7 DEF Spread
  <2>1. buffer[w] \in Seq(Items) /\ buffer[w] # <<>>
    BY <2>0 DEF Types, QueueTypes, Control
  <2>2. PICK x \in Items : x = Head(buffer[w]) /\ x \in ToSet(buffer[w])
    BY <2>1, ItemFacts, OnceHead DEF SeqsOnce
  <2>3. /\ UNCHANGED <<handed, done>> /\ current' = [current EXCEPT ![w] = x]
        /\ todo' = [todo EXCEPT ![w] = IF x \in Tasks THEN children[x] ELSE {}]
    BY <1>7, <2>2 DEF Spread, Pick
  <2>4. PICK k \in Boxes : k = <<"buffer", w>>
    BY BoxFacts
  <2>5. In(x, k) /\ k[1] \in {"lifo", "local", "buffer"}
    BY <2>2, <2>4, InFacts
  <2>6. current[w] = Null
    BY <2>0 DEF Control, InTask
  <2> QED
    BY <1>0, <2>3, <2>5, <2>6, FamilyPicked
<1>8. ASSUME NEW w \in Workers, RunReturns(w) \/ RunThrows(w) PROVE Family'
  <2>1. /\ UNCHANGED handed /\ done' = done \cup {current[w]}
        /\ current' = [current EXCEPT ![w] = Null] /\ todo' = [todo EXCEPT ![w] = {}]
    BY <1>8 DEF RunReturns, RunThrows, TaskOver
  <2> QED
    BY <1>0, <2>1, FamilyOver
<1>9. ASSUME NEW c \in Clients, DrainGlobal(c) PROVE Family'
  BY <1>0, <1>9, FamilyRests DEF DrainGlobal, ClientOnly
<1> QED
  BY ONLY <1>0, <1>1, <1>2, <1>3, <1>4, <1>5, <1>6, <1>7, <1>8, <1>9 DEF Moving


-----------------------------------------------------------------------------
(* All tasks accounted for *)

LEMMA NextFates ==
    ASSUME Types, Labels, Control, Accounts, [Next]_vars
    PROVE  FateTypes'
<1> USE DEF Accounts, FateTypes, Types
<1>1. CASE Quiet
  BY <1>1 DEF Quiet
<1>2. ASSUME NEW t \in Threads, \/ CheckClosed(t) /\ closed
                                \/ PushOne(t)
                                \/ \E x \in Tasks, hint \in {"Next", "UpToYou", "Slow"} : Execute(t, x, hint)
      PROVE  FateTypes'
  <2>1. CheckClosed(t) => arg[t] \in Items
    BY ItemFacts DEF CheckClosed, Control, Placing
  <2> QED
    BY <1>2, <2>1 DEF CheckClosed, PushOne, Execute, fateVars
<1>3. ASSUME NEW w \in Workers, Refuse(w) PROVE FateTypes'
  <2>1. arg[w] \in Items
    BY <1>3, ItemFacts DEF Refuse, Control, Placing, Threads
  <2> QED
    BY <1>3, <2>1 DEF Refuse
<1>4. ASSUME NEW w \in Workers, \/ PushToLifoSlot(w) \/ PushToLocalQueue(w) \/ OffloadGrab(w) \/ Offload(w)
                                \/ TakeLifo(w) \/ Pop(w) \/ GrabGlobal(w) \/ Spread(w) \/ Steal(w)
                                \/ RunReturns(w) \/ RunThrows(w)
      PROVE  FateTypes'
  <2>1. UNCHANGED <<discarded, dropped>>
    BY <1>4 DEF PushToLifoSlot, PushToLocalQueue, OffloadGrab, Offload, TakeLifo, Pop, GrabGlobal,
                Spread, Steal, RunReturns, RunThrows, TaskOver, fateVars
  <2> QED
    BY <2>1
<1>5. ASSUME NEW w \in Workers, AwakeAfterOffload(w) PROVE FateTypes'
  <2>1. buffer[w] \in Seq(Items)
    BY DEF QueueTypes
  <2>2. ToSet(buffer[w]) \subseteq Items
    BY <2>1, ToSetIsImage
  <2> QED
    BY <1>5, <2>2 DEF AwakeAfterOffload
<1>6. ASSUME NEW w \in Workers, DiscardOwn(w) PROVE FateTypes'
  <2>1. /\ UNCHANGED dropped
        /\ discarded' = discarded \cup ({lifo[w]} \ {Null})
                                  \cup (IF local[w] = <<>> THEN {} ELSE {Head(local[w])})
    BY <1>6 DEF DiscardOwn
  <2>2. /\ lifo[w] # Null => lifo[w] \in Items
        /\ local[w] # <<>> => Head(local[w]) \in Items
    BY ItemFacts DEF SlotTypes, QueueTypes
  <2> QED
    BY ONLY <2>1, <2>2, FateTypes DEF FateTypes
<1>7. ASSUME NEW c \in Clients, DrainGlobal(c), global # <<>> PROVE FateTypes'
  <2>1. ToSet(global) \subseteq Items
    BY ToSetIsImage DEF GlobalTypes
  <2> QED
    BY <1>7, <2>1 DEF DrainGlobal, ClientOnly
<1>8. Quiet \/ Moving
  BY QuietOrMoving
<1> QED
  BY ONLY <1>1, <1>2, <1>3, <1>4, <1>5, <1>6, <1>7, <1>8 DEF Moving

LEMMA InitAccounts == Init => Accounts
<1> SUFFICES ASSUME Init PROVE Accounts
  OBVIOUS
<1> USE DEF Init, GlobalInit, WorkerInit
<1>1. /\ \A t \in Threads : pc[t] \notin Placing /\ arg[t] = Null
      /\ \A w \in Workers : /\ current[w] = Null /\ lifo[w] = Null /\ todo[w] = {}
                            /\ local[w] = <<>> /\ buffer[w] = <<>>
      /\ global = <<>> /\ handed = {} /\ done = {} /\ discarded = {} /\ dropped = {}
  BY DEF Placing
<1>2. Placed
  <2>1. ASSUME NEW x \in Tasks, NEW k \in Boxes PROVE ~ In(x, k)
    <3>1. x # Null
      BY ItemFacts
    <3>2. \A w \in Workers : /\ ~ In(x, <<"current", w>>) /\ ~ In(x, <<"lifo", w>>)
                             /\ ~ In(x, <<"buffer", w>>) /\ ~ In(x, <<"local", w>>)
      BY ONLY <1>1, <3>1, ItemsJoined DEF In
    <3>3. \A t \in Threads : ~ In(x, <<"arg", t>>)
      BY ONLY <1>1, InFacts
    <3>4. /\ ~ In(x, <<"global", 0>>) /\ ~ In(x, <<"done", 0>>)
          /\ ~ In(x, <<"discarded", 0>>) /\ ~ In(x, <<"dropped", 0>>)
      BY ONLY <1>1, ItemsJoined DEF In
    <3> QED
      BY ONLY <3>2, <3>3, <3>4, k \in Boxes, BoxIs
  <2> QED
    BY <1>1, <2>1 DEF Placed
<1>3. SeqsOnce
  BY <1>1, OnceNone DEF SeqsOnce
<1>4. ArgsOnce
  BY <1>1, ItemFacts DEF ArgsOnce
<1>5. Family
  BY <1>1, OneParent DEF Family
<1>6. FateTypes
  BY <1>1 DEF FateTypes
<1> QED
  BY ONLY <1>2, <1>3, <1>4, <1>5, <1>6 DEF Accounts

LEMMA AccountsForever == Spec => []Accounts
<1>1. IInv /\ Accounts /\ [Next]_vars => Accounts'
  BY NextPlaced, NextSeqs, NextArgs, NextFamily, NextFates DEF IInv, Accounts
<1> QED
  BY InitAccounts, <1>1, Inductive, PTL DEF Spec


\* The kind of box that each of Places collects.
Kinds == <<"arg", "global", "current", "lifo", "buffer", "local", "done", "discarded", "dropped">>

LEMMA KindFacts ==
    /\ DOMAIN Kinds = 1 .. 9
    /\ \A i, j \in 1 .. 9 : Kinds[i] = Kinds[j] => i = j
    /\ \A k \in Boxes : \E i \in 1 .. 9 : Kinds[i] = k[1]
<1>1. DOMAIN Kinds = 1 .. 9 /\ \A i, j \in 1 .. 9 : Kinds[i] = Kinds[j] => i = j
  BY DEF Kinds
<1>2. ASSUME NEW k \in Boxes PROVE \E i \in 1 .. 9 : Kinds[i] = k[1]
  <2>1. k[1] \in {"arg", "global", "current", "lifo", "buffer", "local", "done", "discarded", "dropped"}
    BY BoxIs
  <2>2. /\ Kinds[1] = "arg" /\ Kinds[2] = "global" /\ Kinds[3] = "current" /\ Kinds[4] = "lifo"
        /\ Kinds[5] = "buffer" /\ Kinds[6] = "local" /\ Kinds[7] = "done" /\ Kinds[8] = "discarded"
        /\ Kinds[9] = "dropped"
    BY DEF Kinds
  <2>3. 1 \in 1 .. 9 /\ 2 \in 1 .. 9 /\ 3 \in 1 .. 9 /\ 4 \in 1 .. 9 /\ 5 \in 1 .. 9 /\ 6 \in 1 .. 9
        /\ 7 \in 1 .. 9 /\ 8 \in 1 .. 9 /\ 9 \in 1 .. 9
    OBVIOUS
  <2> QED
    BY ONLY <2>1, <2>2, <2>3
<1> QED
  BY <1>1, <1>2

\* What is in one of Places is in a box of its kind.
LEMMA PlaceIs ==
    ASSUME Types, Control, FateTypes
    PROVE  /\ DOMAIN Places = 1 .. 9
           /\ \A i \in 1 .. 9 : Places[i] \subseteq Items
           /\ \A x \in Tasks, i \in 1 .. 9 : x \in Places[i] <=> \E k \in Boxes : k[1] = Kinds[i] /\ In(x, k)
<1> DEFINE Match(S, kind) == /\ S \subseteq Items
                             /\ \A x \in Tasks : x \in S <=> \E k \in Boxes : k[1] = kind /\ In(x, k)
<1>1. Match(Submitting, "arg")
  <2>1. Submitting = {arg[t] : t \in {u \in Threads : pc[u] \in Placing}}
    BY DEF Submitting, Placing
  <2>2. Submitting \subseteq Items
    BY <2>1, ItemFacts DEF Control
  <2>3. \A x : x \in Submitting <=> \E t \in Threads : In(x, <<"arg", t>>)
    BY ONLY <2>1, InFacts
  <2>4. \A k \in Boxes : k[1] = "arg" => k[2] \in Threads /\ k = <<"arg", k[2]>>
    BY BoxIs
  <2>5. \A t \in Threads : <<"arg", t>> \in Boxes /\ <<"arg", t>>[1] = "arg"
    BY BoxFacts
  <2> QED
    BY ONLY <2>2, <2>3, <2>4, <2>5
<1>2. ASSUME NEW kind \in {"current", "lifo", "buffer", "local"}, NEW F,
             F \subseteq Items, \A x \in Tasks : x \in F <=> \E w \in Workers : In(x, <<kind, w>>)
      PROVE  Match(F, kind)
  <2>1. \A k \in Boxes : k[1] = kind => k[2] \in Workers /\ k = <<kind, k[2]>>
    BY <1>2, BoxIs
  <2>2. \A w \in Workers : <<kind, w>> \in Boxes /\ <<kind, w>>[1] = kind
    BY <1>2, BoxFacts
  <2> QED
    BY ONLY <1>2, <2>1, <2>2
<1>3. ASSUME NEW kind \in {"global", "done", "discarded", "dropped"}, NEW F,
             F \subseteq Items, \A x \in Tasks : x \in F <=> In(x, <<kind, 0>>)
      PROVE  Match(F, kind)
  <2>1. \A k \in Boxes : k[1] = kind => k = <<kind, 0>>
    BY <1>3, BoxIs
  <2>2. <<kind, 0>> \in Boxes /\ <<kind, 0>>[1] = kind
    BY <1>3, BoxFacts
  <2> QED
    BY ONLY <1>3, <2>1, <2>2
<1>4. Match({current[w] : w \in Workers} \ {Null}, "current")
  <2> DEFINE F == {current[w] : w \in Workers} \ {Null}
  <2>1. F \subseteq Items
    BY DEF Types, RunTypes
  <2>2. \A x \in Tasks : x \in F <=> \E w \in Workers : In(x, <<"current", w>>)
    BY InFacts, ItemFacts
  <2> HIDE DEF F
  <2>3. Match(F, "current")
    BY <1>2, <2>1, <2>2
  <2> QED
    BY <2>3 DEF F
<1>5. Match({lifo[w] : w \in Workers} \ {Null}, "lifo")
  <2> DEFINE F == {lifo[w] : w \in Workers} \ {Null}
  <2>1. F \subseteq Items
    BY ItemFacts DEF Types, SlotTypes
  <2>2. \A x \in Tasks : x \in F <=> \E w \in Workers : In(x, <<"lifo", w>>)
    BY InFacts, ItemFacts
  <2> HIDE DEF F
  <2>3. Match(F, "lifo")
    BY <1>2, <2>1, <2>2
  <2> QED
    BY <2>3 DEF F
<1>6. Match(UNION {ToSet(buffer[w]) : w \in Workers}, "buffer")
  <2> DEFINE F == UNION {ToSet(buffer[w]) : w \in Workers}
  <2>1. \A w \in Workers : ToSet(buffer[w]) \subseteq Items
    BY ToSetIsImage DEF Types, QueueTypes
  <2>2. F \subseteq Items
    BY ONLY <2>1
  <2>3. \A x \in Tasks : x \in F <=> \E w \in Workers : In(x, <<"buffer", w>>)
    <3>1. \A x : x \in F <=> \E w \in Workers : x \in ToSet(buffer[w])
      OBVIOUS
    <3> HIDE DEF F
    <3> QED
      BY ONLY <3>1, InFacts
  <2> HIDE DEF F
  <2>4. Match(F, "buffer")
    BY <1>2, <2>2, <2>3
  <2> QED
    BY <2>4 DEF F
<1>7. Match(UNION {ToSet(local[w]) : w \in Workers}, "local")
  <2> DEFINE F == UNION {ToSet(local[w]) : w \in Workers}
  <2>1. \A w \in Workers : ToSet(local[w]) \subseteq Items
    BY ToSetIsImage DEF Types, QueueTypes
  <2>2. F \subseteq Items
    BY ONLY <2>1
  <2>3. \A x \in Tasks : x \in F <=> \E w \in Workers : In(x, <<"local", w>>)
    <3>1. \A x : x \in F <=> \E w \in Workers : x \in ToSet(local[w])
      OBVIOUS
    <3> HIDE DEF F
    <3> QED
      BY ONLY <3>1, InFacts
  <2> HIDE DEF F
  <2>4. Match(F, "local")
    BY <1>2, <2>2, <2>3
  <2> QED
    BY <2>4 DEF F
<1>8. Match(ToSet(global), "global")
  <2>1. ToSet(global) \subseteq Items
    BY ToSetIsImage DEF Types, GlobalTypes
  <2>2. \A x \in Tasks : x \in ToSet(global) <=> In(x, <<"global", 0>>)
    BY ONLY InFacts
  <2> QED
    BY <1>3, <2>1, <2>2
<1>9. Match(done, "done") /\ Match(discarded, "discarded") /\ Match(dropped, "dropped")
  <2>1. done \subseteq Items /\ discarded \subseteq Items /\ dropped \subseteq Items
    BY ItemFacts DEF Types, RunTypes, FateTypes
  <2>2. \A x \in Tasks : /\ x \in done <=> In(x, <<"done", 0>>)
                         /\ x \in discarded <=> In(x, <<"discarded", 0>>)
                         /\ x \in dropped <=> In(x, <<"dropped", 0>>)
    BY ONLY InFacts
  <2> QED
    BY <1>3, <2>1, <2>2
<1>10. /\ Kinds[1] = "arg" /\ Kinds[2] = "global" /\ Kinds[3] = "current" /\ Kinds[4] = "lifo"
       /\ Kinds[5] = "buffer" /\ Kinds[6] = "local" /\ Kinds[7] = "done" /\ Kinds[8] = "discarded"
       /\ Kinds[9] = "dropped"
  BY DEF Kinds
<1>11. /\ DOMAIN Places = 1 .. 9 /\ Places[1] = Submitting /\ Places[2] = ToSet(global)
       /\ Places[3] = {current[w] : w \in Workers} \ {Null} /\ Places[4] = {lifo[w] : w \in Workers} \ {Null}
       /\ Places[5] = UNION {ToSet(buffer[w]) : w \in Workers}
       /\ Places[6] = UNION {ToSet(local[w]) : w \in Workers}
       /\ Places[7] = done /\ Places[8] = discarded /\ Places[9] = dropped
  BY DEF Places
<1> HIDE DEF Match
<1>12. ASSUME NEW i \in 1 .. 9 PROVE Match(Places[i], Kinds[i])
  <2>1. i \in {1, 2, 3, 4, 5, 6, 7, 8, 9}
    OBVIOUS
  <2> QED
    BY ONLY ZenonT(60), <1>1, <1>4, <1>5, <1>6, <1>7, <1>8, <1>9, <1>10, <1>11, <2>1
<1> QED
  BY ONLY <1>11, <1>12 DEF Match

LEMMA AccountedFor == ASSUME IInv, Accounts PROVE TasksAreAccounted
<1> USE DEF Accounts
<1>0. Types /\ Control /\ Books
  BY DEF IInv
<1>1. TypeOK
  <2>1. done \subseteq handed
    <3>1. \A x \in done : x \in Tasks
      BY <1>0 DEF Types, RunTypes
    <3>2. \A x \in done : In(x, <<"done", 0>>)
      BY InFacts
    <3> QED
      BY <3>1, <3>2, BoxFacts DEF Placed
  <2>2. /\ active \in Seq(Workers) /\ passive \in Seq(Workers) /\ awake \in Nat
        /\ \A w \in Workers : Len(local[w]) <= Capacity
    BY <1>0 DEF Books, ListTypes, Control
  <2>3. /\ global \in Seq(Items) /\ closed \in BOOLEAN /\ outstanding \in Nat
        /\ permission \in {"Allowed", "TemporaryProhibited", "PermanentlyProhibited"}
        /\ asleep \subseteq Workers /\ woken \subseteq Workers
        /\ stopped \in [Workers -> BOOLEAN]
        /\ local \in [Workers -> Seq(Items)] /\ buffer \in [Workers -> Seq(Items)]
        /\ usage \in [Workers -> 0 .. LifoLimit] /\ cycle \in [Workers -> 0 .. CycleLimit - 1]
        /\ series \in [Workers -> Nat]
        /\ victim \in [Workers -> 0 .. N] /\ limit \in [Workers -> Nat]
        /\ current \in [Workers -> Items \cup {Null}]
        /\ todo \in [Workers -> SUBSET Tasks]
        /\ handed \subseteq Tasks
    BY <1>0 DEF Types, GlobalTypes, SleepTypes, QueueTypes, SlotTypes, StealTypes, RunTypes
  <2>4. lifo \in [Workers -> Items \cup {Null}] /\ arg \in [Threads -> Items \cup {Null}]
    BY <1>0, ItemFacts DEF Types, SlotTypes
  <2> QED
    BY ONLY <2>1, <2>2, <2>3, <2>4 DEF TypeOK
<1>2. PICK places : places = Places
  OBVIOUS
<1>3. /\ DOMAIN places = 1 .. 9
      /\ \A i \in 1 .. 9 : places[i] \subseteq Items
      /\ \A x \in Tasks, i \in 1 .. 9 : x \in places[i] <=> \E k \in Boxes : k[1] = Kinds[i] /\ In(x, k)
  BY <1>0, <1>2, PlaceIs
<1>4. \A x \in Items : x # Garbage => x \in Tasks
  BY DEF Items
<1>5. handed = (UNION {places[i] : i \in 1 .. 9}) \ {Garbage}
  <2>1. ASSUME NEW x \in handed PROVE x # Garbage /\ \E i \in 1 .. 9 : x \in places[i]
    <3>1. x \in Tasks /\ x # Garbage
      BY <1>0, ItemFacts DEF Types, RunTypes
    <3>2. PICK l \in Boxes : In(x, l)
      BY <2>1, <3>1 DEF Placed
    <3>3. PICK i \in 1 .. 9 : Kinds[i] = l[1]
      BY KindFacts
    <3> QED
      BY ONLY <1>3, <3>1, <3>2, <3>3
  <2>2. ASSUME NEW i \in 1 .. 9, NEW x \in places[i], x # Garbage PROVE x \in handed
    <3>1. x \in Tasks
      BY ONLY <1>3, <1>4, <2>2
    <3>2. PICK k \in Boxes : In(x, k)
      BY ONLY <1>3, <2>2, <3>1
    <3> QED
      BY <3>1, <3>2 DEF Placed
  <2>3. \A x : x \in (UNION {places[i] : i \in 1 .. 9}) \ {Garbage} <=>
                 x # Garbage /\ \E i \in 1 .. 9 : x \in places[i]
    OBVIOUS
  <2>4. \A x : x \in handed <=> x # Garbage /\ \E i \in 1 .. 9 : x \in places[i]
    BY ONLY <2>1, <2>2
  <2> QED
    BY ONLY <2>3, <2>4
<1>6. \A i, j \in 1 .. 9 : i < j => places[i] \cap places[j] \subseteq {Garbage}
  <2> SUFFICES ASSUME NEW i \in 1 .. 9, NEW j \in 1 .. 9, i < j, NEW x \in places[i] \cap places[j], x # Garbage
               PROVE  FALSE
    OBVIOUS
  <2>1. x \in Tasks
    BY ONLY <1>3, <1>4, i \in 1 .. 9, x \in places[i] \cap places[j], x # Garbage
  <2>2. PICK k \in Boxes : k[1] = Kinds[i] /\ In(x, k)
    BY ONLY <1>3, <2>1, i \in 1 .. 9, x \in places[i] \cap places[j]
  <2>3. PICK l \in Boxes : l[1] = Kinds[j] /\ In(x, l)
    BY ONLY <1>3, <2>1, j \in 1 .. 9, x \in places[i] \cap places[j]
  <2>4. k = l
    BY <2>1, <2>2, <2>3, OneBox
  <2>5. i = j
    BY ONLY <2>2, <2>3, <2>4, KindFacts, i \in 1 .. 9, j \in 1 .. 9
  <2> QED
    BY ONLY <2>5, i < j, i \in 1 .. 9, j \in 1 .. 9
<1>7. \A t, u \in Threads : t # u /\ arg[t] \in Tasks => arg[t] # arg[u]
  BY DEF ArgsOnce
<1>8. ASSUME NEW w \in Workers, NEW v \in Workers, w # v
      PROVE  /\ ToSet(local[w]) \cap ToSet(local[v]) \subseteq {Garbage}
             /\ ToSet(buffer[w]) \cap ToSet(buffer[v]) \subseteq {Garbage}
             /\ current[w] \in Tasks => current[w] # current[v]
             /\ lifo[w] \in Tasks => lifo[w] # lifo[v]
  <2>1. ASSUME NEW kind \in {"current", "lifo", "buffer", "local"}, NEW x \in Tasks,
               In(x, <<kind, w>>), In(x, <<kind, v>>)
        PROVE  FALSE
    <3>1. <<kind, w>> \in Boxes /\ <<kind, v>> \in Boxes
      BY BoxFacts
    <3>2. <<kind, w>> = <<kind, v>>
      BY <2>1, <3>1, OneBox
    <3> QED
      BY ONLY <1>8, <3>2
  <2>2. ToSet(local[w]) \subseteq Items /\ ToSet(buffer[w]) \subseteq Items
    BY <1>0, ToSetIsImage DEF Types, QueueTypes
  <2>3. \A x \in Tasks : /\ ~ (x \in ToSet(local[w]) /\ x \in ToSet(local[v]))
                         /\ ~ (x \in ToSet(buffer[w]) /\ x \in ToSet(buffer[v]))
                         /\ ~ (current[w] = x /\ current[v] = x)
                         /\ ~ (lifo[w] = x /\ lifo[v] = x)
    BY ONLY <2>1, InFacts
  <2> QED
    BY ONLY <1>4, <2>2, <2>3
<1>9. NotLost
  BY ONLY <1>2, <1>3, <1>5 DEF NotLost
<1>10. NotDuplicated
  <2>1. OnceIn(global) /\ \A w \in Workers : OnceIn(local[w]) /\ OnceIn(buffer[w])
    BY DEF SeqsOnce
  <2> QED
    BY ONLY <1>2, <1>3, <1>6, <1>7, <1>8, <2>1 DEF NotDuplicated
<1> QED
  BY ONLY <1>1, <1>9, <1>10 DEF TasksAreAccounted

\* Whatever workers and clients push, pop, grab, steal, offload and discard at
\* the same time, a task that was handed to Execute is at exactly one place:
\* in a queue, a slot or a buffer, with the thread that submits it or the one
\* that runs it, or among those that were run, discarded or dropped.  It is
\* never lost between two queues, and no two workers ever have it.
THEOREM TasksAlwaysAccounted == Spec => []TasksAreAccounted
  BY Inductive, AccountsForever, AccountedFor, PTL
=============================================================================
