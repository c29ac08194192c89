-------------------------- MODULE FiberSync_proofs --------------------------
(***************************************************************************)
(* What holds of FiberSync for any workers, fibers and programs.           *)
(***************************************************************************)
EXTENDS FiberSync, FiniteSetTheorems, FunctionTheorems, SequenceTheorems, TLAPS

-----------------------------------------------------------------------------
(* What the proofs use of sequences *)

LEMMA ToSetIsImage == ASSUME NEW S, NEW q \in Seq(S)
                      PROVE  ToSet(q) = {q[i] : i \in 1 .. Len(q)} /\ ToSet(q) \subseteq S
  BY DEF ToSet

LEMMA ToSetAppend == ASSUME NEW S, NEW q \in Seq(S), NEW x \in S
                     PROVE  ToSet(Append(q, x)) = ToSet(q) \cup {x}
<1>1. /\ Append(q, x) \in Seq(S) /\ Len(Append(q, x)) = Len(q) + 1 /\ Len(q) \in Nat
      /\ \A i \in 1 .. Len(q) + 1 : Append(q, x)[i] = IF i = Len(q) + 1 THEN x ELSE q[i]
  OBVIOUS
<1>2. ToSet(Append(q, x)) = {Append(q, x)[i] : i \in 1 .. Len(q) + 1}
  BY <1>1, ToSetIsImage
<1>3. ToSet(q) = {q[i] : i \in 1 .. Len(q)}
  BY ToSetIsImage
<1>4. ASSUME NEW y PROVE y \in ToSet(Append(q, x)) <=> y \in ToSet(q) \cup {x}
  <2>1. Len(q) + 1 \in 1 .. Len(q) + 1 /\ \A i \in 1 .. Len(q) : i \in 1 .. Len(q) + 1 /\ i # Len(q) + 1
    BY <1>1
  <2>2. \A i \in 1 .. Len(q) + 1 : i = Len(q) + 1 \/ i \in 1 .. Len(q)
    BY <1>1
  <2> QED
    BY <1>1, <1>2, <1>3, <2>1, <2>2
<1> QED
  BY <1>4

LEMMA InjectiveAppend == ASSUME NEW S, NEW q \in Seq(S), NEW x \in S, IsInjective(q), x \notin ToSet(q)
                         PROVE  IsInjective(Append(q, x))
<1>1. /\ Append(q, x) \in Seq(S) /\ Len(Append(q, x)) = Len(q) + 1 /\ Len(q) \in Nat
      /\ \A i \in 1 .. Len(q) + 1 : Append(q, x)[i] = IF i = Len(q) + 1 THEN x ELSE q[i]
      /\ DOMAIN Append(q, x) = 1 .. Len(q) + 1 /\ DOMAIN q = 1 .. Len(q)
  OBVIOUS
<1>2. \A i \in 1 .. Len(q) + 1 : i = Len(q) + 1 \/ i \in 1 .. Len(q)
  BY <1>1
<1>3. \A i \in 1 .. Len(q) : q[i] # x
  BY ToSetIsImage
<1> QED
  BY <1>1, <1>2, <1>3 DEF IsInjective

LEMMA TailOfInjective == ASSUME NEW S, NEW q \in Seq(S), q # <<>>, IsInjective(q)
                         PROVE  /\ IsInjective(Tail(q)) /\ ToSet(Tail(q)) = ToSet(q) \ {Head(q)}
                                /\ Head(q) \in ToSet(q)
<1>1. /\ Tail(q) \in Seq(S) /\ Len(Tail(q)) = Len(q) - 1 /\ Len(q) \in Nat \ {0}
      /\ DOMAIN Tail(q) = 1 .. Len(q) - 1 /\ DOMAIN q = 1 .. Len(q)
      /\ \A i \in 1 .. Len(q) - 1 : Tail(q)[i] = q[i + 1]
      /\ Head(q) = q[1]
  OBVIOUS
<1>2. /\ \A i \in 1 .. Len(q) - 1 : i + 1 \in 1 .. Len(q) /\ i + 1 # 1
      /\ \A i \in 1 .. Len(q) : i # 1 => i - 1 \in 1 .. Len(q) - 1 /\ (i - 1) + 1 = i
      /\ 1 \in 1 .. Len(q)
      /\ \A i, j \in 1 .. Len(q) - 1 : i + 1 = j + 1 => i = j
  BY <1>1
<1>3. \A i, j \in 1 .. Len(q) : q[i] = q[j] => i = j
  BY <1>1 DEF IsInjective
<1>4. IsInjective(Tail(q))
  BY <1>1, <1>2, <1>3 DEF IsInjective
<1>5. ToSet(Tail(q)) = {Tail(q)[i] : i \in 1 .. Len(q) - 1}
  BY <1>1, ToSetIsImage
<1>6. ToSet(q) = {q[i] : i \in 1 .. Len(q)}
  BY ToSetIsImage
<1>7. ASSUME NEW y PROVE y \in ToSet(Tail(q)) <=> y \in ToSet(q) \ {Head(q)}
  <2>1. ASSUME y \in ToSet(Tail(q)) PROVE y \in ToSet(q) \ {Head(q)}
    BY <2>1, <1>1, <1>2, <1>3, <1>5, <1>6
  <2>2. ASSUME y \in ToSet(q) \ {Head(q)} PROVE y \in ToSet(Tail(q))
    <3>1. PICK i \in 1 .. Len(q) : y = q[i] /\ i # 1
      BY <2>2, <1>1, <1>6
    <3>2. y = Tail(q)[i - 1] /\ i - 1 \in 1 .. Len(q) - 1
      BY <3>1, <1>1, <1>2
    <3> QED
      BY <3>2, <1>5
  <2> QED
    BY <2>1, <2>2
<1>8. Head(q) \in ToSet(q)
  BY <1>1, <1>2, <1>6
<1> QED
  BY <1>4, <1>7, <1>8

LEMMA SizeOfInjective == ASSUME NEW S, NEW q \in Seq(S), IsInjective(q)
                         PROVE  IsFiniteSet(ToSet(q)) /\ Cardinality(ToSet(q)) = Len(q)
<1>1. Len(q) \in Nat /\ DOMAIN q = 1 .. Len(q) /\ q \in [1 .. Len(q) -> ToSet(q)]
  BY ToSetIsImage
<1>2. q \in Bijection(1 .. Len(q), ToSet(q))
  BY <1>1, ToSetIsImage, Fun_IsBij DEF IsInjective
<1>3. ExistsBijection(1 .. Len(q), ToSet(q))
  BY <1>2, Fun_ExistsBij
<1> QED
  BY <1>1, <1>3, FS_NatBijection, FS_CountingElements

LEMMA ConcatFacts ==
    ASSUME NEW S, NEW q \in Seq(S), NEW r \in Seq(S)
    PROVE  /\ q \o r \in Seq(S) /\ Len(q \o r) = Len(q) + Len(r)
           /\ \A i \in 1 .. Len(q) + Len(r) :
                 (q \o r)[i] = IF i <= Len(q) THEN q[i] ELSE r[i - Len(q)]
  OBVIOUS

LEMMA ToSetConcat == ASSUME NEW S, NEW q \in Seq(S), NEW r \in Seq(S)
                     PROVE  ToSet(q \o r) = ToSet(q) \cup ToSet(r)
<1>1. /\ q \o r \in Seq(S) /\ Len(q \o r) = Len(q) + Len(r) /\ Len(q) \in Nat /\ Len(r) \in Nat
      /\ \A i \in 1 .. Len(q) + Len(r) : (q \o r)[i] = IF i <= Len(q) THEN q[i] ELSE r[i - Len(q)]
  BY ConcatFacts
<1>2. /\ ToSet(q \o r) = {(q \o r)[i] : i \in 1 .. Len(q) + Len(r)}
      /\ ToSet(q) = {q[i] : i \in 1 .. Len(q)} /\ ToSet(r) = {r[i] : i \in 1 .. Len(r)}
  BY <1>1, ToSetIsImage
<1>3. ASSUME NEW x \in ToSet(q \o r) PROVE x \in ToSet(q) \cup ToSet(r)
  <2>1. PICK i \in 1 .. Len(q) + Len(r) : x = (q \o r)[i]
    BY <1>2, <1>3
  <2>2. CASE i <= Len(q)
    BY <1>1, <1>2, <2>1, <2>2
  <2>3. CASE ~ i <= Len(q)
    <3>1. i - Len(q) \in 1 .. Len(r) /\ x = r[i - Len(q)]
      BY <1>1, <2>1, <2>3
    <3> QED
      BY <1>2, <3>1
  <2> QED
    BY <2>2, <2>3
<1>4. ASSUME NEW x \in ToSet(q) PROVE x \in ToSet(q \o r)
  <2>1. PICK i \in 1 .. Len(q) : x = q[i]
    BY <1>2, <1>4
  <2>2. i \in 1 .. Len(q) + Len(r) /\ x = (q \o r)[i]
    BY <1>1, <2>1
  <2> QED
    BY <1>2, <2>2
<1>5. ASSUME NEW x \in ToSet(r) PROVE x \in ToSet(q \o r)
  <2>1. PICK i \in 1 .. Len(r) : x = r[i]
    BY <1>2, <1>5
  <2>2. i + Len(q) \in 1 .. Len(q) + Len(r) /\ x = (q \o r)[i + Len(q)]
    BY <1>1, <2>1
  <2> QED
    BY <1>2, <2>2
<1> QED
  BY <1>3, <1>4, <1>5

LEMMA LastOfInjective ==
    ASSUME NEW S, NEW q \in Seq(S), q # <<>>, IsInjective(q)
    PROVE  /\ Front(q) \in Seq(S) /\ IsInjective(Front(q)) /\ Len(Front(q)) = Len(q) - 1
           /\ Last(q) \in ToSet(q) /\ ToSet(Front(q)) = ToSet(q) \ {Last(q)}
<1>1. Len(q) \in Nat \ {0} /\ DOMAIN q = 1 .. Len(q) /\ Last(q) = q[Len(q)]
  BY DEF Last
<1>2. /\ Front(q) \in Seq(S) /\ Len(Front(q)) = Len(q) - 1 /\ DOMAIN Front(q) = 1 .. Len(q) - 1
      /\ \A i \in 1 .. Len(q) - 1 : Front(q)[i] = q[i] /\ i \in 1 .. Len(q) /\ i # Len(q)
  <2>0. PICK n \in Nat \ {0} : n = Len(q)
    BY <1>1
  <2>1. /\ \A i \in 1 .. n - 1 : i \in 1 .. n /\ i # n /\ q[i] \in S
        /\ n - 1 \in Int /\ 1 \in Int
    BY <2>0
  <2>3. Front(q) = SubSeq(q, 1, n - 1)
    BY <2>0 DEF Front
  <2>4. /\ SubSeq(q, 1, n - 1) \in Seq(S) /\ Len(SubSeq(q, 1, n - 1)) = IF 1 <= n - 1 THEN (n - 1) - 1 + 1 ELSE 0
        /\ \A i \in 1 .. (n - 1) - 1 + 1 : SubSeq(q, 1, n - 1)[i] = q[1 + i - 1]
    BY ONLY <2>1, SubSeqProperties
  <2>5. /\ Front(q) \in Seq(S) /\ Len(Front(q)) = n - 1
        /\ \A i \in 1 .. n - 1 : Front(q)[i] = q[i]
    <3>1. (IF 1 <= n - 1 THEN (n - 1) - 1 + 1 ELSE 0) = n - 1 /\ (n - 1) - 1 + 1 = n - 1
      BY <2>0
    <3>2. \A i \in 1 .. n - 1 : 1 + i - 1 = i
      OBVIOUS
    <3> QED
      BY ONLY <2>3, <2>4, <3>1, <3>2
  <2>6. DOMAIN Front(q) = 1 .. n - 1
    BY <2>5
  <2> QED
    BY ONLY <2>0, <2>1, <2>5, <2>6
<1>3. \A i, j \in 1 .. Len(q) : q[i] = q[j] => i = j
  BY <1>1 DEF IsInjective
<1>4. IsInjective(Front(q))
  BY <1>2, <1>3 DEF IsInjective
<1>5. /\ ToSet(q) = {q[i] : i \in 1 .. Len(q)}
      /\ ToSet(Front(q)) = {Front(q)[i] : i \in 1 .. Len(q) - 1}
  <2>1. ToSet(q) = {q[i] : i \in 1 .. Len(q)}
    BY ONLY ToSetIsImage, q \in Seq(S)
  <2>2. ToSet(Front(q)) = {Front(q)[i] : i \in 1 .. Len(Front(q))}
    BY ONLY <1>2, ToSetIsImage
  <2> QED
    BY ONLY <1>2, <2>1, <2>2
<1>6. Last(q) \in ToSet(q)
  BY <1>1, <1>5
<1>7. ASSUME NEW y PROVE y \in ToSet(Front(q)) <=> y \in ToSet(q) \ {Last(q)}
  <2>0. PICK n \in Nat : n = Len(q)
    BY <1>1
  <2>1. \A i \in 1 .. n : i \in 1 .. n - 1 \/ i = n
    BY <2>0
  <2>2. ASSUME y \in ToSet(q), y # Last(q) PROVE y \in ToSet(Front(q))
    <3>1. PICK i \in 1 .. n : y = q[i]
      BY <2>0, <2>2, <1>5
    <3>2. i \in 1 .. n - 1
      BY <3>1, <2>0, <2>1, <2>2, <1>1
    <3> QED
      BY <3>1, <3>2, <2>0, <1>2, <1>5
  <2>3. ASSUME y \in ToSet(Front(q)) PROVE y \in ToSet(q) /\ y # Last(q)
    <3>1. PICK i \in 1 .. n - 1 : y = Front(q)[i]
      BY <2>0, <2>3, <1>5
    <3>2. y = q[i] /\ i \in 1 .. n /\ i # n /\ n \in 1 .. n
      BY <3>1, <2>0, <1>1, <1>2
    <3> QED
      BY <3>2, <2>0, <1>1, <1>3, <1>5
  <2> QED
    BY ONLY SMTT(60), <2>2, <2>3
<1> QED
  BY <1>2, <1>4, <1>6, <1>7

LEMMA ConcatInjective ==
    ASSUME NEW S, NEW q \in Seq(S), NEW r \in Seq(S), IsInjective(q), IsInjective(r),
           ToSet(q) \cap ToSet(r) = {}
    PROVE  IsInjective(q \o r)
<1>1. /\ q \o r \in Seq(S) /\ Len(q \o r) = Len(q) + Len(r) /\ Len(q) \in Nat /\ Len(r) \in Nat
      /\ DOMAIN (q \o r) = 1 .. Len(q) + Len(r)
      /\ \A i \in 1 .. Len(q) + Len(r) : (q \o r)[i] = IF i <= Len(q) THEN q[i] ELSE r[i - Len(q)]
  BY ConcatFacts
<1>2. /\ ToSet(q) = {q[i] : i \in 1 .. Len(q)} /\ ToSet(r) = {r[i] : i \in 1 .. Len(r)}
  BY ToSetIsImage
<1>3. /\ \A i, j \in 1 .. Len(q) : q[i] = q[j] => i = j
      /\ \A i, j \in 1 .. Len(r) : r[i] = r[j] => i = j
  BY DEF IsInjective
<1>4. SUFFICES ASSUME NEW i \in 1 .. Len(q) + Len(r), NEW j \in 1 .. Len(q) + Len(r), (q \o r)[i] = (q \o r)[j]
               PROVE  i = j
  BY ONLY <1>1, <1>4 DEF IsInjective
<1>5. /\ i <= Len(q) => i \in 1 .. Len(q) /\ (q \o r)[i] = q[i] /\ q[i] \in ToSet(q)
      /\ j <= Len(q) => j \in 1 .. Len(q) /\ (q \o r)[j] = q[j] /\ q[j] \in ToSet(q)
  BY <1>1, <1>2
<1>6. /\ ~ i <= Len(q) => i - Len(q) \in 1 .. Len(r) /\ (q \o r)[i] = r[i - Len(q)] /\ r[i - Len(q)] \in ToSet(r)
      /\ ~ j <= Len(q) => j - Len(q) \in 1 .. Len(r) /\ (q \o r)[j] = r[j - Len(q)] /\ r[j - Len(q)] \in ToSet(r)
  BY ONLY <1>1, <1>2, i \in 1 .. Len(q) + Len(r), j \in 1 .. Len(q) + Len(r)
<1>7. i - Len(q) = j - Len(q) => i = j
  BY <1>1
<1> QED
  BY <1>3, <1>4, <1>5, <1>6, <1>7

\* The operations of a fiber once its first one has left others in its place.
LEMMA Replaced ==
    ASSUME NEW S, NEW s \in Seq(S), s # <<>>, NEW ops \in Seq(S)
    PROVE  /\ ops \o Tail(s) \in Seq(S)
           /\ Len(ops) \in Nat /\ Len(s) \in Nat \ {0} /\ 1 \in 1 .. Len(s) /\ Head(s) = s[1] /\ Head(s) \in S
           /\ Len(ops \o Tail(s)) = Len(ops) + Len(s) - 1
           /\ \A i \in 1 .. Len(ops) : (ops \o Tail(s))[i] = ops[i]
           /\ \A i \in 1 .. Len(s) - 1 : (ops \o Tail(s))[Len(ops) + i] = s[i + 1]
           /\ \A i \in 1 .. Len(ops \o Tail(s)) :
                 i \in 1 .. Len(ops) \/ (i - Len(ops) \in 1 .. Len(s) - 1 /\ i = Len(ops) + (i - Len(ops)))
           /\ ops \o Tail(s) # <<>> => Head(ops \o Tail(s)) = (ops \o Tail(s))[1]
<1>1. /\ Tail(s) \in Seq(S) /\ Len(ops) \in Nat /\ Len(s) \in Nat \ {0} /\ Len(Tail(s)) = Len(s) - 1
      /\ Head(s) = s[1] /\ 1 \in 1 .. Len(s) /\ Head(s) \in S
      /\ \A i \in 1 .. Len(s) - 1 : Tail(s)[i] = s[i + 1]
  OBVIOUS
<1>2. /\ ops \o Tail(s) \in Seq(S) /\ Len(ops \o Tail(s)) = Len(ops) + Len(Tail(s))
      /\ \A i \in 1 .. Len(ops) + Len(Tail(s)) :
            (ops \o Tail(s))[i] = IF i <= Len(ops) THEN ops[i] ELSE Tail(s)[i - Len(ops)]
  BY <1>1, ConcatFacts
<1>3. \A i \in 1 .. Len(s) - 1 : (ops \o Tail(s))[Len(ops) + i] = s[i + 1]
  BY <1>1, <1>2
<1>4. \A i \in 1 .. Len(ops) : (ops \o Tail(s))[i] = ops[i]
  BY <1>1, <1>2
<1>5. \A i \in 1 .. Len(ops \o Tail(s)) :
         i \in 1 .. Len(ops) \/ (i - Len(ops) \in 1 .. Len(s) - 1 /\ i = Len(ops) + (i - Len(ops)))
  BY <1>1, <1>2
<1>6. ops \o Tail(s) # <<>> => Head(ops \o Tail(s)) = (ops \o Tail(s))[1]
  BY <1>2
<1> QED
  BY ONLY <1>1, <1>2, <1>3, <1>4, <1>5, <1>6

\* What the tuples that stand for operations have in each place.
LEMMA Literals ==
    \A a, b, c, d : /\ <<a>>[1] = a
                    /\ <<a, b>>[1] = a /\ <<a, b>>[2] = b
                    /\ <<a, b, c>>[1] = a /\ <<a, b, c>>[2] = b /\ <<a, b, c>>[3] = c
                    /\ <<a, b, c, d>>[1] = a /\ <<a, b, c, d>>[2] = b
                    /\ <<a, b, c, d>>[3] = c /\ <<a, b, c, d>>[4] = d
  OBVIOUS

LEMMA NothingBefore == \A o : <<>> \o <<o>> = <<o>>
<1>1. ASSUME NEW o PROVE <<o>> \in Seq({o})
  OBVIOUS
<1>2. \A S : \A s \in Seq(S) : <<>> \o s = s
  OBVIOUS
<1> QED
  BY ONLY <1>1, <1>2

LEMMA OneBeforeOne == \A o, p : <<o>> \o <<p>> = <<o, p>>
<1>1. ASSUME NEW o, NEW p PROVE <<o>> \o <<p>> = <<o, p>>
  <2> DEFINE r == <<o>> \o <<p>>
  <2>1. <<o>> \in Seq({o, p}) /\ <<p>> \in Seq({o, p}) /\ Len(<<o>>) = 1 /\ Len(<<p>>) = 1
        /\ <<o>>[1] = o /\ <<p>>[1] = p
    OBVIOUS
  <2>2. r \in Seq({o, p}) /\ Len(r) = 2 /\ r[1] = o /\ r[2] = p
    BY <2>1, ConcatFacts
  <2>3. \A S : \A s \in Seq(S) : Len(s) = 2 => s = <<s[1], s[2]>>
    OBVIOUS
  <2> QED
    BY ONLY <2>2, <2>3
<1> QED
  BY <1>1

-----------------------------------------------------------------------------
(* The inductive invariant *)

\* What calls of the library leave to do.
Parts ==
    {<<"clear">>, <<"leave">>, <<"store">>, <<"subTasks">>, <<"settle">>}
    \cup ({"loadTasks", "addTasks"} \X Nat)
    \cup ({"park"} \X Futexes \X (BOOLEAN \cup Nat)) \cup ({"unpark", "release"} \X Futexes)
    \cup ({"wake"} \X Futexes \X BOOLEAN) \cup ({"awake"} \X Futexes \X BOOLEAN \X Fibers)

Operations == Calls \cup Parts

\* The types of what fibers are moved by.
CoreTypes ==
    /\ closed \in BOOLEAN
    /\ ready \in Seq(Fibers)
    /\ current \in [Workers -> Fibers \cup {Null}]
    /\ at \in [Workers -> {"idle", "fiber", "resumed", "thrown", "schedule", "unlock"}]
    /\ awaiter \in [Fibers -> {"none", "yield"} \cup Futexes]
    /\ allocated \in Nat
    /\ stack \in [Fibers -> 0 .. allocated] /\ freed \in Seq(1 .. allocated)
    /\ queue \in [Futexes -> Seq(Fibers)]
    /\ todo \in [Fibers -> Seq(Operations)]

SyncTypes ==
    /\ stops \in BOOLEAN
    /\ spin \in [Futexes -> Workers \cup {Null}]
    /\ old \in [Fibers -> BOOLEAN \cup Nat \cup {Null}]
    /\ access \in BOOLEAN /\ isDone \in BOOLEAN
    /\ val \in Nat /\ tokens \in Nat
    /\ tasks \in Int /\ using \in Int /\ owed \in Int
    /\ joined \subseteq Fibers

\* The parts of a call are where the call left them: whoever parks on the mutex
\* tries again, and who ends the wait of the group wakes all its waiters.
ShapedAt(s, i) ==
    /\ s[i][1] \in {"unpark", "awake"} => i = 1
    /\ s[i][1] \in {"park", "unpark"} /\ s[i][2] = "mutex" => i + 1 \in 1 .. Len(s) /\ s[i + 1][1] = "lock"
    /\ s[i][1] = "store" => i + 1 \in 1 .. Len(s) /\ s[i + 1] = <<"wake", "group", TRUE>>
    /\ s[i][1] = "park" /\ s[i][2] = "mutex" => s[i][3] = TRUE
    /\ s[i][1] = "park" /\ s[i][2] = "group" => s[i][3] = FALSE
    /\ s[i][1] \in {"wake", "awake"} /\ s[i][2] = "group" => s[i][3] = TRUE

WellShaped(s) == \A i \in 1 .. Len(s) : ShapedAt(s, i)

Shapes == \A f \in Fibers : WellShaped(todo[f])

\* f is in a place of this kind.
Here(kind, x, f) ==
    \/ kind = "ready" /\ x = Null /\ f \in ToSet(ready)
    \/ kind = "worker" /\ x \in Workers /\ current[x] = f /\ at[x] # "unlock"
    \/ kind = "queue" /\ x \in Futexes /\ f \in ToSet(queue[x])
    \/ kind = "waker" /\ x \in Fibers /\ todo[x] # <<>> /\ Head(todo[x])[1] = "awake" /\ Head(todo[x])[4] = f

Placed == \A f \in Fibers :
    /\ \A k, l, x, y : Here(k, x, f) /\ Here(l, y, f) => k = l /\ x = y
    /\ stack[f] # 0 <=> \E k, x : Here(k, x, f)

QueuesOnce == IsInjective(ready) /\ \A x \in Futexes : IsInjective(queue[x])

\* What a worker knows of the fiber in whose Run it is.
BusyAt(w) ==
    /\ at[w] = "idle" <=> current[w] = Null
    /\ at[w] = "fiber" => awaiter[current[w]] = "none"
    /\ at[w] = "resumed" /\ awaiter[current[w]] = "none" => todo[current[w]] = <<>>
    /\ at[w] = "resumed" /\ awaiter[current[w]] \in Futexes => At(current[w], "unpark", awaiter[current[w]])
    /\ at[w] = "thrown" => todo[current[w]] = <<>>

Busy == \A w \in Workers : BusyAt(w)

\* A fiber that waits, or is just being woken, has parked, for this old value.
Waiters == \A f \in Fibers :
    /\ \A x \in Futexes : f \in ToSet(queue[x]) => At(f, "unpark", x)
    /\ \A g \in Fibers : Here("waker", g, f) => At(f, "unpark", Head(todo[g])[2])
    /\ At(f, "unpark", "mutex") => old[f] = TRUE
    /\ At(f, "unpark", "group") => old[f] = FALSE

\* Each call of Go starts another fiber, which is not there yet.
GoAt(f, i, h, j) ==
    todo[f][i][1] = "go" => /\ stack[todo[f][i][2]] = 0
                            /\ todo[h][j] = todo[f][i] => f = h /\ i = j

GoOnce == \A f, h \in Fibers : \A i \in 1 .. Len(todo[f]), j \in 1 .. Len(todo[h]) : GoAt(f, i, h, j)

\* Whoever is inside holds the mutex.
Locking == /\ \A f \in Fibers : WellLocked(todo[f]) /\ (Inside(f) => access = TRUE)
           /\ MutualExclusion

Core == CoreTypes /\ Shapes /\ Placed /\ QueuesOnce /\ StacksHaveOneOwner /\ Busy /\ Waiters /\ GoOnce

IInv == SyncTypes /\ Core /\ Locking /\ NoFiberForgotten

-----------------------------------------------------------------------------
(* Operations *)

\* What the arguments of an operation are.
LEMMA OperationsAre ==
    ASSUME NEW o \in Operations
    PROVE  /\ o[1] = "go" => o[2] \in Fibers /\ o = <<"go", o[2]>>
           /\ o[1] = "notify" => o[2] \in BOOLEAN
           /\ o[1] \in {"add", "loadTasks", "addTasks"} => o[2] \in Nat
           /\ o[1] \in {"park", "unpark", "release", "wake", "awake"} => o[2] \in Futexes
           /\ o[1] = "park" => o[3] \in BOOLEAN \cup Nat
           /\ o[1] \in {"wake", "awake"} => o[3] \in BOOLEAN
           /\ o[1] = "awake" => o[4] \in Fibers
<1>1. CASE o \in Calls
  <2>1. CASE o \in {<<"lock">>, <<"unlock">>, <<"take">>, <<"give">>, <<"work">>, <<"done">>, <<"join">>}
    BY <2>1
  <2>2. CASE o \in {<<"yield">>, <<"throw">>}
    BY <2>2
  <2>3. CASE o \in {"notify"} \X BOOLEAN
    BY <2>3
  <2>4. CASE o \in {"add"} \X Nat
    BY <2>4
  <2>5. CASE o \in {"go"} \X Fibers
    BY <2>5
  <2> QED
    BY <1>1, <2>1, <2>2, <2>3, <2>4, <2>5 DEF Calls
<1>2. CASE o \in Parts
  <2>1. CASE o \in {<<"clear">>, <<"leave">>, <<"store">>, <<"subTasks">>, <<"settle">>}
    BY <2>1
  <2>2. CASE o \in {"loadTasks", "addTasks"} \X Nat
    BY <2>2
  <2>3. CASE o \in {"park"} \X Futexes \X (BOOLEAN \cup Nat)
    BY <2>3
  <2>4. CASE o \in {"unpark", "release"} \X Futexes
    BY <2>4
  <2>5. CASE o \in {"wake"} \X Futexes \X BOOLEAN
    BY <2>5
  <2>6. CASE o \in {"awake"} \X Futexes \X BOOLEAN \X Fibers
    BY <2>6
  <2> QED
    BY <1>2, <2>1, <2>2, <2>3, <2>4, <2>5, <2>6 DEF Parts
<1> QED
  BY <1>1, <1>2 DEF Operations

\* Operations that a call may leave in its place.
Plain(ops) ==
    /\ ops \in Seq(Operations) /\ WellShaped(ops)
    /\ \A i \in 1 .. Len(ops) : ops[i][1] \notin {"go", "awake", "unpark"}

LEMMA FutexesAre == {"mutex", "cond", "group"} \subseteq Futexes
  BY FiberAssumption DEF FiberAssumption

LEMMA PlainNothing == Plain(<<>>)
  BY DEF Plain, WellShaped, ShapedAt

LEMMA PlainOne ==
    ASSUME NEW o \in Operations,
           o[1] \notin {"go", "awake", "unpark", "park", "store"},
           o[1] = "wake" /\ o[2] = "group" => o[3] = TRUE
    PROVE  Plain(<<o>>)
<1>1. <<o>> \in Seq(Operations) /\ Len(<<o>>) = 1 /\ \A i \in 1 .. 1 : i = 1 /\ <<o>>[i] = o
  OBVIOUS
<1> QED
  BY <1>1 DEF Plain, WellShaped, ShapedAt

LEMMA PlainOnes ==
    /\ \A n \in Nat : Plain(<<<<"addTasks", n>>>>)
    /\ \A b \in BOOLEAN : Plain(<<<<"wake", "cond", b>>>>)
    /\ Plain(<<<<"wake", "mutex", FALSE>>>>) /\ Plain(<<<<"settle">>>>) /\ Plain(<<<<"subTasks">>>>)
    /\ \A x \in Futexes : Plain(<<<<"release", x>>>>)
<1>1. \A n \in Nat : Plain(<<<<"addTasks", n>>>>)
  BY PlainOne DEF Operations, Parts
<1>2. \A b \in BOOLEAN : Plain(<<<<"wake", "cond", b>>>>)
  BY PlainOne, FutexesAre DEF Operations, Parts
<1>3. Plain(<<<<"wake", "mutex", FALSE>>>>)
  BY PlainOne, FutexesAre DEF Operations, Parts
<1>4. Plain(<<<<"settle">>>>) /\ Plain(<<<<"subTasks">>>>)
  BY PlainOne DEF Operations, Parts
<1>5. \A x \in Futexes : Plain(<<<<"release", x>>>>)
  BY PlainOne DEF Operations, Parts
<1> QED
  BY <1>1, <1>2, <1>3, <1>4, <1>5

LEMMA PlainTwo ==
    ASSUME NEW o \in Operations, NEW p \in Operations,
           o[1] \notin {"go", "awake", "unpark"}, p[1] \notin {"go", "awake", "unpark", "park", "store"},
           o[1] = "park" /\ o[2] = "mutex" => p[1] = "lock" /\ o[3] = TRUE,
           o[1] = "park" /\ o[2] = "group" => o[3] = FALSE,
           o[1] = "store" => p = <<"wake", "group", TRUE>>,
           o[1] = "wake" /\ o[2] = "group" => o[3] = TRUE,
           p[1] = "wake" /\ p[2] = "group" => p[3] = TRUE
    PROVE  Plain(<<o, p>>)
<1>1. /\ <<o, p>> \in Seq(Operations) /\ Len(<<o, p>>) = 2
      /\ <<o, p>>[1] = o /\ <<o, p>>[2] = p
      /\ \A i \in 1 .. 2 : i = 1 \/ i = 2
      /\ 1 + 1 = 2 /\ 2 \in 1 .. 2
  OBVIOUS
<1> DEFINE q == <<o, p>>
<1> HIDE DEF q
<1>2. q \in Seq(Operations) /\ Len(q) = 2 /\ q[1] = o /\ q[2] = p
  BY <1>1 DEF q
<1>3. Plain(q)
  <2>1. ShapedAt(q, 1)
    BY <1>1, <1>2 DEF ShapedAt
  <2>2. ShapedAt(q, 2)
    BY <1>1, <1>2 DEF ShapedAt
  <2>3. WellShaped(q)
    BY ONLY <1>1, <1>2, <2>1, <2>2 DEF WellShaped
  <2> QED
    BY <1>1, <1>2, <2>3 DEF Plain
<1> QED
  BY <1>3 DEF q

LEMMA PlainTwos ==
    /\ Plain(<<<<"park", "mutex", TRUE>>, <<"lock">>>>)
    /\ \A n \in Nat : Plain(<<<<"loadTasks", n>>, <<"leave">>>>)
    /\ \A n \in Nat : Plain(<<<<"clear">>, <<"addTasks", n>>>>)
    /\ Plain(<<<<"subTasks">>, <<"leave">>>>)
    /\ Plain(<<<<"store">>, <<"wake", "group", TRUE>>>>)
    /\ Plain(<<<<"park", "group", FALSE>>, <<"join">>>>)
<1>0. /\ <<"lock">> \in Operations /\ <<"leave">> \in Operations /\ <<"clear">> \in Operations
      /\ <<"subTasks">> \in Operations /\ <<"store">> \in Operations /\ <<"join">> \in Operations
      /\ \A n \in Nat : <<"loadTasks", n>> \in Operations /\ <<"addTasks", n>> \in Operations
  BY DEF Operations, Calls, Parts
<1>1. /\ <<"park", "mutex", TRUE>> \in Operations /\ <<"park", "group", FALSE>> \in Operations
      /\ <<"wake", "group", TRUE>> \in Operations
  BY FutexesAre DEF Operations, Parts
<1>2. Plain(<<<<"park", "mutex", TRUE>>, <<"lock">>>>)
  BY <1>0, <1>1, PlainTwo
<1>3. \A n \in Nat : Plain(<<<<"loadTasks", n>>, <<"leave">>>>)
  BY <1>0, <1>1, PlainTwo
<1>4. \A n \in Nat : Plain(<<<<"clear">>, <<"addTasks", n>>>>)
  BY <1>0, <1>1, PlainTwo
<1>5. Plain(<<<<"subTasks">>, <<"leave">>>>)
  BY <1>0, <1>1, PlainTwo
<1>6. Plain(<<<<"store">>, <<"wake", "group", TRUE>>>>)
  BY <1>0, <1>1, PlainTwo
<1>7. Plain(<<<<"park", "group", FALSE>>, <<"join">>>>)
  BY <1>0, <1>1, PlainTwo
<1> QED
  BY <1>2, <1>3, <1>4, <1>5, <1>6, <1>7

LEMMA PlainWait ==
    ASSUME NEW v \in Nat
    PROVE  Plain(<<<<"unlock">>, <<"park", "cond", v>>, <<"lock">>, <<"take">>>>)
<1> DEFINE q == <<<<"unlock">>, <<"park", "cond", v>>, <<"lock">>, <<"take">>>>
<1>1. /\ <<"unlock">> \in Operations /\ <<"lock">> \in Operations /\ <<"take">> \in Operations
      /\ <<"park", "cond", v>> \in Operations
  BY FutexesAre DEF Operations, Calls, Parts
<1>2. /\ q \in Seq(Operations) /\ Len(q) = 4
      /\ q[1][1] = "unlock" /\ q[2][1] = "park" /\ q[2][2] = "cond" /\ q[3][1] = "lock" /\ q[4][1] = "take"
  BY <1>1
<1>3. \A i \in 1 .. 4 : i = 1 \/ i = 2 \/ i = 3 \/ i = 4
  OBVIOUS
<1> HIDE DEF q
<1>4. ASSUME NEW i \in 1 .. 4 PROVE ShapedAt(q, i) /\ q[i][1] \notin {"go", "awake", "unpark"}
  <2>1. CASE i = 1
    BY ONLY <1>2, <2>1 DEF ShapedAt
  <2>2. CASE i = 2
    BY ONLY <1>2, <2>2 DEF ShapedAt
  <2>3. CASE i = 3
    BY ONLY <1>2, <2>3 DEF ShapedAt
  <2>4. CASE i = 4
    BY ONLY <1>2, <2>4 DEF ShapedAt
  <2> QED
    BY <1>3, <2>1, <2>2, <2>3, <2>4
<1>5. Plain(q)
  BY ONLY <1>2, <1>4 DEF Plain, WellShaped
<1> QED
  BY <1>5 DEF q

-----------------------------------------------------------------------------
(* One operation leaves others in its place *)

LEMMA ShapeKept ==
    ASSUME NEW s \in Seq(Operations), s # <<>>, WellShaped(s), NEW ops, Plain(ops)
    PROVE  ops \o Tail(s) \in Seq(Operations) /\ WellShaped(ops \o Tail(s))
<1> DEFINE r == ops \o Tail(s)
<1>0. ops \in Seq(Operations) /\ WellShaped(ops) /\ \A i \in 1 .. Len(ops) : ops[i][1] \notin {"go", "awake", "unpark"}
  BY DEF Plain
<1>1. PICK m \in Nat, n \in Nat \ {0} :
      /\ m = Len(ops) /\ n = Len(s)
      /\ r \in Seq(Operations) /\ Len(r) = m + n - 1
      /\ \A i \in 1 .. m : r[i] = ops[i]
      /\ \A i \in 1 .. n - 1 : r[m + i] = s[i + 1]
      /\ \A i \in 1 .. m + n - 1 : i \in 1 .. m \/ (i - m \in 1 .. n - 1 /\ i = m + (i - m))
  BY <1>0, Replaced
<1> HIDE DEF r
<1>2. ASSUME NEW i \in 1 .. m + n - 1 PROVE ShapedAt(r, i)
  <2>1. CASE i \in 1 .. m
    <3>1. /\ r[i] = ops[i] /\ ShapedAt(ops, i)
          /\ i + 1 \in 1 .. Len(ops) => r[i + 1] = ops[i + 1] /\ i + 1 \in 1 .. Len(r)
      <4>1. ShapedAt(ops, i) /\ r[i] = ops[i]
        BY <1>0, <1>1, <2>1 DEF WellShaped
      <4>2. ASSUME i + 1 \in 1 .. m PROVE r[i + 1] = ops[i + 1] /\ i + 1 \in 1 .. m + n - 1
        BY <1>1, <4>2
      <4> QED
        BY ONLY <1>1, <4>1, <4>2
    <3> QED
      BY ONLY <3>1 DEF ShapedAt
  <2>2. CASE i - m \in 1 .. n - 1
    <3>1. PICK j \in 1 .. n - 1 : i = m + j
      <4>1. i = m + (i - m)
        BY <1>1
      <4> QED
        BY ONLY <4>1, <2>2
    <3>2. PICK k \in Nat : k = j + 1
      BY <3>1
    <3>3. r[i] = s[k] /\ k \in 1 .. n /\ k # 1
      <4>1. k \in 1 .. n /\ k # 1
        BY ONLY <1>1, <3>1, <3>2
      <4> QED
        BY ONLY <1>1, <3>1, <3>2, <4>1
    <3>4. ASSUME k + 1 \in 1 .. n PROVE i + 1 \in 1 .. m + n - 1 /\ r[i + 1] = s[k + 1]
      <4>1. k \in 1 .. n - 1 /\ i + 1 = m + k /\ i + 1 \in 1 .. m + n - 1
        BY ONLY m \in Nat, n \in Nat \ {0}, j \in 1 .. n - 1, k \in Nat, i \in 1 .. m + n - 1, <3>1, <3>2, <3>4
      <4>2. r[m + k] = s[k + 1]
        BY ONLY <1>1, <4>1
      <4> QED
        BY ONLY <4>1, <4>2
    <3>5. ShapedAt(s, k)
      BY ONLY <1>1, <3>3, WellShaped(s) DEF WellShaped
    <3>6. /\ r[i] = s[k] /\ k # 1 /\ ShapedAt(s, k)
          /\ k + 1 \in 1 .. Len(s) => i + 1 \in 1 .. Len(r) /\ r[i + 1] = s[k + 1]
      BY ONLY <1>1, <3>3, <3>4, <3>5
    <3> QED
      BY ONLY <3>6 DEF ShapedAt
  <2> QED
    BY <1>1, <2>1, <2>2
<1>3. r \in Seq(Operations) /\ WellShaped(r)
  BY ONLY <1>1, <1>2 DEF WellShaped
<1> QED
  BY <1>3 DEF r

\* After the operations that took the place of the first one come the others.
LEMMA UnlocksShift ==
    ASSUME NEW s, NEW r, NEW m \in Nat, NEW n \in Nat \ {0}, Len(s) = n, Len(r) = m + n - 1,
           \A i \in 1 .. n - 1 : r[m + i] = s[i + 1],
           NEW i \in 0 .. n - 1
    PROVE  UnlocksNext(r, m + i) <=> UnlocksNext(s, i + 1)
<1>1. ASSUME UnlocksNext(r, m + i) PROVE UnlocksNext(s, i + 1)
  <2>1. PICK j \in m + i + 1 .. m + n - 1 :
        r[j][1] = "unlock" /\ \A k \in m + i + 1 .. j - 1 : r[k][1] # "lock"
    BY <1>1 DEF UnlocksNext
  <2>2. PICK l \in Int : l = j - m
    BY <2>1
  <2>3. j = m + l /\ l \in 1 .. n - 1 /\ l + 1 \in (i + 1) + 1 .. n
    BY <2>1, <2>2
  <2>4. s[l + 1][1] = "unlock"
    BY <2>1, <2>3
  <2>5. ASSUME NEW k \in (i + 1) + 1 .. (l + 1) - 1 PROVE s[k][1] # "lock"
    <3>1. PICK h \in Int : k = h + 1
      BY <2>5
    <3>2. h \in 1 .. n - 1 /\ m + h \in m + i + 1 .. j - 1
      BY <2>1, <2>3, <2>5, <3>1
    <3> QED
      BY <2>1, <3>1, <3>2
  <2> QED
    BY <2>3, <2>4, <2>5 DEF UnlocksNext
<1>2. ASSUME UnlocksNext(s, i + 1) PROVE UnlocksNext(r, m + i)
  <2>1. PICK j \in (i + 1) + 1 .. n :
        s[j][1] = "unlock" /\ \A k \in (i + 1) + 1 .. j - 1 : s[k][1] # "lock"
    BY <1>2 DEF UnlocksNext
  <2>2. PICK l \in Int : j = l + 1
    BY <2>1
  <2>3. l \in 1 .. n - 1 /\ m + l \in m + i + 1 .. m + n - 1
    BY <2>1, <2>2
  <2>4. r[m + l][1] = "unlock"
    BY <2>1, <2>2, <2>3
  <2>5. ASSUME NEW k \in m + i + 1 .. (m + l) - 1 PROVE r[k][1] # "lock"
    <3>1. PICK h \in Int : k = m + h
      <4>1. k = m + (k - m) /\ k - m \in Int
        BY <2>3, <2>5
      <4> QED
        BY ONLY <4>1
    <3>2. h \in 1 .. n - 1 /\ h + 1 \in (i + 1) + 1 .. j - 1
      BY <2>1, <2>2, <2>3, <2>5, <3>1
    <3> QED
      BY <2>1, <3>1, <3>2
  <2> QED
    BY <2>3, <2>4, <2>5 DEF UnlocksNext
<1> QED
  BY <1>1, <1>2

\* What the next operation says of the one that follows it.
LEMMA UnlocksStep ==
    ASSUME NEW s, Len(s) \in Nat, NEW i \in Nat, i + 1 \in 1 .. Len(s)
    PROVE  /\ s[i + 1][1] = "unlock" => UnlocksNext(s, i)
           /\ s[i + 1][1] = "lock" => ~ UnlocksNext(s, i)
           /\ s[i + 1][1] \notin {"lock", "unlock"} => (UnlocksNext(s, i) <=> UnlocksNext(s, i + 1))
<1>0. PICK n \in Nat : n = Len(s) /\ i + 1 \in 1 .. n
  OBVIOUS
<1>1. ASSUME s[i + 1][1] = "unlock" PROVE UnlocksNext(s, i)
  <2>1. i + 1 \in i + 1 .. n /\ i + 1 .. (i + 1) - 1 = {}
    BY <1>0
  <2> QED
    BY <1>0, <1>1, <2>1 DEF UnlocksNext
<1>2. ASSUME s[i + 1][1] = "lock", UnlocksNext(s, i) PROVE FALSE
  <2>1. PICK j \in i + 1 .. n : s[j][1] = "unlock" /\ \A k \in i + 1 .. j - 1 : s[k][1] # "lock"
    BY <1>0, <1>2 DEF UnlocksNext
  <2>2. j # i + 1
    BY <1>2, <2>1
  <2>3. i + 1 \in i + 1 .. j - 1
    BY <1>0, <2>2
  <2> QED
    BY <1>2, <2>1, <2>3
<1>3. ASSUME s[i + 1][1] \notin {"lock", "unlock"}, UnlocksNext(s, i) PROVE UnlocksNext(s, i + 1)
  <2>1. PICK j \in i + 1 .. n : s[j][1] = "unlock" /\ \A k \in i + 1 .. j - 1 : s[k][1] # "lock"
    BY <1>0, <1>3 DEF UnlocksNext
  <2>2. j # i + 1
    BY <1>3, <2>1
  <2>3. j \in (i + 1) + 1 .. n /\ \A k \in (i + 1) + 1 .. j - 1 : k \in i + 1 .. j - 1
    BY <1>0, <2>2
  <2> QED
    BY <1>0, <2>1, <2>3 DEF UnlocksNext
<1>4. ASSUME s[i + 1][1] \notin {"lock", "unlock"}, UnlocksNext(s, i + 1) PROVE UnlocksNext(s, i)
  <2>1. PICK j \in (i + 1) + 1 .. n : s[j][1] = "unlock" /\ \A k \in (i + 1) + 1 .. j - 1 : s[k][1] # "lock"
    BY <1>0, <1>4 DEF UnlocksNext
  <2>2. j \in i + 1 .. n /\ \A k \in i + 1 .. j - 1 : k = i + 1 \/ k \in (i + 1) + 1 .. j - 1
    BY <1>0
  <2>3. \A k \in i + 1 .. j - 1 : s[k][1] # "lock"
    BY <1>4, <2>1, <2>2
  <2> QED
    BY <1>0, <2>1, <2>2, <2>3 DEF UnlocksNext
<1> QED
  BY <1>1, <1>2, <1>3, <1>4

\* Operations that concern the mutex: where its own discipline is at stake.
OfMutex == {"lock", "unlock", "take"}

\* A discipline that the new operations keep is kept.
LEMMA LockedKept ==
    ASSUME NEW s \in Seq(Operations), s # <<>>, WellLocked(s), NEW ops \in Seq(Operations),
           \A i \in 1 .. Len(ops) :
              /\ ops[i][1] \in {"lock", "take"} => UnlocksNext(ops \o Tail(s), i)
              /\ ops[i][1] = "unlock" => ~ UnlocksNext(ops \o Tail(s), i)
    PROVE  WellLocked(ops \o Tail(s))
<1> DEFINE r == ops \o Tail(s)
<1>1. PICK m \in Nat, n \in Nat \ {0} :
      /\ m = Len(ops) /\ n = Len(s)
      /\ Len(r) = m + n - 1
      /\ \A i \in 1 .. m : r[i] = ops[i]
      /\ \A i \in 1 .. n - 1 : r[m + i] = s[i + 1]
      /\ \A i \in 1 .. m + n - 1 : i \in 1 .. m \/ (i - m \in 1 .. n - 1 /\ i = m + (i - m))
  BY Replaced
<1>0. \A i \in 1 .. m : LockedAt(r, i)
  BY <1>1 DEF LockedAt
<1> HIDE DEF r
<1>2. ASSUME NEW i \in 1 .. m + n - 1 PROVE LockedAt(r, i)
  <2>1. CASE i \in 1 .. m
    BY <1>0, <2>1
  <2>2. CASE i - m \in 1 .. n - 1 /\ i = m + (i - m)
    <3>1. PICK j \in 1 .. n - 1 : i = m + j
      BY ONLY <2>2
    <3>2. r[i] = s[j + 1] /\ j \in 0 .. n - 1 /\ j + 1 \in 1 .. n
      BY <1>1, <3>1
    <3>3. UnlocksNext(r, i) <=> UnlocksNext(s, j + 1)
      <4>1. UnlocksNext(r, m + j) <=> UnlocksNext(s, j + 1)
        BY ONLY ZenonT(60), <1>1, <3>2, UnlocksShift, m \in Nat, n \in Nat \ {0}
      <4> QED
        BY ONLY <3>1, <4>1
    <3>4. /\ s[j + 1][1] \in {"lock", "take"} => UnlocksNext(s, j + 1)
          /\ s[j + 1][1] = "unlock" => ~ UnlocksNext(s, j + 1)
      <4>1. PICK k : k = j + 1
        OBVIOUS
      <4>2. k \in 1 .. Len(s)
        BY ONLY <1>1, <3>2, <4>1
      <4>3. /\ s[k][1] \in {"lock", "take"} => UnlocksNext(s, k)
            /\ s[k][1] = "unlock" => ~ UnlocksNext(s, k)
        <5>1. LockedAt(s, k)
          BY ONLY <4>2, WellLocked(s) DEF WellLocked
        <5> QED
          BY ONLY <5>1 DEF LockedAt
      <4> QED
        BY ONLY <4>1, <4>3
    <3> QED
      BY ONLY <3>2, <3>3, <3>4 DEF LockedAt
  <2> QED
    BY <1>1, <2>1, <2>2
<1>3. WellLocked(r)
  BY ONLY <1>1, <1>2 DEF WellLocked
<1> QED
  BY <1>3 DEF r

\* Operations that leave the mutex alone change nothing of who is inside.
LEMMA NeutralKept ==
    ASSUME NEW s \in Seq(Operations), s # <<>>, WellLocked(s), Head(s)[1] \notin {"lock", "unlock"},
           NEW ops \in Seq(Operations), Len(ops) <= 2, \A i \in 1 .. Len(ops) : ops[i][1] \notin OfMutex
    PROVE  /\ WellLocked(ops \o Tail(s))
           /\ UnlocksNext(ops \o Tail(s), 0) <=> UnlocksNext(s, 0)
<1> DEFINE r == ops \o Tail(s)
<1>1. PICK m \in Nat, n \in Nat \ {0} :
      /\ m = Len(ops) /\ n = Len(s) /\ Head(s) = s[1] /\ m <= 2
      /\ Len(r) = m + n - 1
      /\ \A i \in 1 .. m : r[i] = ops[i]
      /\ \A i \in 1 .. n - 1 : r[m + i] = s[i + 1]
  BY Replaced
<1>2. WellLocked(r)
  BY LockedKept DEF OfMutex
<1> HIDE DEF r
<1>3. UnlocksNext(s, 0) <=> UnlocksNext(s, 1)
  <2>1. 0 + 1 \in 1 .. Len(s) /\ Len(s) \in Nat /\ 0 \in Nat /\ s[0 + 1] = Head(s) /\ 0 + 1 = 1
    BY <1>1
  <2>2. UnlocksNext(s, 0) <=> UnlocksNext(s, 0 + 1)
    BY ONLY <2>1, UnlocksStep, Head(s)[1] \notin {"lock", "unlock"}
  <2> QED
    BY ONLY <2>1, <2>2
<1>4. UnlocksNext(r, m) <=> UnlocksNext(s, 1)
  <2>1. 0 \in 0 .. n - 1 /\ m + 0 = m /\ 0 + 1 = 1
    BY <1>1
  <2>2. UnlocksNext(r, m + 0) <=> UnlocksNext(s, 0 + 1)
    BY ONLY <1>1, <2>1, UnlocksShift, m \in Nat, n \in Nat \ {0}
  <2> QED
    BY ONLY <2>1, <2>2
<1>5. \A i \in 1 .. m : r[i][1] \notin {"lock", "unlock"}
  BY <1>1 DEF OfMutex
<1>6. \A i \in Nat : i + 1 \in 1 .. m => (UnlocksNext(r, i) <=> UnlocksNext(r, i + 1))
  <2>1. ASSUME NEW i \in Nat, i + 1 \in 1 .. m PROVE UnlocksNext(r, i) <=> UnlocksNext(r, i + 1)
    <3>1. i + 1 \in 1 .. Len(r) /\ Len(r) \in Nat
      BY <1>1, <2>1
    <3> QED
      BY ONLY <1>5, <2>1, <3>1, UnlocksStep
  <2> QED
    BY <2>1
<1>7. UnlocksNext(r, 0) <=> UnlocksNext(r, m)
  <2>1. m = 0 \/ m = 1 \/ m = 2
    BY <1>1
  <2>2. 0 + 1 = 1 /\ 1 + 1 = 2 /\ 0 \in Nat /\ 1 \in Nat /\ 1 \in 1 .. 1 /\ 1 \in 1 .. 2 /\ 2 \in 1 .. 2
    OBVIOUS
  <2> QED
    BY ONLY <1>6, <2>1, <2>2
<1> QED
  BY <1>2, <1>3, <1>4, <1>7 DEF r

\* What the first operation says of where its fiber is, and what follows it.
LEMMA FirstOfMutex ==
    ASSUME NEW s \in Seq(Operations), s # <<>>, WellLocked(s)
    PROVE  /\ Head(s)[1] = "lock" => ~ UnlocksNext(s, 0) /\ UnlocksNext(s, 1)
           /\ Head(s)[1] = "unlock" => UnlocksNext(s, 0) /\ ~ UnlocksNext(s, 1)
           /\ Head(s)[1] = "take" => UnlocksNext(s, 0) /\ UnlocksNext(s, 1)
<1>1. 0 + 1 \in 1 .. Len(s) /\ Len(s) \in Nat /\ 0 \in Nat /\ s[0 + 1] = Head(s) /\ 0 + 1 = 1 /\ 1 \in 1 .. Len(s)
      /\ Head(s) = s[1]
  OBVIOUS
<1>2. /\ s[0 + 1][1] = "unlock" => UnlocksNext(s, 0)
      /\ s[0 + 1][1] = "lock" => ~ UnlocksNext(s, 0)
      /\ s[0 + 1][1] \notin {"lock", "unlock"} => (UnlocksNext(s, 0) <=> UnlocksNext(s, 0 + 1))
  BY ONLY <1>1, UnlocksStep
<1>3. /\ s[1][1] \in {"lock", "take"} => UnlocksNext(s, 1)
      /\ s[1][1] = "unlock" => ~ UnlocksNext(s, 1)
  <2>1. LockedAt(s, 1)
    BY ONLY <1>1, WellLocked(s) DEF WellLocked
  <2> QED
    BY ONLY <2>1 DEF LockedAt
<1> QED
  BY ONLY <1>1, <1>2, <1>3

\* After the m operations that took the place of the first.
LEMMA UnlocksAfter ==
    ASSUME NEW s \in Seq(Operations), s # <<>>, NEW ops \in Seq(Operations)
    PROVE  /\ UnlocksNext(ops \o Tail(s), Len(ops)) <=> UnlocksNext(s, 1)
           /\ \A i \in Nat : i + 1 \in 1 .. Len(ops) =>
                 /\ ops[i + 1][1] = "unlock" => UnlocksNext(ops \o Tail(s), i)
                 /\ ops[i + 1][1] = "lock" => ~ UnlocksNext(ops \o Tail(s), i)
                 /\ ops[i + 1][1] \notin {"lock", "unlock"} =>
                       (UnlocksNext(ops \o Tail(s), i) <=> UnlocksNext(ops \o Tail(s), i + 1))
<1> DEFINE r == ops \o Tail(s)
<1>1. PICK m \in Nat, n \in Nat \ {0} :
      /\ m = Len(ops) /\ n = Len(s)
      /\ Len(r) = m + n - 1
      /\ \A i \in 1 .. m : r[i] = ops[i]
      /\ \A i \in 1 .. n - 1 : r[m + i] = s[i + 1]
  BY Replaced
<1> HIDE DEF r
<1>2. UnlocksNext(r, m) <=> UnlocksNext(s, 1)
  <2>1. 0 \in 0 .. n - 1 /\ m + 0 = m /\ 0 + 1 = 1
    BY <1>1
  <2>2. UnlocksNext(r, m + 0) <=> UnlocksNext(s, 0 + 1)
    BY ONLY <1>1, <2>1, UnlocksShift, m \in Nat, n \in Nat \ {0}
  <2> QED
    BY ONLY <2>1, <2>2
<1>3. ASSUME NEW i \in Nat, i + 1 \in 1 .. m
      PROVE  /\ ops[i + 1][1] = "unlock" => UnlocksNext(r, i)
             /\ ops[i + 1][1] = "lock" => ~ UnlocksNext(r, i)
             /\ ops[i + 1][1] \notin {"lock", "unlock"} => (UnlocksNext(r, i) <=> UnlocksNext(r, i + 1))
  <2>1. i + 1 \in 1 .. Len(r) /\ Len(r) \in Nat /\ r[i + 1] = ops[i + 1]
    BY <1>1, <1>3
  <2> QED
    BY ONLY <2>1, UnlocksStep, i \in Nat
<1>4. /\ UnlocksNext(r, Len(ops)) <=> UnlocksNext(s, 1)
      /\ \A i \in Nat : i + 1 \in 1 .. Len(ops) =>
                 /\ ops[i + 1][1] = "unlock" => UnlocksNext(r, i)
                 /\ ops[i + 1][1] = "lock" => ~ UnlocksNext(r, i)
                 /\ ops[i + 1][1] \notin {"lock", "unlock"} => (UnlocksNext(r, i) <=> UnlocksNext(r, i + 1))
  BY ONLY <1>1, <1>2, <1>3
<1> QED
  BY <1>4 DEF r

LEMMA AfterLock ==
    ASSUME NEW s \in Seq(Operations), s # <<>>, WellLocked(s), Head(s)[1] = "lock"
    PROVE  /\ WellLocked(<<>> \o Tail(s))
           /\ LET r == <<<<"park", "mutex", TRUE>>, <<"lock">>>> \o Tail(s)
              IN  WellLocked(r) /\ ~ UnlocksNext(r, 0)
<1>1. UnlocksNext(s, 1)
  BY FirstOfMutex
<1>2. WellLocked(<<>> \o Tail(s))
  <2>1. <<>> \in Seq(Operations) /\ Len(<<>>) = 0
    OBVIOUS
  <2>2. \A i \in 1 .. Len(<<>>) : FALSE
    BY <2>1
  <2> QED
    BY LockedKept, <2>1, <2>2
<1> DEFINE ops == <<<<"park", "mutex", TRUE>>, <<"lock">>>>
           r == ops \o Tail(s)
<1>3. /\ ops \in Seq(Operations) /\ Len(ops) = 2 /\ ops[1][1] = "park" /\ ops[2][1] = "lock"
      /\ 0 \in Nat /\ 1 \in Nat /\ 0 + 1 = 1 /\ 1 + 1 = 2
      /\ \A i \in 1 .. 2 : i = 1 \/ i = 2
      /\ 1 \in 1 .. 2 /\ 2 \in 1 .. 2
  BY PlainTwos DEF Plain
<1> HIDE DEF ops
<1>4. UnlocksNext(r, 2)
  BY ONLY <1>1, <1>3, UnlocksAfter, s \in Seq(Operations), s # <<>>
<1>5. ~ UnlocksNext(r, 1)
  BY ONLY <1>3, UnlocksAfter, s \in Seq(Operations), s # <<>>
<1>6. ~ UnlocksNext(r, 0)
  <2>1. UnlocksNext(r, 0) <=> UnlocksNext(r, 1)
    BY ONLY <1>3, UnlocksAfter, s \in Seq(Operations), s # <<>>
  <2> QED
    BY ONLY <1>5, <2>1
<1>7. WellLocked(r)
  BY ONLY <1>3, <1>4, LockedKept, s \in Seq(Operations), s # <<>>, WellLocked(s)
<1> QED
  BY <1>2, <1>6, <1>7 DEF ops

LEMMA AfterUnlock ==
    ASSUME NEW s \in Seq(Operations), s # <<>>, WellLocked(s), Head(s)[1] = "unlock"
    PROVE  LET r == <<<<"wake", "mutex", FALSE>>>> \o Tail(s)
           IN  WellLocked(r) /\ ~ UnlocksNext(r, 0)
<1> DEFINE ops == <<<<"wake", "mutex", FALSE>>>>
           r == ops \o Tail(s)
<1>1. ~ UnlocksNext(s, 1)
  BY FirstOfMutex
<1>3. /\ ops \in Seq(Operations) /\ Len(ops) = 1 /\ ops[1][1] = "wake"
      /\ 0 \in Nat /\ 0 + 1 = 1 /\ 1 \in 1 .. 1 /\ \A i \in 1 .. 1 : i = 1
  BY PlainOnes DEF Plain
<1> HIDE DEF ops
<1>4. ~ UnlocksNext(r, 1)
  BY ONLY <1>1, <1>3, UnlocksAfter, s \in Seq(Operations), s # <<>>
<1>5. ~ UnlocksNext(r, 0)
  BY ONLY <1>3, <1>4, UnlocksAfter, s \in Seq(Operations), s # <<>>
<1>6. WellLocked(r)
  BY ONLY <1>3, LockedKept, s \in Seq(Operations), s # <<>>, WellLocked(s)
<1> QED
  BY <1>5, <1>6 DEF ops

LEMMA AfterTake ==
    ASSUME NEW s \in Seq(Operations), s # <<>>, WellLocked(s), Head(s)[1] = "take", NEW v \in Nat
    PROVE  LET r == <<<<"unlock">>, <<"park", "cond", v>>, <<"lock">>, <<"take">>>> \o Tail(s)
           IN  WellLocked(r) /\ UnlocksNext(r, 0)
<1> DEFINE ops == <<<<"unlock">>, <<"park", "cond", v>>, <<"lock">>, <<"take">>>>
           r == ops \o Tail(s)
<1>1. UnlocksNext(s, 1)
  BY FirstOfMutex
<1>3. /\ ops \in Seq(Operations) /\ Len(ops) = 4
      /\ ops[1][1] = "unlock" /\ ops[2][1] = "park" /\ ops[3][1] = "lock" /\ ops[4][1] = "take"
  BY PlainWait DEF Plain
<1>0. /\ 0 \in Nat /\ 1 \in Nat /\ 2 \in Nat /\ 3 \in Nat
      /\ 0 + 1 = 1 /\ 1 + 1 = 2 /\ 2 + 1 = 3 /\ 3 + 1 = 4
      /\ 1 \in 1 .. 4 /\ 2 \in 1 .. 4 /\ 3 \in 1 .. 4 /\ 4 \in 1 .. 4
      /\ \A i \in 1 .. 4 : i = 1 \/ i = 2 \/ i = 3 \/ i = 4
  OBVIOUS
<1> HIDE DEF ops
<1>4. UnlocksNext(r, 4)
  BY ONLY ZenonT(60), <1>1, <1>3, UnlocksAfter, s \in Seq(Operations), s # <<>>
<1>5. UnlocksNext(r, 3)
  BY ONLY <1>0, <1>3, <1>4, UnlocksAfter, s \in Seq(Operations), s # <<>>
<1>6. ~ UnlocksNext(r, 2)
  BY ONLY <1>0, <1>3, UnlocksAfter, s \in Seq(Operations), s # <<>>
<1>7. ~ UnlocksNext(r, 1)
  BY ONLY <1>0, <1>3, <1>6, UnlocksAfter, s \in Seq(Operations), s # <<>>
<1>8. UnlocksNext(r, 0)
  BY ONLY <1>0, <1>3, UnlocksAfter, s \in Seq(Operations), s # <<>>
<1>9. WellLocked(r)
  BY ONLY <1>0, <1>3, <1>4, <1>5, <1>6, <1>7, LockedKept, s \in Seq(Operations), s # <<>>, WellLocked(s)
<1> QED
  BY <1>8, <1>9 DEF ops

-----------------------------------------------------------------------------
(* A fiber that runs *)

\* The first operation that is left is a part of a call only if that call has
\* just put it there.
LEMMA NewHead ==
    ASSUME NEW s \in Seq(Operations), s # <<>>, WellShaped(s), NEW ops, Plain(ops), ops \o Tail(s) # <<>>
    PROVE  Head(ops \o Tail(s))[1] \notin {"awake", "unpark"}
<1> DEFINE r == ops \o Tail(s)
<1>0. ops \in Seq(Operations) /\ \A i \in 1 .. Len(ops) : ops[i][1] \notin {"go", "awake", "unpark"}
  BY DEF Plain
<1>1. PICK m \in Nat, n \in Nat \ {0} :
      /\ m = Len(ops) /\ n = Len(s)
      /\ r \in Seq(Operations) /\ Len(r) = m + n - 1
      /\ \A i \in 1 .. m : r[i] = ops[i]
      /\ \A i \in 1 .. n - 1 : r[m + i] = s[i + 1]
      /\ Head(r) = r[1]
  BY <1>0, Replaced
<1> HIDE DEF r
<1>2. m + n - 1 # 0
  BY <1>1 DEF r
<1>3. CASE m # 0
  BY <1>0, <1>1, <1>3 DEF r
<1>4. CASE m = 0
  <2>1. r[1] = s[2] /\ 2 \in 1 .. n
    <3>1. 1 \in 1 .. n - 1 /\ m + 1 = 1 /\ 1 + 1 = 2 /\ 2 \in 1 .. n
      BY <1>2, <1>4
    <3> QED
      BY ONLY <1>1, <3>1
  <2>2. ShapedAt(s, 2)
    BY ONLY <1>1, <2>1, WellShaped(s) DEF WellShaped
  <2>3. s[2][1] \notin {"awake", "unpark"}
    BY ONLY <2>2 DEF ShapedAt
  <2> QED
    BY ONLY <1>1, <2>1, <2>3 DEF r
<1> QED
  BY <1>3, <1>4

\* A fiber that runs waits nowhere else, and no other worker is concerned with it.
LEMMA Alones ==
    ASSUME CoreTypes, Placed, NEW w \in Workers, NEW f \in Fibers, current[w] = f, at[w] # "unlock"
    PROVE  /\ Here("worker", w, f) /\ stack[f] # 0
           /\ \A k, x : Here(k, x, f) => k = "worker" /\ x = w
           /\ f \notin ToSet(ready)
           /\ \A v \in Workers : v # w /\ current[v] = f => at[v] = "unlock"
           /\ \A x \in Futexes : f \notin ToSet(queue[x])
           /\ \A g \in Fibers : ~ Here("waker", g, f)
<1>1. Here("worker", w, f)
  BY DEF Here
<1>2. \A k, x : Here(k, x, f) => k = "worker" /\ x = w
  BY <1>1 DEF Placed
<1>3. stack[f] # 0
  BY <1>1 DEF Placed
<1>4. f \notin ToSet(ready)
  <2>1. f \in ToSet(ready) => Here("ready", Null, f)
    BY DEF Here
  <2> QED
    BY ONLY <1>2, <2>1
<1>5. \A v \in Workers : v # w /\ current[v] = f => at[v] = "unlock"
  <2>1. \A v \in Workers : current[v] = f /\ at[v] # "unlock" => Here("worker", v, f)
    BY DEF Here
  <2> QED
    BY ONLY <1>2, <2>1
<1>6. \A x \in Futexes : f \notin ToSet(queue[x])
  <2>1. \A x \in Futexes : f \in ToSet(queue[x]) => Here("queue", x, f)
    BY DEF Here
  <2> QED
    BY ONLY <1>2, <2>1
<1>7. \A g \in Fibers : ~ Here("waker", g, f)
  BY <1>2
<1> QED
  BY <1>1, <1>2, <1>3, <1>4, <1>5, <1>6, <1>7

\* Calls of Go that are left are those that were there.
LEMMA GoKept ==
    ASSUME CoreTypes, GoOnce, NEW f \in Fibers, todo[f] # <<>>,
           NEW ops \in Seq(Operations), \A i \in 1 .. Len(ops) : ops[i][1] # "go",
           todo' = [todo EXCEPT ![f] = ops \o Tail(@)],
           \A g \in Fibers : stack[g] = 0 /\ Head(todo[f]) # <<"go", g>> => stack'[g] = 0
    PROVE  GoOnce'
<1>1. todo \in [Fibers -> Seq(Operations)] /\ todo[f] \in Seq(Operations)
  BY DEF CoreTypes
<1>2. /\ todo'[f] = ops \o Tail(todo[f])
      /\ \A h \in Fibers : h # f => todo'[h] = todo[h]
  BY <1>1
<1>3. PICK m \in Nat, n \in Nat \ {0} :
      /\ m = Len(ops) /\ n = Len(todo[f])
      /\ Len(todo'[f]) = m + n - 1 /\ Head(todo[f]) = todo[f][1]
      /\ \A i \in 1 .. m : todo'[f][i] = ops[i]
      /\ \A i \in 1 .. n - 1 : todo'[f][m + i] = todo[f][i + 1]
      /\ \A i \in 1 .. m + n - 1 : i \in 1 .. m \/ (i - m \in 1 .. n - 1 /\ i = m + (i - m))
  <2> DEFINE r == ops \o Tail(todo[f])
  <2>1. /\ Len(ops) \in Nat /\ Len(todo[f]) \in Nat \ {0} /\ Head(todo[f]) = todo[f][1]
        /\ Len(r) = Len(ops) + Len(todo[f]) - 1
        /\ \A i \in 1 .. Len(ops) : r[i] = ops[i]
        /\ \A i \in 1 .. Len(todo[f]) - 1 : r[Len(ops) + i] = todo[f][i + 1]
        /\ \A i \in 1 .. Len(r) :
              i \in 1 .. Len(ops) \/ (i - Len(ops) \in 1 .. Len(todo[f]) - 1 /\ i = Len(ops) + (i - Len(ops)))
    BY ONLY <1>1, Replaced, todo[f] # <<>>, ops \in Seq(Operations)
  <2>2. todo'[f] = r
    BY ONLY <1>2
  <2> HIDE DEF r
  <2> QED
    BY ONLY <2>1, <2>2
<1> DEFINE Before(h, i) == IF h = f THEN i - m + 1 ELSE i
<1>4. ASSUME NEW h \in Fibers, NEW i \in 1 .. Len(todo'[h]), todo'[h][i][1] = "go"
      PROVE  /\ Before(h, i) \in 1 .. Len(todo[h]) /\ todo'[h][i] = todo[h][Before(h, i)]
             /\ h = f => Before(h, i) # 1
  <2>1. CASE h # f
    BY <1>2, <1>4, <2>1
  <2>2. CASE h = f
    <3>1. i \in 1 .. m + n - 1
      BY ONLY <1>3, <1>4, <2>2
    <3>2. ~ i \in 1 .. m
      BY ONLY <1>3, <1>4, <2>2, \A j \in 1 .. Len(ops) : ops[j][1] # "go"
    <3>3. PICK j \in 1 .. n - 1 : i = m + j
      BY ONLY <1>3, <3>1, <3>2
    <3>4. Before(h, i) = j + 1 /\ j + 1 \in 1 .. n /\ j + 1 # 1
      BY <2>2, <3>3
    <3>5. todo'[h][i] = todo[h][j + 1]
      BY ONLY <1>3, <2>2, <3>3
    <3> QED
      BY ONLY <1>3, <2>2, <3>4, <3>5
  <2> QED
    BY <2>1, <2>2
<1>5. \A h \in Fibers : \A i, j \in Int : Before(h, i) = Before(h, j) => i = j
  OBVIOUS
<1>6. ASSUME NEW g \in Fibers, NEW h \in Fibers, NEW i \in 1 .. Len(todo'[g]), NEW j \in 1 .. Len(todo'[h]),
             todo'[g][i][1] = "go"
      PROVE  /\ stack'[todo'[g][i][2]] = 0
             /\ todo'[h][j] = todo'[g][i] => g = h /\ i = j
  <2> HIDE DEF Before
  <2>1. PICK k : k = Before(g, i) /\ k \in 1 .. Len(todo[g]) /\ todo'[g][i] = todo[g][k] /\ (g = f => k # 1)
    BY ONLY <1>4, <1>6
  <2>2. todo[g][k][1] = "go"
    BY ONLY <1>6, <2>1
  <2>3. stack[todo[g][k][2]] = 0
    <3>1. GoAt(g, k, g, k)
      BY ONLY <2>1, GoOnce, g \in Fibers DEF GoOnce
    <3> QED
      BY ONLY <2>2, <3>1 DEF GoAt
  <2>4. todo[g][k] \in Operations
    BY ONLY <1>1, <2>1, g \in Fibers
  <2>5. todo[g][k][2] \in Fibers /\ todo[g][k] = <<"go", todo[g][k][2]>>
    BY ONLY <2>2, <2>4, OperationsAre
  <2>6. Head(todo[f]) # todo[g][k]
    <3>1. 1 \in 1 .. Len(todo[f]) /\ Head(todo[f]) = todo[f][1]
      BY ONLY <1>3
    <3>2. GoAt(g, k, f, 1)
      BY ONLY <2>1, <3>1, GoOnce, g \in Fibers, f \in Fibers DEF GoOnce
    <3> QED
      BY ONLY <2>1, <2>2, <3>1, <3>2 DEF GoAt
  <2>7. stack'[todo'[g][i][2]] = 0
    BY ONLY <2>1, <2>3, <2>5, <2>6, \A x \in Fibers : stack[x] = 0 /\ Head(todo[f]) # <<"go", x>> => stack'[x] = 0
  <2>8. ASSUME todo'[h][j] = todo'[g][i] PROVE g = h /\ i = j
    <3>1. PICK l : l = Before(h, j) /\ l \in 1 .. Len(todo[h]) /\ todo'[h][j] = todo[h][l]
      BY ONLY <1>4, <1>6, <2>8
    <3>0. todo[h][l] = todo[g][k]
      BY ONLY <2>1, <2>8, <3>1
    <3>4. GoAt(g, k, h, l)
      BY ONLY <2>1, <3>1, GoOnce, g \in Fibers, h \in Fibers DEF GoOnce
    <3>2. g = h /\ k = l
      BY ONLY <2>2, <3>0, <3>4 DEF GoAt
    <3>3. i \in Int /\ j \in Int
      OBVIOUS
    <3> QED
      BY ONLY <1>5, <2>1, <3>1, <3>2, <3>3, h \in Fibers
  <2> QED
    BY ONLY <2>7, <2>8
<1> QED
  BY ONLY <1>6 DEF GoOnce, GoAt

-----------------------------------------------------------------------------
(* Where fibers are *)

LEMMA PlacedStays ==
    ASSUME Placed,
           \A f \in Fibers : \A k, x : Here(k, x, f)' <=> Here(k, x, f),
           \A f \in Fibers : stack'[f] = 0 <=> stack[f] = 0
    PROVE  Placed'
  BY DEF Placed

\* A step of a fiber on its own stack that puts other operations in the place
\* of the first one.
Local(w, f, ops) ==
    /\ On(w, f) /\ todo[f] # <<>> /\ Head(todo[f])[1] # "awake"
    /\ todo' = [todo EXCEPT ![f] = ops \o Tail(@)]
    /\ UNCHANGED <<closed, ready, current, at, awaiter, stack, freed, allocated, queue>>

LEMMA LocalStep ==
    ASSUME Core, NEW w \in Workers, NEW f \in Fibers, NEW ops, Plain(ops), Local(w, f, ops),
           \A g \in Fibers \ {f} : old'[g] = old[g]
    PROVE  Core'
<1>1. /\ todo \in [Fibers -> Seq(Operations)] /\ todo[f] \in Seq(Operations) /\ todo[f] # <<>>
      /\ WellShaped(todo[f]) /\ Head(todo[f])[1] # "awake"
  BY DEF Core, CoreTypes, Shapes, Local
<1>2. /\ todo'[f] = ops \o Tail(todo[f]) /\ \A g \in Fibers : g # f => todo'[g] = todo[g]
      /\ todo' = [todo EXCEPT ![f] = ops \o Tail(@)]
  BY <1>1 DEF Local
<1>3. todo'[f] \in Seq(Operations) /\ WellShaped(todo'[f])
  BY <1>1, <1>2, ShapeKept
<1>4. todo'[f] # <<>> => Head(todo'[f])[1] \notin {"awake", "unpark"}
  BY <1>1, <1>2, NewHead
<1>5. /\ closed' = closed /\ ready' = ready /\ current' = current /\ at' = at /\ awaiter' = awaiter
      /\ stack' = stack /\ freed' = freed /\ allocated' = allocated /\ queue' = queue
      /\ at[w] = "fiber" /\ current[w] = f
  BY DEF Local, On
<1>6. CoreTypes'
  <2>1. todo' \in [Fibers -> Seq(Operations)]
    BY ONLY <1>1, <1>2, <1>3, f \in Fibers
  <2> QED
    BY <1>5, <2>1 DEF Core, CoreTypes
<1>7. Shapes'
  <2>1. ASSUME NEW g \in Fibers PROVE WellShaped(todo'[g])
    BY ONLY <1>2, <1>3, Shapes, g \in Fibers DEF Core, Shapes
  <2> QED
    BY <2>1 DEF Core, Shapes
<1>8. /\ Here("worker", w, f)
      /\ \A v \in Workers : v # w /\ current[v] = f => at[v] = "unlock"
      /\ \A x \in Futexes : f \notin ToSet(queue[x])
      /\ \A g \in Fibers : ~ Here("waker", g, f)
  BY <1>5, Alones DEF Core
<1>9. \A g \in Fibers : \A k, x : Here(k, x, g)' <=> Here(k, x, g)
  <2>1. SUFFICES ASSUME NEW g \in Fibers, NEW x
                 PROVE  \A k : Here(k, x, g)' <=> Here(k, x, g)
    OBVIOUS
  <2>2. /\ ToSet(ready)' = ToSet(ready)
        /\ x \in Futexes => ToSet(queue[x])' = ToSet(queue[x])
    BY ONLY <1>5
  <2>3. x \in Fibers =>
           ((todo'[x] # <<>> /\ Head(todo'[x])[1] = "awake" /\ Head(todo'[x])[4] = g)
            <=> (todo[x] # <<>> /\ Head(todo[x])[1] = "awake" /\ Head(todo[x])[4] = g))
    BY ONLY <1>1, <1>2, <1>4
  <2> QED
    BY ONLY <1>5, <2>2, <2>3 DEF Here
<1>10. Placed'
  BY ONLY <1>5, <1>9, PlacedStays, Core DEF Core
<1>11. QueuesOnce' /\ StacksHaveOneOwner'
  BY <1>5 DEF Core, QueuesOnce, StacksHaveOneOwner, Alive
<1>12. Busy'
  <2>1. ASSUME NEW v \in Workers PROVE BusyAt(v)'
    <3>1. CASE current[v] = f
      <4>1. at[v] \in {"fiber", "unlock"}
        BY ONLY <1>5, <1>8, <3>1, v \in Workers
      <4> QED
        BY <1>5, <2>1, <3>1, <4>1 DEF Core, Busy, BusyAt
    <3>2. CASE current[v] # f /\ current[v] \in Fibers
      <4>1. todo'[current[v]] = todo[current[v]]
        BY ONLY <1>2, <3>2
      <4> QED
        BY <1>5, <2>1, <4>1 DEF Core, Busy, BusyAt, At
    <3>3. CASE current[v] = Null
      BY <1>5, <2>1, <3>3 DEF Core, Busy, BusyAt
    <3> QED
      BY <3>1, <3>2, <3>3 DEF Core, CoreTypes
  <2> QED
    BY <2>1 DEF Busy
<1>13. Waiters'
  <2>1. SUFFICES ASSUME NEW g \in Fibers
        PROVE  /\ \A x \in Futexes : g \in ToSet(queue[x])' => At(g, "unpark", x)'
               /\ \A h \in Fibers : Here("waker", h, g)' => At(g, "unpark", Head(todo[h])[2])'
               /\ At(g, "unpark", "mutex")' => old'[g] = TRUE
               /\ At(g, "unpark", "group")' => old'[g] = FALSE
    BY DEF Waiters
  <2>2. CASE g = f
    <3>1. \A x : ~ At(g, "unpark", x)'
      BY ONLY <1>4, <2>2 DEF At
    <3>2. \A h \in Fibers : ~ Here("waker", h, g)'
      BY ONLY <1>8, <1>9, <2>2, f \in Fibers
    <3>3. \A x \in Futexes : g \notin ToSet(queue[x])'
      BY ONLY <1>5, <1>8, <2>2
    <3> QED
      BY ONLY <3>1, <3>2, <3>3
  <2>3. CASE g # f
    <3>1. \A x : At(g, "unpark", x)' <=> At(g, "unpark", x)
      BY ONLY <1>2, <2>3, g \in Fibers DEF At
    <3>2. \A h \in Fibers : Here("waker", h, g)' => Here("waker", h, g) /\ Head(todo[h])' = Head(todo[h])
      <4>1. ASSUME NEW h \in Fibers, Here("waker", h, g)' PROVE Here("waker", h, g) /\ todo'[h] = todo[h]
        <5>1. h # f
          BY ONLY <1>4, <4>1 DEF Here
        <5> QED
          BY ONLY <1>2, <1>9, <4>1, <5>1, g \in Fibers
      <4> QED
        BY <4>1
    <3>3. \A x \in Futexes : g \in ToSet(queue[x])' => g \in ToSet(queue[x])
      BY ONLY <1>5
    <3>4. /\ \A x \in Futexes : g \in ToSet(queue[x]) => At(g, "unpark", x)
          /\ \A h \in Fibers : Here("waker", h, g) => At(g, "unpark", Head(todo[h])[2])
          /\ At(g, "unpark", "mutex") => old[g] = TRUE
          /\ At(g, "unpark", "group") => old[g] = FALSE
      BY DEF Core, Waiters
    <3>5. \A h \in Fibers : Here("waker", h, g)' => At(g, "unpark", Head(todo[h])[2])'
      BY ONLY <3>1, <3>2, <3>4
    <3>6. old'[g] = old[g]
      BY <2>3
    <3> QED
      BY ONLY <3>1, <3>3, <3>4, <3>5, <3>6
  <2> QED
    BY <2>2, <2>3
<1>14. GoOnce'
  BY <1>1, <1>2, <1>5, GoKept DEF Core, Plain
<1> QED
  BY ONLY <1>6, <1>7, <1>10, <1>11, <1>12, <1>13, <1>14 DEF Core

-----------------------------------------------------------------------------
(* Who is inside, and who is bound to wake the others *)

\* Somebody waits though what it waits for is there.
MutexWaits == queue["mutex"] # <<>> /\ access = FALSE
GroupWaits == queue["group"] # <<>> /\ isDone = TRUE

\* f will end that.
MutexWaker(f) ==
    /\ stack[f] # 0 /\ f \notin ToSet(queue["mutex"]) /\ todo[f] # <<>>
    /\ \/ Head(todo[f])[1] = "lock"
       \/ Head(todo[f])[1] \in {"park", "unpark", "wake", "awake"} /\ Head(todo[f])[2] = "mutex"
GroupWaker(f) ==
    stack[f] # 0 /\ todo[f] # <<>> /\ Head(todo[f])[1] \in {"wake", "awake"} /\ Head(todo[f])[2] = "group"

SomebodyWakes ==
    access \in BOOLEAN /\ isDone \in BOOLEAN /\ closed \in BOOLEAN =>
        (NoFiberForgotten <=>
             (closed = FALSE => /\ MutexWaits => \E f \in Fibers : MutexWaker(f)
                                /\ GroupWaits => \E f \in Fibers : GroupWaker(f)))

LEMMA Wakers == SomebodyWakes
<1> SUFFICES ASSUME access \in BOOLEAN, isDone \in BOOLEAN, closed \in BOOLEAN
             PROVE  NoFiberForgotten <=>
                      (closed = FALSE => /\ MutexWaits => \E f \in Fibers : MutexWaker(f)
                                         /\ GroupWaits => \E f \in Fibers : GroupWaker(f))
  BY DEF SomebodyWakes
<1>1. (queue["mutex"] # <<>> /\ ~ access) <=> MutexWaits
  BY DEF MutexWaits
<1>2. (queue["group"] # <<>> /\ isDone) <=> GroupWaits
  BY DEF GroupWaits
<1>3. \A f \in Fibers :
         MutexWaker(f) <=> /\ f \in Alive \ ToSet(queue["mutex"])
                           /\ \/ todo[f] # <<>> /\ Head(todo[f])[1] = "lock"
                              \/ \E name \in {"park", "unpark", "wake", "awake"} : At(f, name, "mutex")
  BY DEF MutexWaker, Alive, At
<1>4. \A f \in Fibers :
         GroupWaker(f) <=> f \in Alive /\ (At(f, "wake", "group") \/ At(f, "awake", "group"))
  BY DEF GroupWaker, Alive, At
<1>5. (~ closed) <=> (closed = FALSE)
  OBVIOUS
<1>6. (\E f \in Alive \ ToSet(queue["mutex"]) :
          \/ todo[f] # <<>> /\ Head(todo[f])[1] = "lock"
          \/ \E name \in {"park", "unpark", "wake", "awake"} : At(f, name, "mutex"))
      <=> \E f \in Fibers : MutexWaker(f)
  BY ONLY <1>3 DEF Alive
<1>7. (\E f \in Alive : At(f, "wake", "group") \/ At(f, "awake", "group"))
      <=> \E f \in Fibers : GroupWaker(f)
  BY ONLY <1>4 DEF Alive
<1> QED
  BY ONLY <1>1, <1>2, <1>5, <1>6, <1>7 DEF NoFiberForgotten

\* A step that lets nobody wait in vain, or leaves somebody who will wake him.
LEMMA Minds ==
    ASSUME SyncTypes, SyncTypes', CoreTypes, CoreTypes', NoFiberForgotten, closed' = FALSE => closed = FALSE,
           closed' = FALSE /\ MutexWaits' =>
              \/ \E h \in Fibers : MutexWaker(h)'
              \/ MutexWaits /\ \A g \in Fibers : MutexWaker(g) => \E h \in Fibers : MutexWaker(h)',
           closed' = FALSE /\ GroupWaits' =>
              \/ \E h \in Fibers : GroupWaker(h)'
              \/ GroupWaits /\ \A g \in Fibers : GroupWaker(g) => \E h \in Fibers : GroupWaker(h)'
    PROVE  NoFiberForgotten'
<1>1. NoFiberForgotten => (closed = FALSE => /\ MutexWaits => \E f \in Fibers : MutexWaker(f)
                                             /\ GroupWaits => \E f \in Fibers : GroupWaker(f))
  BY Wakers DEF SyncTypes, CoreTypes, SomebodyWakes
<1>2. SomebodyWakes'
  BY Wakers, PTL
<1>3. (closed' = FALSE => /\ MutexWaits' => \E f \in Fibers : MutexWaker(f)'
                          /\ GroupWaits' => \E f \in Fibers : GroupWaker(f)')
      => NoFiberForgotten'
  <2>1. access' \in BOOLEAN /\ isDone' \in BOOLEAN /\ closed' \in BOOLEAN
    BY DEF SyncTypes, CoreTypes
  <2> QED
    BY ONLY <1>2, <2>1 DEF SomebodyWakes
<1> QED
  BY <1>1, <1>3

\* The discipline of the others, when only f's operations change.
LEMMA LockingKept ==
    ASSUME Locking, NEW f \in Fibers, \A g \in Fibers : g # f => todo'[g] = todo[g],
           WellLocked(todo'[f]), access' = access, UnlocksNext(todo'[f], 0) => UnlocksNext(todo[f], 0)
    PROVE  Locking'
<1>1. \A g \in Fibers : Inside(g)' => Inside(g)
  BY DEF Inside
<1>2. \A g \in Fibers : WellLocked(todo'[g])
  BY DEF Locking
<1> QED
  BY <1>1, <1>2 DEF Locking, MutualExclusion

\* A step of a fiber that leaves the mutex alone and wakes nobody.
LEMMA QuietStep ==
    ASSUME IInv, SyncTypes', NEW w \in Workers, NEW f \in Fibers, NEW ops, Plain(ops), Local(w, f, ops),
           Head(todo[f])[1] \notin {"lock", "unlock", "park", "unpark", "wake", "awake"},
           Len(ops) <= 2, \A i \in 1 .. Len(ops) : ops[i][1] \notin OfMutex,
           old' = old, access' = access, isDone' = isDone \/ isDone' = FALSE
    PROVE  IInv'
<1>1. Core'
  BY LocalStep DEF IInv
<1>2. /\ todo'[f] = ops \o Tail(todo[f]) /\ \A g \in Fibers : g # f => todo'[g] = todo[g]
      /\ todo[f] \in Seq(Operations) /\ todo[f] # <<>> /\ queue' = queue /\ stack' = stack /\ closed' = closed
  BY DEF IInv, Core, CoreTypes, Local
<1>3. Locking'
  <2>1. WellLocked(todo[f]) /\ ops \in Seq(Operations)
    BY DEF IInv, Locking, Plain
  <2>2. /\ WellLocked(ops \o Tail(todo[f]))
        /\ UnlocksNext(ops \o Tail(todo[f]), 0) <=> UnlocksNext(todo[f], 0)
    BY <1>2, <2>1, NeutralKept
  <2> QED
    BY <1>2, <2>2, LockingKept DEF IInv
<1>4. \A g \in Fibers : /\ MutexWaker(g) => MutexWaker(g)'
                        /\ GroupWaker(g) => GroupWaker(g)'
  <2>1. ~ MutexWaker(f) /\ ~ GroupWaker(f)
    BY DEF MutexWaker, GroupWaker
  <2>2. ASSUME NEW g \in Fibers, g # f PROVE (MutexWaker(g) => MutexWaker(g)') /\ (GroupWaker(g) => GroupWaker(g)')
    BY ONLY <1>2, <2>2 DEF MutexWaker, GroupWaker
  <2> QED
    BY <2>1, <2>2
<1>5. (MutexWaits' => MutexWaits) /\ (GroupWaits' => GroupWaits)
  BY <1>2 DEF MutexWaits, GroupWaits
<1>6. NoFiberForgotten'
  BY <1>1, <1>2, <1>4, <1>5, Minds DEF IInv, Core
<1> QED
  BY <1>1, <1>3, <1>6 DEF IInv

-----------------------------------------------------------------------------
(* The steps of the library's calls *)

\* What a fiber does on its own stack: f's first operation has this name, and
\* leaves these in its place.
LEMMA AloneIsLocal ==
    ASSUME CoreTypes, NEW w, NEW f \in Fibers, NEW name, name # "awake", NEW ops,
           Doing(w, f, name), Then(f, ops), Alone, UNCHANGED poolVars
    PROVE  /\ Local(w, f, ops) /\ old' = old /\ spin' = spin /\ stops' = stops /\ Head(todo[f])[1] = name
           /\ todo[f] \in Seq(Operations) /\ todo[f] # <<>> /\ Head(todo[f]) \in Operations
           /\ Head(todo[f]) = todo[f][1] /\ 1 \in 1 .. Len(todo[f])
<1>1. /\ todo[f] \in Seq(Operations) /\ todo[f] # <<>> /\ Head(todo[f]) \in Operations
      /\ Head(todo[f]) = todo[f][1] /\ 1 \in 1 .. Len(todo[f])
  BY DEF CoreTypes, Doing
<1> QED
  BY <1>1 DEF Local, Doing, Then, Alone, schedulerVars, stackVars, futexVars, poolVars

LEMMA QuietCalls ==
    ASSUME IInv, UNCHANGED poolVars, NEW w \in Workers, NEW f \in Fibers
    PROVE  /\ Give(w, f) \/ Notify(w, f) \/ Work(w, f) \/ Leave(w, f) \/ Settle(w, f) => IInv'
           /\ BeginAdd(w, f) \/ LoadTasks(w, f) \/ Clear(w, f) \/ AddTasks(w, f) => IInv'
           /\ BeginDone(w, f) \/ SubTasks(w, f) \/ Join(w, f) => IInv'
<1>0. CoreTypes /\ SyncTypes
  BY DEF IInv, Core
<1>o. \A o \in Operations : /\ o[1] = "notify" => o[2] \in BOOLEAN
                            /\ o[1] \in {"add", "loadTasks", "addTasks"} => o[2] \in Nat
  BY OperationsAre
<1>l. /\ Len(<<>>) = 0 /\ \A i \in 1 .. 0 : FALSE
      /\ 0 <= 2 /\ 1 <= 2 /\ 2 <= 2 /\ (\A i \in 1 .. 1 : i = 1) /\ (\A i \in 1 .. 2 : i = 1 \/ i = 2)
      /\ \A o, p : Len(<<o>>) = 1 /\ Len(<<o, p>>) = 2
  OBVIOUS
<1>1. ASSUME Give(w, f) PROVE IInv'
  <2> DEFINE ops == <<>>
  <2>1. Then(f, ops)
    BY <1>1, <1>0 DEF Give, SyncTypes
  <2>2. Doing(w, f, "give") /\ Alone
    BY <1>1 DEF Give
  <2> HIDE DEF ops
  <2>3. /\ Local(w, f, ops) /\ old' = old /\ spin' = spin /\ stops' = stops
        /\ Head(todo[f])[1] = "give" /\ Head(todo[f]) \in Operations
    BY <1>0, <2>1, <2>2, AloneIsLocal
  <2>4. SyncTypes' /\ access' = access /\ (isDone' = isDone \/ isDone' = FALSE)
    BY <1>1, <1>0, <1>o, <2>3 DEF Give, SyncTypes, condVars, groupVars
  <2>5. Plain(ops) /\ Len(ops) <= 2 /\ \A i \in 1 .. Len(ops) : ops[i][1] \notin OfMutex
    BY <1>l, <1>o, <2>3, PlainNothing, PlainOnes, PlainTwos DEF ops, OfMutex
  <2> QED
    BY <2>3, <2>4, <2>5, QuietStep
<1>2. ASSUME Notify(w, f) PROVE IInv'
  <2> DEFINE ops == <<<<"wake", "cond", Head(todo[f])[2]>>>>
  <2>1. Then(f, ops)
    BY <1>2, <1>0 DEF Notify, SyncTypes
  <2>2. Doing(w, f, "notify") /\ Alone
    BY <1>2 DEF Notify
  <2> HIDE DEF ops
  <2>3. /\ Local(w, f, ops) /\ old' = old /\ spin' = spin /\ stops' = stops
        /\ Head(todo[f])[1] = "notify" /\ Head(todo[f]) \in Operations
    BY <1>0, <2>1, <2>2, AloneIsLocal
  <2>4. SyncTypes' /\ access' = access /\ (isDone' = isDone \/ isDone' = FALSE)
    BY <1>2, <1>0, <1>o, <2>3 DEF Notify, SyncTypes, condVars, groupVars
  <2>5. Plain(ops) /\ Len(ops) <= 2 /\ \A i \in 1 .. Len(ops) : ops[i][1] \notin OfMutex
    BY <1>l, <1>o, <2>3, PlainNothing, PlainOnes, PlainTwos DEF ops, OfMutex
  <2> QED
    BY <2>3, <2>4, <2>5, QuietStep
<1>3. ASSUME Work(w, f) PROVE IInv'
  <2> DEFINE ops == <<>>
  <2>1. Then(f, ops)
    BY <1>3, <1>0 DEF Work, SyncTypes
  <2>2. Doing(w, f, "work") /\ Alone
    BY <1>3 DEF Work
  <2> HIDE DEF ops
  <2>3. /\ Local(w, f, ops) /\ old' = old /\ spin' = spin /\ stops' = stops
        /\ Head(todo[f])[1] = "work" /\ Head(todo[f]) \in Operations
    BY <1>0, <2>1, <2>2, AloneIsLocal
  <2>4. SyncTypes' /\ access' = access /\ (isDone' = isDone \/ isDone' = FALSE)
    BY <1>3, <1>0, <1>o, <2>3 DEF Work, SyncTypes, condVars, groupVars
  <2>5. Plain(ops) /\ Len(ops) <= 2 /\ \A i \in 1 .. Len(ops) : ops[i][1] \notin OfMutex
    BY <1>l, <1>o, <2>3, PlainNothing, PlainOnes, PlainTwos DEF ops, OfMutex
  <2> QED
    BY <2>3, <2>4, <2>5, QuietStep
<1>4. ASSUME Leave(w, f) PROVE IInv'
  <2> DEFINE ops == <<>>
  <2>1. Then(f, ops)
    BY <1>4, <1>0 DEF Leave, SyncTypes
  <2>2. Doing(w, f, "leave") /\ Alone
    BY <1>4 DEF Leave
  <2> HIDE DEF ops
  <2>3. /\ Local(w, f, ops) /\ old' = old /\ spin' = spin /\ stops' = stops
        /\ Head(todo[f])[1] = "leave" /\ Head(todo[f]) \in Operations
    BY <1>0, <2>1, <2>2, AloneIsLocal
  <2>4. SyncTypes' /\ access' = access /\ (isDone' = isDone \/ isDone' = FALSE)
    BY <1>4, <1>0, <1>o, <2>3 DEF Leave, SyncTypes, condVars, groupVars
  <2>5. Plain(ops) /\ Len(ops) <= 2 /\ \A i \in 1 .. Len(ops) : ops[i][1] \notin OfMutex
    BY <1>l, <1>o, <2>3, PlainNothing, PlainOnes, PlainTwos DEF ops, OfMutex
  <2> QED
    BY <2>3, <2>4, <2>5, QuietStep
<1>5. ASSUME Settle(w, f) PROVE IInv'
  <2> DEFINE ops == <<>>
  <2>1. Then(f, ops)
    BY <1>5, <1>0 DEF Settle, SyncTypes
  <2>2. Doing(w, f, "settle") /\ Alone
    BY <1>5 DEF Settle
  <2> HIDE DEF ops
  <2>3. /\ Local(w, f, ops) /\ old' = old /\ spin' = spin /\ stops' = stops
        /\ Head(todo[f])[1] = "settle" /\ Head(todo[f]) \in Operations
    BY <1>0, <2>1, <2>2, AloneIsLocal
  <2>4. SyncTypes' /\ access' = access /\ (isDone' = isDone \/ isDone' = FALSE)
    BY <1>5, <1>0, <1>o, <2>3 DEF Settle, SyncTypes, condVars, groupVars
  <2>5. Plain(ops) /\ Len(ops) <= 2 /\ \A i \in 1 .. Len(ops) : ops[i][1] \notin OfMutex
    BY <1>l, <1>o, <2>3, PlainNothing, PlainOnes, PlainTwos DEF ops, OfMutex
  <2> QED
    BY <2>3, <2>4, <2>5, QuietStep
<1>6. ASSUME BeginAdd(w, f) PROVE IInv'
  <2> DEFINE ops == <<<<"loadTasks", Head(todo[f])[2]>>, <<"leave">>>>
  <2>1. Then(f, ops)
    BY <1>6, <1>0 DEF BeginAdd, SyncTypes
  <2>2. Doing(w, f, "add") /\ Alone
    BY <1>6 DEF BeginAdd
  <2> HIDE DEF ops
  <2>3. /\ Local(w, f, ops) /\ old' = old /\ spin' = spin /\ stops' = stops
        /\ Head(todo[f])[1] = "add" /\ Head(todo[f]) \in Operations
    BY <1>0, <2>1, <2>2, AloneIsLocal
  <2>4. SyncTypes' /\ access' = access /\ (isDone' = isDone \/ isDone' = FALSE)
    BY <1>6, <1>0, <1>o, <2>3 DEF BeginAdd, SyncTypes, condVars, groupVars
  <2>5. Plain(ops) /\ Len(ops) <= 2 /\ \A i \in 1 .. Len(ops) : ops[i][1] \notin OfMutex
    BY <1>l, <1>o, <2>3, PlainNothing, PlainOnes, PlainTwos DEF ops, OfMutex
  <2> QED
    BY <2>3, <2>4, <2>5, QuietStep
<1>7. ASSUME LoadTasks(w, f) PROVE IInv'
  <2>1. CASE tasks = 0 /\ tasks + Head(todo[f])[2] # 0
    <3> DEFINE ops == <<<<"clear">>, <<"addTasks", Head(todo[f])[2]>>>>
    <3>1. Then(f, ops)
      <4>1. <<<<"clear">>>> \o <<<<"addTasks", Head(todo[f])[2]>>>> = ops
        BY OneBeforeOne
      <4> QED
        BY <1>7, <4>1, <2>1 DEF LoadTasks
    <3>2. Doing(w, f, "loadTasks") /\ Alone
      BY <1>7 DEF LoadTasks
    <3> HIDE DEF ops
    <3>3. /\ Local(w, f, ops) /\ old' = old /\ spin' = spin /\ stops' = stops
          /\ Head(todo[f])[1] = "loadTasks" /\ Head(todo[f]) \in Operations
      BY <1>0, <3>1, <3>2, AloneIsLocal
    <3>4. SyncTypes' /\ access' = access /\ (isDone' = isDone \/ isDone' = FALSE)
      BY <1>7, <1>0, <1>o, <3>3 DEF LoadTasks, SyncTypes, condVars, groupVars
    <3>5. Plain(ops) /\ Len(ops) <= 2 /\ \A i \in 1 .. Len(ops) : ops[i][1] \notin OfMutex
      BY <1>l, <1>o, <3>3, PlainNothing, PlainOnes, PlainTwos DEF ops, OfMutex
    <3> QED
      BY <3>3, <3>4, <3>5, QuietStep
  <2>2. CASE ~ (tasks = 0 /\ tasks + Head(todo[f])[2] # 0)
    <3> DEFINE ops == <<<<"addTasks", Head(todo[f])[2]>>>>
    <3>1. Then(f, ops)
      <4>1. <<>> \o <<<<"addTasks", Head(todo[f])[2]>>>> = ops
        BY NothingBefore
      <4> QED
        BY <1>7, <4>1, <2>2 DEF LoadTasks
    <3>2. Doing(w, f, "loadTasks") /\ Alone
      BY <1>7 DEF LoadTasks
    <3> HIDE DEF ops
    <3>3. /\ Local(w, f, ops) /\ old' = old /\ spin' = spin /\ stops' = stops
          /\ Head(todo[f])[1] = "loadTasks" /\ Head(todo[f]) \in Operations
      BY <1>0, <3>1, <3>2, AloneIsLocal
    <3>4. SyncTypes' /\ access' = access /\ (isDone' = isDone \/ isDone' = FALSE)
      BY <1>7, <1>0, <1>o, <3>3 DEF LoadTasks, SyncTypes, condVars, groupVars
    <3>5. Plain(ops) /\ Len(ops) <= 2 /\ \A i \in 1 .. Len(ops) : ops[i][1] \notin OfMutex
      BY <1>l, <1>o, <3>3, PlainNothing, PlainOnes, PlainTwos DEF ops, OfMutex
    <3> QED
      BY <3>3, <3>4, <3>5, QuietStep
  <2> QED
    BY <2>1, <2>2
<1>8. ASSUME Clear(w, f) PROVE IInv'
  <2> DEFINE ops == <<>>
  <2>1. Then(f, ops)
    BY <1>8, <1>0 DEF Clear, SyncTypes
  <2>2. Doing(w, f, "clear") /\ Alone
    BY <1>8 DEF Clear
  <2> HIDE DEF ops
  <2>3. /\ Local(w, f, ops) /\ old' = old /\ spin' = spin /\ stops' = stops
        /\ Head(todo[f])[1] = "clear" /\ Head(todo[f]) \in Operations
    BY <1>0, <2>1, <2>2, AloneIsLocal
  <2>4. SyncTypes' /\ access' = access /\ (isDone' = isDone \/ isDone' = FALSE)
    BY <1>8, <1>0, <1>o, <2>3 DEF Clear, SyncTypes, condVars, groupVars
  <2>5. Plain(ops) /\ Len(ops) <= 2 /\ \A i \in 1 .. Len(ops) : ops[i][1] \notin OfMutex
    BY <1>l, <1>o, <2>3, PlainNothing, PlainOnes, PlainTwos DEF ops, OfMutex
  <2> QED
    BY <2>3, <2>4, <2>5, QuietStep
<1>9. ASSUME AddTasks(w, f) PROVE IInv'
  <2> DEFINE ops == <<>>
  <2>1. Then(f, ops)
    BY <1>9, <1>0 DEF AddTasks, SyncTypes
  <2>2. Doing(w, f, "addTasks") /\ Alone
    BY <1>9 DEF AddTasks
  <2> HIDE DEF ops
  <2>3. /\ Local(w, f, ops) /\ old' = old /\ spin' = spin /\ stops' = stops
        /\ Head(todo[f])[1] = "addTasks" /\ Head(todo[f]) \in Operations
    BY <1>0, <2>1, <2>2, AloneIsLocal
  <2>4. SyncTypes' /\ access' = access /\ (isDone' = isDone \/ isDone' = FALSE)
    BY <1>9, <1>0, <1>o, <2>3 DEF AddTasks, SyncTypes, condVars, groupVars
  <2>5. Plain(ops) /\ Len(ops) <= 2 /\ \A i \in 1 .. Len(ops) : ops[i][1] \notin OfMutex
    BY <1>l, <1>o, <2>3, PlainNothing, PlainOnes, PlainTwos DEF ops, OfMutex
  <2> QED
    BY <2>3, <2>4, <2>5, QuietStep
<1>10. ASSUME BeginDone(w, f) PROVE IInv'
  <2> DEFINE ops == <<<<"subTasks">>, <<"leave">>>>
  <2>1. Then(f, ops)
    BY <1>10, <1>0 DEF BeginDone, SyncTypes
  <2>2. Doing(w, f, "done") /\ Alone
    BY <1>10 DEF BeginDone
  <2> HIDE DEF ops
  <2>3. /\ Local(w, f, ops) /\ old' = old /\ spin' = spin /\ stops' = stops
        /\ Head(todo[f])[1] = "done" /\ Head(todo[f]) \in Operations
    BY <1>0, <2>1, <2>2, AloneIsLocal
  <2>4. SyncTypes' /\ access' = access /\ (isDone' = isDone \/ isDone' = FALSE)
    BY <1>10, <1>0, <1>o, <2>3 DEF BeginDone, SyncTypes, condVars, groupVars
  <2>5. Plain(ops) /\ Len(ops) <= 2 /\ \A i \in 1 .. Len(ops) : ops[i][1] \notin OfMutex
    BY <1>l, <1>o, <2>3, PlainNothing, PlainOnes, PlainTwos DEF ops, OfMutex
  <2> QED
    BY <2>3, <2>4, <2>5, QuietStep
<1>11. ASSUME SubTasks(w, f) PROVE IInv'
  <2>1. CASE tasks = 1
    <3> DEFINE ops == <<<<"store">>, <<"wake", "group", TRUE>>>>
    <3>1. Then(f, ops)
      BY <1>11, <2>1, <1>0 DEF SubTasks, SyncTypes
    <3>2. Doing(w, f, "subTasks") /\ Alone
      BY <1>11 DEF SubTasks
    <3> HIDE DEF ops
    <3>3. /\ Local(w, f, ops) /\ old' = old /\ spin' = spin /\ stops' = stops
          /\ Head(todo[f])[1] = "subTasks" /\ Head(todo[f]) \in Operations
      BY <1>0, <3>1, <3>2, AloneIsLocal
    <3>4. SyncTypes' /\ access' = access /\ (isDone' = isDone \/ isDone' = FALSE)
      BY <1>11, <1>0, <1>o, <3>3 DEF SubTasks, SyncTypes, condVars, groupVars
    <3>5. Plain(ops) /\ Len(ops) <= 2 /\ \A i \in 1 .. Len(ops) : ops[i][1] \notin OfMutex
      BY <1>l, <1>o, <3>3, PlainNothing, PlainOnes, PlainTwos DEF ops, OfMutex
    <3> QED
      BY <3>3, <3>4, <3>5, QuietStep
  <2>2. CASE tasks # 1
    <3> DEFINE ops == <<>>
    <3>1. Then(f, ops)
      BY <1>11, <2>2, <1>0 DEF SubTasks, SyncTypes
    <3>2. Doing(w, f, "subTasks") /\ Alone
      BY <1>11 DEF SubTasks
    <3> HIDE DEF ops
    <3>3. /\ Local(w, f, ops) /\ old' = old /\ spin' = spin /\ stops' = stops
          /\ Head(todo[f])[1] = "subTasks" /\ Head(todo[f]) \in Operations
      BY <1>0, <3>1, <3>2, AloneIsLocal
    <3>4. SyncTypes' /\ access' = access /\ (isDone' = isDone \/ isDone' = FALSE)
      BY <1>11, <1>0, <1>o, <3>3 DEF SubTasks, SyncTypes, condVars, groupVars
    <3>5. Plain(ops) /\ Len(ops) <= 2 /\ \A i \in 1 .. Len(ops) : ops[i][1] \notin OfMutex
      BY <1>l, <1>o, <3>3, PlainNothing, PlainOnes, PlainTwos DEF ops, OfMutex
    <3> QED
      BY <3>3, <3>4, <3>5, QuietStep
  <2> QED
    BY <2>1, <2>2
<1>12. ASSUME Join(w, f) PROVE IInv'
  <2>1. CASE isDone = TRUE
    <3> DEFINE ops == <<<<"settle">>>>
    <3>1. Then(f, ops)
      BY <1>12, <2>1, <1>0 DEF Join, SyncTypes
    <3>2. Doing(w, f, "join") /\ Alone
      BY <1>12 DEF Join
    <3> HIDE DEF ops
    <3>3. /\ Local(w, f, ops) /\ old' = old /\ spin' = spin /\ stops' = stops
          /\ Head(todo[f])[1] = "join" /\ Head(todo[f]) \in Operations
      BY <1>0, <3>1, <3>2, AloneIsLocal
    <3>4. SyncTypes' /\ access' = access /\ (isDone' = isDone \/ isDone' = FALSE)
      BY <1>12, <1>0, <1>o, <3>3 DEF Join, SyncTypes, condVars, groupVars
    <3>5. Plain(ops) /\ Len(ops) <= 2 /\ \A i \in 1 .. Len(ops) : ops[i][1] \notin OfMutex
      BY <1>l, <1>o, <3>3, PlainNothing, PlainOnes, PlainTwos DEF ops, OfMutex
    <3> QED
      BY <3>3, <3>4, <3>5, QuietStep
  <2>2. CASE isDone # TRUE
    <3> DEFINE ops == <<<<"park", "group", FALSE>>, <<"join">>>>
    <3>1. Then(f, ops)
      BY <1>12, <2>2, <1>0 DEF Join, SyncTypes
    <3>2. Doing(w, f, "join") /\ Alone
      BY <1>12 DEF Join
    <3> HIDE DEF ops
    <3>3. /\ Local(w, f, ops) /\ old' = old /\ spin' = spin /\ stops' = stops
          /\ Head(todo[f])[1] = "join" /\ Head(todo[f]) \in Operations
      BY <1>0, <3>1, <3>2, AloneIsLocal
    <3>4. SyncTypes' /\ access' = access /\ (isDone' = isDone \/ isDone' = FALSE)
      BY <1>12, <1>0, <1>o, <3>3 DEF Join, SyncTypes, condVars, groupVars
    <3>5. Plain(ops) /\ Len(ops) <= 2 /\ \A i \in 1 .. Len(ops) : ops[i][1] \notin OfMutex
      BY <1>l, <1>o, <3>3, PlainNothing, PlainOnes, PlainTwos DEF ops, OfMutex
    <3> QED
      BY <3>3, <3>4, <3>5, QuietStep
  <2> QED
    BY <2>1, <2>2
<1> QED
  BY <1>1, <1>2, <1>3, <1>4, <1>5, <1>6, <1>7, <1>8, <1>9, <1>10, <1>11, <1>12

-----------------------------------------------------------------------------
(* Calls that concern the mutex and those who wait *)

LEMMA HeadOfThen ==
    ASSUME NEW S, NEW s \in Seq(S), s # <<>>, NEW ops \in Seq(S), ops # <<>>
    PROVE  ops \o Tail(s) # <<>> /\ Head(ops \o Tail(s)) = ops[1]
<1> DEFINE r == ops \o Tail(s)
<1>1. /\ r \in Seq(S) /\ Len(r) = Len(ops) + Len(s) - 1 /\ \A i \in 1 .. Len(ops) : r[i] = ops[i]
      /\ Len(ops) \in Nat /\ Len(s) \in Nat \ {0}
      /\ r # <<>> => Head(r) = r[1]
  BY Replaced
<1>2. Len(ops) # 0
  OBVIOUS
<1> HIDE DEF r
<1>3. 1 \in 1 .. Len(ops) /\ Len(r) # 0
  BY <1>1, <1>2
<1>4. r # <<>>
  BY <1>3
<1>5. r # <<>> /\ Head(r) = ops[1]
  BY ONLY <1>1, <1>3, <1>4
<1> QED
  BY <1>5 DEF r

LEMMA HeadIsFirst == ASSUME NEW S, NEW q \in Seq(S), Len(q) # 0
                     PROVE  q # <<>> /\ Head(q) = q[1]
  OBVIOUS

LEMMA HeadOfTail ==
    ASSUME NEW S, NEW s \in Seq(S), 2 \in 1 .. Len(s)
    PROVE  <<>> \o Tail(s) # <<>> /\ Head(<<>> \o Tail(s)) = s[2]
<1>1. <<>> \o Tail(s) = Tail(s) /\ Len(Tail(s)) = Len(s) - 1 /\ Len(s) \in Nat /\ Tail(s) \in Seq(S) /\ s # <<>>
  OBVIOUS
<1>2. Len(Tail(s)) # 0 /\ 1 \in 1 .. Len(s) - 1
  BY <1>1
<1>3. Tail(s) # <<>> /\ Head(Tail(s)) = Tail(s)[1]
  BY ONLY <1>1, <1>2, HeadIsFirst
<1>4. \A i \in 1 .. Len(s) - 1 : Tail(s)[i] = s[i + 1]
  BY <1>1, HeadTailProperties
<1>5. 1 + 1 = 2 /\ Tail(s)[1] = s[1 + 1]
  BY ONLY <1>2, <1>4
<1> QED
  BY ONLY <1>1, <1>3, <1>5

\* Nobody was inside, and f enters.
LEMMA LockingTaken ==
    ASSUME Locking, NEW f \in Fibers, \A g \in Fibers : g # f => todo'[g] = todo[g],
           WellLocked(todo'[f]), access = FALSE, access' = TRUE
    PROVE  Locking'
<1>1. \A g \in Fibers : ~ Inside(g)
  BY DEF Locking
<1>2. \A g \in Fibers : Inside(g)' => g = f
  BY <1>1 DEF Inside
<1>3. \A g \in Fibers : WellLocked(todo'[g])
  BY DEF Locking
<1> QED
  BY <1>2, <1>3 DEF Locking, MutualExclusion

\* f was inside, and leaves.
LEMMA LockingLeft ==
    ASSUME Locking, NEW f \in Fibers, \A g \in Fibers : g # f => todo'[g] = todo[g],
           WellLocked(todo'[f]), UnlocksNext(todo[f], 0), ~ UnlocksNext(todo'[f], 0)
    PROVE  Locking'
<1>1. \A g \in Fibers : g # f => ~ Inside(g)
  BY DEF Locking, MutualExclusion, Inside
<1>2. \A g \in Fibers : ~ Inside(g)'
  BY <1>1 DEF Inside
<1>3. \A g \in Fibers : WellLocked(todo'[g])
  BY DEF Locking
<1> QED
  BY <1>2, <1>3 DEF Locking, MutualExclusion

\* What a local step is to the others, and to its own fiber.
LEMMA LocalFacts ==
    ASSUME Core, NEW w \in Workers, NEW f \in Fibers, NEW ops, Local(w, f, ops)
    PROVE  /\ todo'[f] = ops \o Tail(todo[f]) /\ \A g \in Fibers : g # f => todo'[g] = todo[g]
           /\ todo[f] \in Seq(Operations) /\ todo[f] # <<>>
           /\ queue' = queue /\ stack' = stack /\ closed' = closed
           /\ stack[f] # 0 /\ \A x \in Futexes : f \notin ToSet(queue[x])
<1>1. CoreTypes /\ Placed /\ current[w] = f /\ at[w] # "unlock"
  BY DEF Core, Local, On
<1>2. stack[f] # 0 /\ \A x \in Futexes : f \notin ToSet(queue[x])
  BY <1>1, Alones
<1> QED
  BY <1>1, <1>2 DEF CoreTypes, Local

LEMMA LoudStep ==
    ASSUME IInv, SyncTypes', Locking', NEW w \in Workers, NEW f \in Fibers, NEW ops, Plain(ops), Local(w, f, ops),
           \A g \in Fibers \ {f} : old'[g] = old[g],
           MutexWaits' => MutexWaker(f)' \/ (MutexWaits /\ ~ MutexWaker(f)),
           GroupWaits' => GroupWaker(f)' \/ (GroupWaits /\ ~ GroupWaker(f))
    PROVE  IInv'
<1>1. Core'
  BY LocalStep DEF IInv
<1>2. /\ \A g \in Fibers : g # f => todo'[g] = todo[g]
      /\ queue' = queue /\ stack' = stack /\ closed' = closed
  BY LocalFacts DEF IInv
<1>3. \A g \in Fibers : g # f => (MutexWaker(g) => MutexWaker(g)') /\ (GroupWaker(g) => GroupWaker(g)')
  BY ONLY <1>2 DEF MutexWaker, GroupWaker
<1>4. NoFiberForgotten'
  BY <1>1, <1>2, <1>3, Minds DEF IInv, Core
<1> QED
  BY <1>1, <1>4 DEF IInv

LEMMA ExchangeStep ==
    ASSUME IInv, UNCHANGED poolVars, NEW w \in Workers, NEW f \in Fibers, Exchange(w, f)
    PROVE  IInv'
<1>0. Core /\ CoreTypes /\ SyncTypes /\ Locking
  BY DEF IInv, Core
<1> DEFINE ops == IF access THEN <<<<"park", "mutex", TRUE>>, <<"lock">>>> ELSE <<>>
<1>1. Then(f, ops) /\ Doing(w, f, "lock") /\ Alone
  BY DEF Exchange
<1>p. Plain(ops)
  BY <1>0, PlainNothing, PlainTwos DEF SyncTypes
<1>c. /\ access = TRUE => ops = <<<<"park", "mutex", TRUE>>, <<"lock">>>>
      /\ access = FALSE => ops = <<>>
  OBVIOUS
<1> HIDE DEF ops
<1>2. /\ Local(w, f, ops) /\ old' = old /\ spin' = spin /\ stops' = stops /\ Head(todo[f])[1] = "lock"
  BY <1>0, <1>1, AloneIsLocal
<1>3. SyncTypes' /\ access' = TRUE /\ isDone' = isDone
  BY <1>0, <1>2 DEF Exchange, SyncTypes, condVars, groupVars
<1>4. /\ todo'[f] = ops \o Tail(todo[f]) /\ \A g \in Fibers : g # f => todo'[g] = todo[g]
      /\ todo[f] \in Seq(Operations) /\ todo[f] # <<>> /\ queue' = queue
  BY <1>0, <1>2, LocalFacts
<1>5. Locking'
  <2>0. WellLocked(todo[f])
    BY <1>0 DEF Locking
  <2>1. CASE access = FALSE
    <3>1. WellLocked(<<>> \o Tail(todo[f]))
      BY <1>2, <1>4, <2>0, AfterLock
    <3>2. todo'[f] = <<>> \o Tail(todo[f])
      BY <1>4, <1>c, <2>1
    <3> QED
      BY ONLY <1>0, <1>3, <1>4, <2>1, <3>1, <3>2, LockingTaken, f \in Fibers
  <2>2. CASE access = TRUE
    <3>1. /\ WellLocked(<<<<"park", "mutex", TRUE>>, <<"lock">>>> \o Tail(todo[f]))
          /\ ~ UnlocksNext(<<<<"park", "mutex", TRUE>>, <<"lock">>>> \o Tail(todo[f]), 0)
      BY <1>2, <1>4, <2>0, AfterLock
    <3>2. todo'[f] = <<<<"park", "mutex", TRUE>>, <<"lock">>>> \o Tail(todo[f])
      BY <1>4, <1>c, <2>2
    <3> QED
      BY ONLY <1>0, <1>3, <1>4, <2>2, <3>1, <3>2, LockingKept, f \in Fibers
  <2> QED
    BY <1>0, <2>1, <2>2 DEF SyncTypes
<1>6. ~ MutexWaits' /\ (GroupWaits' => GroupWaits /\ ~ GroupWaker(f))
  BY ONLY <1>2, <1>3, <1>4 DEF MutexWaits, GroupWaits, GroupWaker
<1>7. \A g \in Fibers \ {f} : old'[g] = old[g]
  BY <1>2
<1> QED
  BY ONLY <1>2, <1>3, <1>5, <1>6, <1>7, <1>p, LoudStep, IInv, w \in Workers, f \in Fibers

LEMMA UnlockStep ==
    ASSUME IInv, UNCHANGED poolVars, NEW w \in Workers, NEW f \in Fibers, Unlock(w, f)
    PROVE  IInv'
<1>0. Core /\ CoreTypes /\ SyncTypes /\ Locking
  BY DEF IInv, Core
<1> DEFINE ops == <<<<"wake", "mutex", FALSE>>>>
<1>1. Then(f, ops) /\ Doing(w, f, "unlock") /\ Alone
  BY DEF Unlock
<1>p. Plain(ops) /\ ops \in Seq(Operations) /\ ops # <<>> /\ ops[1] = <<"wake", "mutex", FALSE>>
  BY PlainOnes DEF Plain
<1> HIDE DEF ops
<1>2. /\ Local(w, f, ops) /\ old' = old /\ spin' = spin /\ stops' = stops /\ Head(todo[f])[1] = "unlock"
  BY <1>0, <1>1, AloneIsLocal
<1>3. SyncTypes' /\ isDone' = isDone
  BY <1>0, <1>2 DEF Unlock, SyncTypes, condVars, groupVars
<1>4. /\ todo'[f] = ops \o Tail(todo[f]) /\ \A g \in Fibers : g # f => todo'[g] = todo[g]
      /\ todo[f] \in Seq(Operations) /\ todo[f] # <<>> /\ queue' = queue /\ stack' = stack
      /\ stack[f] # 0 /\ f \notin ToSet(queue["mutex"])
  BY <1>0, <1>2, LocalFacts, FutexesAre
<1>5. Locking'
  <2>0. WellLocked(todo[f])
    BY <1>0 DEF Locking
  <2>1. WellLocked(todo'[f]) /\ ~ UnlocksNext(todo'[f], 0)
    BY <1>2, <1>4, <2>0, AfterUnlock DEF ops
  <2>2. UnlocksNext(todo[f], 0)
    BY <1>2, <1>4, <2>0, FirstOfMutex
  <2> QED
    BY ONLY <1>0, <1>4, <2>1, <2>2, LockingLeft, f \in Fibers
<1>6. MutexWaker(f)' /\ (GroupWaits' => GroupWaits /\ ~ GroupWaker(f))
  <2>1. todo'[f] # <<>> /\ Head(todo'[f]) = <<"wake", "mutex", FALSE>>
    BY ONLY <1>p, <1>4, HeadOfThen
  <2>2. Head(todo'[f])[1] = "wake" /\ Head(todo'[f])[2] = "mutex"
    BY <2>1
  <2>3. MutexWaker(f)'
    BY ONLY <1>4, <2>1, <2>2 DEF MutexWaker
  <2> QED
    BY ONLY <1>2, <1>3, <1>4, <2>3 DEF GroupWaits, GroupWaker
<1>7. \A g \in Fibers \ {f} : old'[g] = old[g]
  BY <1>2
<1> QED
  BY ONLY <1>2, <1>3, <1>5, <1>6, <1>7, <1>p, LoudStep, IInv, w \in Workers, f \in Fibers

LEMMA TakeStep ==
    ASSUME IInv, UNCHANGED poolVars, NEW w \in Workers, NEW f \in Fibers, Take(w, f)
    PROVE  IInv'
<1>0. Core /\ CoreTypes /\ SyncTypes /\ Locking
  BY DEF IInv, Core
<1>1. CASE tokens > 0
  <2> DEFINE ops == <<>>
  <2>1. Then(f, ops) /\ Doing(w, f, "take") /\ Alone
    BY <1>1 DEF Take
  <2>p. Plain(ops) /\ Len(ops) <= 2 /\ \A i \in 1 .. Len(ops) : ops[i][1] \notin OfMutex
    BY PlainNothing
  <2> HIDE DEF ops
  <2>2. /\ Local(w, f, ops) /\ old' = old /\ spin' = spin /\ stops' = stops /\ Head(todo[f])[1] = "take"
    BY <1>0, <2>1, AloneIsLocal
  <2>3. SyncTypes' /\ access' = access /\ isDone' = isDone
    BY <1>0, <1>1, <2>2 DEF Take, SyncTypes, condVars, groupVars
  <2> QED
    BY <2>p, <2>2, <2>3, QuietStep
<1>2. CASE ~ tokens > 0
  <2> DEFINE ops == <<<<"unlock">>, <<"park", "cond", val>>, <<"lock">>, <<"take">>>>
  <2>1. Then(f, ops) /\ Doing(w, f, "take") /\ Alone
    BY <1>2 DEF Take
  <2>v. val \in Nat
    BY <1>0 DEF SyncTypes
  <2>p. Plain(ops)
    BY <2>v, PlainWait
  <2> HIDE DEF ops
  <2>2. /\ Local(w, f, ops) /\ old' = old /\ spin' = spin /\ stops' = stops /\ Head(todo[f])[1] = "take"
    BY <1>0, <2>1, AloneIsLocal
  <2>3. SyncTypes' /\ access' = access /\ isDone' = isDone
    BY <1>0, <1>2, <2>2 DEF Take, SyncTypes, condVars, groupVars
  <2>4. /\ todo'[f] = ops \o Tail(todo[f]) /\ \A g \in Fibers : g # f => todo'[g] = todo[g]
        /\ todo[f] \in Seq(Operations) /\ todo[f] # <<>> /\ queue' = queue
    BY <1>0, <2>2, LocalFacts
  <2>5. Locking'
    <3>0. WellLocked(todo[f])
      BY <1>0 DEF Locking
    <3>1. WellLocked(todo'[f])
      BY <2>2, <2>4, <2>v, <3>0, AfterTake DEF ops
    <3>2. UnlocksNext(todo[f], 0)
      BY <2>2, <2>4, <3>0, FirstOfMutex
    <3> QED
      BY ONLY <1>0, <2>3, <2>4, <3>1, <3>2, LockingKept, f \in Fibers
  <2>6. /\ MutexWaits' => MutexWaits /\ ~ MutexWaker(f)
        /\ GroupWaits' => GroupWaits /\ ~ GroupWaker(f)
    BY ONLY <2>2, <2>3, <2>4 DEF MutexWaits, MutexWaker, GroupWaits, GroupWaker
  <2>7. \A g \in Fibers \ {f} : old'[g] = old[g]
    BY <2>2
  <2> QED
    BY ONLY <2>2, <2>3, <2>5, <2>6, <2>7, <2>p, LoudStep, IInv, w \in Workers, f \in Fibers
<1> QED
  BY <1>1, <1>2

LEMMA StoreStep ==
    ASSUME IInv, UNCHANGED poolVars, NEW w \in Workers, NEW f \in Fibers, Store(w, f)
    PROVE  IInv'
<1>0. Core /\ CoreTypes /\ SyncTypes /\ Locking /\ Shapes
  BY DEF IInv, Core
<1> DEFINE ops == <<>>
<1>1. Then(f, ops) /\ Doing(w, f, "store") /\ Alone
  BY DEF Store
<1>p. Plain(ops) /\ ops \in Seq(Operations) /\ Len(ops) <= 2 /\ \A i \in 1 .. Len(ops) : ops[i][1] \notin OfMutex
  BY PlainNothing DEF Plain
<1> HIDE DEF ops
<1>2. /\ Local(w, f, ops) /\ old' = old /\ spin' = spin /\ stops' = stops /\ Head(todo[f])[1] = "store"
      /\ Head(todo[f]) = todo[f][1] /\ 1 \in 1 .. Len(todo[f])
  BY <1>0, <1>1, AloneIsLocal
<1>3. SyncTypes' /\ access' = access
  BY <1>0, <1>2 DEF Store, SyncTypes, condVars, groupVars
<1>4. /\ todo'[f] = ops \o Tail(todo[f]) /\ \A g \in Fibers : g # f => todo'[g] = todo[g]
      /\ todo[f] \in Seq(Operations) /\ todo[f] # <<>> /\ queue' = queue /\ stack' = stack
      /\ stack[f] # 0
  BY <1>0, <1>2, LocalFacts
<1>5. Locking'
  <2>0. WellLocked(todo[f])
    BY <1>0 DEF Locking
  <2>1. WellLocked(todo'[f]) /\ (UnlocksNext(todo'[f], 0) <=> UnlocksNext(todo[f], 0))
    BY <1>2, <1>4, <1>p, <2>0, NeutralKept
  <2> QED
    BY ONLY <1>0, <1>3, <1>4, <2>1, LockingKept, f \in Fibers
<1>6. GroupWaker(f)' /\ (MutexWaits' => MutexWaits /\ ~ MutexWaker(f))
  <2>1. 1 + 1 = 2 /\ 2 \in 1 .. Len(todo[f]) /\ todo[f][2] = <<"wake", "group", TRUE>>
    <3>1. ShapedAt(todo[f], 1)
      BY <1>0, <1>2 DEF Shapes, WellShaped
    <3>2. 1 + 1 \in 1 .. Len(todo[f]) /\ todo[f][1 + 1] = <<"wake", "group", TRUE>>
      BY ONLY <1>2, <3>1 DEF ShapedAt
    <3>3. 1 + 1 = 2
      OBVIOUS
    <3> QED
      BY ONLY <3>2, <3>3
  <2>2. todo'[f] # <<>> /\ Head(todo'[f]) = <<"wake", "group", TRUE>>
    BY <1>4, <2>1, HeadOfTail DEF ops
  <2>3. Head(todo'[f])[1] = "wake" /\ Head(todo'[f])[2] = "group"
    BY <2>2
  <2>4. GroupWaker(f)'
    BY ONLY <1>4, <2>2, <2>3 DEF GroupWaker
  <2> QED
    BY ONLY <1>2, <1>3, <1>4, <2>4 DEF MutexWaits, MutexWaker
<1>7. \A g \in Fibers \ {f} : old'[g] = old[g]
  BY <1>2
<1> QED
  BY ONLY <1>2, <1>3, <1>5, <1>6, <1>7, <1>p, LoudStep, IInv, w \in Workers, f \in Fibers

-----------------------------------------------------------------------------
(* Steps that move fibers *)

\* h has taken g out of a queue and not yet scheduled it.
Holds(h, g) == todo[h] # <<>> /\ Head(todo[h])[1] = "awake" /\ Head(todo[h])[4] = g

IsPlace(kind, place) ==
    \/ kind = "none" /\ place = Null
    \/ kind = "ready" /\ place = Null
    \/ kind = "worker" /\ place \in Workers
    \/ kind = "queue" /\ place \in Futexes
    \/ kind = "waker" /\ place \in Fibers

\* A step leaves g where it is.
Stays(g) ==
    /\ g \in ToSet(ready') <=> g \in ToSet(ready)
    /\ \A v \in Workers : (current'[v] = g /\ at'[v] # "unlock") <=> (current[v] = g /\ at[v] # "unlock")
    /\ \A x \in Futexes : g \in ToSet(queue'[x]) <=> g \in ToSet(queue[x])
    /\ \A h \in Fibers : Holds(h, g)' <=> Holds(h, g)
    /\ stack'[g] = 0 <=> stack[g] = 0

\* A step brings g to this place, or to none.
Comes(g, kind, place) ==
    /\ g \in ToSet(ready') <=> kind = "ready"
    /\ \A v \in Workers : (current'[v] = g /\ at'[v] # "unlock") <=> (kind = "worker" /\ v = place)
    /\ \A x \in Futexes : g \in ToSet(queue'[x]) <=> (kind = "queue" /\ x = place)
    /\ \A h \in Fibers : Holds(h, g)' <=> (kind = "waker" /\ h = place)
    /\ stack'[g] = 0 <=> kind = "none"

LEMMA PlacedEach ==
    ASSUME Placed,
           \A g \in Fibers : Stays(g) \/ \E kind, place : IsPlace(kind, place) /\ Comes(g, kind, place)
    PROVE  Placed'
<1>1. ASSUME NEW g \in Fibers
      PROVE  /\ \A k, l, x, y : Here(k, x, g)' /\ Here(l, y, g)' => k = l /\ x = y
             /\ stack'[g] # 0 <=> \E k, x : Here(k, x, g)'
  <2>1. CASE Stays(g)
    <3>1. \A k, x : Here(k, x, g)' <=> Here(k, x, g)
      BY ONLY <2>1 DEF Stays, Here, Holds
    <3>2. stack'[g] = 0 <=> stack[g] = 0
      BY ONLY <2>1 DEF Stays
    <3>3. /\ \A k, l, x, y : Here(k, x, g) /\ Here(l, y, g) => k = l /\ x = y
          /\ stack[g] # 0 <=> \E k, x : Here(k, x, g)
      BY DEF Placed
    <3> QED
      BY ONLY <3>1, <3>2, <3>3
  <2>2. CASE \E kind, place : IsPlace(kind, place) /\ Comes(g, kind, place)
    <3>1. PICK kind, place : IsPlace(kind, place) /\ Comes(g, kind, place)
      BY <2>2
    <3>2. \A k, x : Here(k, x, g)' <=> kind # "none" /\ k = kind /\ x = place
      BY ONLY <3>1 DEF Comes, IsPlace, Here, Holds
    <3>3. stack'[g] = 0 <=> kind = "none"
      BY ONLY <3>1 DEF Comes
    <3> QED
      BY ONLY <3>2, <3>3
  <2> QED
    BY <1>1, <2>1, <2>2
<1> QED
  BY ONLY <1>1 DEF Placed

\* A fiber that is in a place is in no other.
LEMMA OnlyThere ==
    ASSUME Placed, NEW g \in Fibers, NEW kind, NEW place, Here(kind, place, g)
    PROVE  /\ stack[g] # 0
           /\ g \in ToSet(ready) => kind = "ready"
           /\ \A v \in Workers : current[v] = g /\ at[v] # "unlock" => kind = "worker" /\ v = place
           /\ \A x \in Futexes : g \in ToSet(queue[x]) => kind = "queue" /\ x = place
           /\ \A h \in Fibers : Holds(h, g) => kind = "waker" /\ h = place
<1>1. stack[g] # 0 /\ \A k, x : Here(k, x, g) => k = kind /\ x = place
  BY DEF Placed
<1>2. /\ g \in ToSet(ready) => Here("ready", Null, g)
      /\ \A v \in Workers : current[v] = g /\ at[v] # "unlock" => Here("worker", v, g)
      /\ \A x \in Futexes : g \in ToSet(queue[x]) => Here("queue", x, g)
      /\ \A h \in Fibers : Holds(h, g) => Here("waker", h, g)
  BY DEF Here, Holds
<1> QED
  BY ONLY <1>1, <1>2

\* A fiber that does not exist is nowhere.
LEMMA Nowhere ==
    ASSUME Placed, NEW g \in Fibers, stack[g] = 0
    PROVE  /\ g \notin ToSet(ready)
           /\ \A v \in Workers : ~ (current[v] = g /\ at[v] # "unlock")
           /\ \A x \in Futexes : g \notin ToSet(queue[x])
           /\ \A h \in Fibers : ~ Holds(h, g)
<1>1. \A k, x : ~ Here(k, x, g)
  BY DEF Placed
<1>2. /\ g \in ToSet(ready) => Here("ready", Null, g)
      /\ \A v \in Workers : current[v] = g /\ at[v] # "unlock" => Here("worker", v, g)
      /\ \A x \in Futexes : g \in ToSet(queue[x]) => Here("queue", x, g)
      /\ \A h \in Fibers : Holds(h, g) => Here("waker", h, g)
  BY DEF Here, Holds
<1> QED
  BY ONLY <1>1, <1>2

\* The fiber that a worker runs, or has just left.
LEMMA Running ==
    ASSUME CoreTypes, Busy, Placed, NEW w \in Workers, at[w] \notin {"idle", "unlock"}
    PROVE  /\ current[w] \in Fibers /\ Here("worker", w, current[w]) /\ stack[current[w]] # 0
           /\ current[w] \notin ToSet(ready)
           /\ \A v \in Workers : v # w /\ current[v] = current[w] => at[v] = "unlock"
           /\ \A x \in Futexes : current[w] \notin ToSet(queue[x])
           /\ \A h \in Fibers : ~ Holds(h, current[w])
<1>1. current[w] \in Fibers
  <2>1. current[w] # Null
    BY DEF Busy, BusyAt
  <2> QED
    BY <2>1 DEF CoreTypes
<1>2. Here("worker", w, current[w])
  BY <1>1 DEF Here
<1>3. /\ stack[current[w]] # 0
      /\ current[w] \in ToSet(ready) => "worker" = "ready"
      /\ \A v \in Workers : current[v] = current[w] /\ at[v] # "unlock" => v = w
      /\ \A x \in Futexes : current[w] \in ToSet(queue[x]) => "worker" = "queue"
      /\ \A h \in Fibers : Holds(h, current[w]) => "worker" = "waker"
  BY ONLY <1>1, <1>2, Placed, OnlyThere
<1> QED
  BY <1>1, <1>2, <1>3

\* A step that moves the worker w, or the fiber m, is nothing to the others.
LEMMA OthersBusy ==
    ASSUME CoreTypes, Busy, NEW w \in Workers, NEW m,
           \A v \in Workers : v # w /\ current[v] = m => at[v] = "unlock",
           \A v \in Workers : v # w => at'[v] = at[v] /\ current'[v] = current[v],
           \A g \in Fibers : g # m => awaiter'[g] = awaiter[g] /\ todo'[g] = todo[g],
           BusyAt(w)'
    PROVE  Busy'
<1>1. ASSUME NEW v \in Workers, v # w PROVE BusyAt(v)'
  <2>1. BusyAt(v) /\ at'[v] = at[v] /\ current'[v] = current[v]
    BY <1>1 DEF Busy
  <2>2. CASE at[v] = "idle"
    BY ONLY <2>1, <2>2 DEF BusyAt
  <2>3. CASE at[v] = "unlock"
    BY ONLY <2>1, <2>3 DEF BusyAt
  <2>4. CASE at[v] \notin {"idle", "unlock"}
    <3>1. current[v] \in Fibers /\ current[v] # m
      BY <1>1, <2>1, <2>4 DEF CoreTypes, BusyAt
    <3>2. awaiter'[current[v]] = awaiter[current[v]] /\ todo'[current[v]] = todo[current[v]]
      BY <3>1
    <3> QED
      BY ONLY <2>1, <2>4, <3>2 DEF BusyAt, At
  <2> QED
    BY <2>2, <2>3, <2>4
<1>2. \A v \in Workers : BusyAt(v)'
  BY <1>1
<1> QED
  BY ONLY <1>2 DEF Busy

-----------------------------------------------------------------------------
(* Stacks *)

LEMMA AliveAreFinite == IsFiniteSet(Alive) /\ Cardinality(Alive) \in Nat
<1>1. IsFiniteSet(Fibers) /\ Alive \subseteq Fibers
  BY FiberAssumption DEF Alive, FiberAssumption
<1> QED
  BY <1>1, FS_Subset, FS_CardinalityType

Stacks == /\ allocated \in Nat /\ stack \in [Fibers -> 0 .. allocated] /\ freed \in Seq(1 .. allocated)
          /\ StacksHaveOneOwner

\* A stack goes back to the pool.
LEMMA Discarded ==
    ASSUME Stacks, NEW f \in Fibers, stack[f] # 0, Discard(f), allocated' = allocated
    PROVE  Stacks' /\ stack'[f] = 0 /\ \A g \in Fibers : g # f => stack'[g] = stack[g]
<1>1. /\ allocated \in Nat /\ stack \in [Fibers -> 0 .. allocated] /\ freed \in Seq(1 .. allocated)
      /\ stack[f] \in 1 .. allocated
      /\ IsInjective(freed) /\ allocated = Cardinality(Alive) + Len(freed)
      /\ f \in Alive /\ Alive \subseteq Fibers
  BY DEF Stacks, StacksHaveOneOwner, Alive
<1>2. /\ stack' = [stack EXCEPT ![f] = 0] /\ freed' = Append(freed, stack[f])
  BY DEF Discard
<1>3. /\ stack' \in [Fibers -> 0 .. allocated] /\ stack'[f] = 0
      /\ \A g \in Fibers : g # f => stack'[g] = stack[g]
      /\ freed' \in Seq(1 .. allocated) /\ Len(freed') = Len(freed) + 1 /\ Len(freed) \in Nat
  BY <1>1, <1>2
<1>4. Alive' = Alive \ {f}
  BY <1>3 DEF Alive
<1>5. stack[f] \notin ToSet(freed) /\ \A g \in Alive : stack[g] \notin ToSet(freed) /\ (stack[g] = stack[f] => g = f)
  BY <1>1 DEF Stacks, StacksHaveOneOwner
<1>6. ToSet(freed') = ToSet(freed) \cup {stack[f]} /\ IsInjective(freed')
  BY ONLY <1>1, <1>2, <1>5, ToSetAppend, InjectiveAppend
<1>7. \A g \in Alive' : stack'[g] = stack[g] /\ stack'[g] \notin ToSet(freed') /\ g \in Alive
  BY ONLY <1>1, <1>3, <1>4, <1>5, <1>6
<1>8. Cardinality(Alive') = Cardinality(Alive) - 1
  BY <1>1, <1>4, AliveAreFinite, FS_RemoveElement
<1>9. allocated' = Cardinality(Alive') + Len(freed')
  BY <1>1, <1>3, <1>8, AliveAreFinite
<1>10. \A g, h \in Alive' : stack'[g] = stack'[h] => g = h
  BY <1>7 DEF Stacks, StacksHaveOneOwner
<1>11. StacksHaveOneOwner'
  BY ONLY <1>6, <1>7, <1>9, <1>10 DEF StacksHaveOneOwner
<1> QED
  BY ONLY <1>1, <1>3, <1>11, allocated' = allocated DEF Stacks

\* A fiber is submitted; the closed pool discards it.
LEMMA Scheduled ==
    ASSUME Stacks, NEW f \in Fibers, stack[f] # 0, Schedule(f), allocated' = allocated, closed \in BOOLEAN
    PROVE  /\ Stacks' /\ \A g \in Fibers : g # f => stack'[g] = stack[g]
           /\ closed = TRUE => stack'[f] = 0 /\ ready' = ready
           /\ closed = FALSE => stack' = stack /\ ready' = Append(ready, f)
<1>1. CASE closed = TRUE
  <2>1. Discard(f) /\ ready' = ready
    BY <1>1 DEF Schedule
  <2> QED
    BY <1>1, <2>1, Discarded
<1>2. CASE closed = FALSE
  <2>1. stack' = stack /\ freed' = freed /\ ready' = Append(ready, f)
    BY <1>2 DEF Schedule
  <2>2. Stacks'
    BY <2>1 DEF Stacks, StacksHaveOneOwner, Alive
  <2> QED
    BY <1>2, <2>1, <2>2
<1> QED
  BY <1>1, <1>2

\* A fiber gets the stack that was freed last, or a new one.
LEMMA Allocated ==
    ASSUME Stacks, NEW f \in Fibers, stack[f] = 0, Allocate(f)
    PROVE  Stacks' /\ stack'[f] # 0 /\ \A g \in Fibers : g # f => stack'[g] = stack[g]
<1>1. /\ allocated \in Nat /\ stack \in [Fibers -> 0 .. allocated] /\ freed \in Seq(1 .. allocated)
      /\ IsInjective(freed) /\ allocated = Cardinality(Alive) + Len(freed)
      /\ f \notin Alive /\ Alive \subseteq Fibers
      /\ \A g \in Fibers : g \in Alive <=> stack[g] # 0
      /\ \A g, h \in Alive : stack[g] = stack[h] => g = h
      /\ \A g \in Alive : stack[g] \notin ToSet(freed)
  BY DEF Stacks, StacksHaveOneOwner, Alive
<1> DEFINE n == IF freed = <<>> THEN allocated + 1 ELSE Last(freed)
<1>2. /\ stack' = [stack EXCEPT ![f] = n]
      /\ allocated' \in Nat /\ n \in 1 .. allocated' /\ allocated <= allocated'
      /\ freed' \in Seq(1 .. allocated') /\ IsInjective(freed')
      /\ ToSet(freed') \subseteq ToSet(freed) /\ n \notin ToSet(freed')
      /\ \A g \in Alive : stack[g] # n
      /\ allocated' = Cardinality(Alive) + 1 + Len(freed')
  <2>1. CASE freed = <<>>
    <3>1. stack' = [stack EXCEPT ![f] = allocated + 1] /\ allocated' = allocated + 1 /\ freed' = <<>> /\ n = allocated + 1
      BY <2>1 DEF Allocate
    <3>2. ToSet(<<>>) = {} /\ IsInjective(<<>>) /\ Len(<<>>) = 0
      BY DEF ToSet, IsInjective
    <3>3. \A g \in Alive : stack[g] # allocated + 1
      BY <1>1
    <3> HIDE DEF n
    <3> QED
      BY <1>1, <2>1, <3>1, <3>2, <3>3, AliveAreFinite
  <2>2. CASE freed # <<>>
    <3>1. stack' = [stack EXCEPT ![f] = Last(freed)] /\ allocated' = allocated /\ freed' = Front(freed) /\ n = Last(freed)
      BY <2>2 DEF Allocate
    <3>2. /\ freed' \in Seq(1 .. allocated) /\ IsInjective(freed') /\ Len(freed') = Len(freed) - 1
          /\ n \in ToSet(freed) /\ ToSet(freed') = ToSet(freed) \ {n}
      BY ONLY <1>1, <2>2, <3>1, LastOfInjective
    <3>3. ToSet(freed) \subseteq 1 .. allocated /\ Len(freed) \in Nat
      BY <1>1, ToSetIsImage
    <3>4. \A g \in Alive : stack[g] # n
      BY ONLY <1>1, <3>2
    <3> HIDE DEF n
    <3> QED
      BY <1>1, <3>1, <3>2, <3>3, <3>4, AliveAreFinite
  <2> QED
    BY <2>1, <2>2
<1> HIDE DEF n
<1>3. /\ stack' \in [Fibers -> 0 .. allocated'] /\ stack'[f] = n /\ n # 0
      /\ \A g \in Fibers : g # f => stack'[g] = stack[g]
  BY <1>1, <1>2
<1>4. Alive' = Alive \cup {f}
  BY <1>1, <1>3 DEF Alive
<1>5. Cardinality(Alive') = Cardinality(Alive) + 1
  BY <1>1, <1>4, AliveAreFinite, FS_AddElement
<1>6. \A g \in Alive' : g = f \/ (g \in Alive /\ g # f /\ stack'[g] = stack[g])
  BY ONLY <1>1, <1>3, <1>4
<1>7. \A g, h \in Alive' : stack'[g] = stack'[h] => g = h
  BY ONLY <1>1, <1>2, <1>3, <1>6
<1>8. \A g \in Alive' : stack'[g] \notin ToSet(freed')
  BY ONLY <1>1, <1>2, <1>3, <1>6
<1>9. allocated' = Cardinality(Alive') + Len(freed')
  BY <1>2, <1>5, AliveAreFinite
<1>10. StacksHaveOneOwner'
  BY ONLY <1>2, <1>7, <1>8, <1>9 DEF StacksHaveOneOwner
<1> QED
  BY ONLY <1>2, <1>3, <1>10 DEF Stacks

LEMMA AllocatedInVain ==
    ASSUME Stacks, AllocateInVain
    PROVE  Stacks' /\ stack' = stack
<1>1. CASE freed # <<>>
  <2>1. freed' = freed /\ allocated' = allocated /\ stack' = stack
    BY <1>1 DEF AllocateInVain
  <2> QED
    BY <2>1 DEF Stacks, StacksHaveOneOwner, Alive
<1>2. CASE freed = <<>>
  <2>1. freed' = <<allocated + 1>> /\ allocated' = allocated + 1 /\ stack' = stack
    BY <1>2 DEF AllocateInVain
  <2>2. /\ allocated \in Nat /\ stack \in [Fibers -> 0 .. allocated] /\ allocated = Cardinality(Alive) + Len(freed)
        /\ Alive \subseteq Fibers /\ \A g, h \in Alive : stack[g] = stack[h] => g = h
    BY DEF Stacks, StacksHaveOneOwner, Alive
  <2>3. Alive' = Alive
    BY <2>1 DEF Alive
  <2>4. ToSet(freed') = {allocated + 1} /\ IsInjective(freed') /\ Len(freed') = 1 /\ Len(freed) = 0
    BY <1>2, <2>1 DEF ToSet, IsInjective
  <2>5. /\ allocated' \in Nat /\ stack' \in [Fibers -> 0 .. allocated'] /\ freed' \in Seq(1 .. allocated')
        /\ allocated' = Cardinality(Alive) + Len(freed')
    BY <2>1, <2>2, <2>4, AliveAreFinite
  <2>6. \A g \in Alive : stack'[g] \notin ToSet(freed')
    BY <2>1, <2>2, <2>4
  <2>7. StacksHaveOneOwner'
    BY ONLY <2>1, <2>2, <2>3, <2>4, <2>5, <2>6 DEF StacksHaveOneOwner
  <2> QED
    BY ONLY <2>1, <2>5, <2>7 DEF Stacks
<1> QED
  BY <1>1, <1>2

\* A function on 1 .. n is a sequence of n elements.
LEMMA FunctionIsSeq == ASSUME NEW S, NEW n \in Nat, NEW q \in [1 .. n -> S]
                       PROVE  q \in Seq(S) /\ Len(q) = n /\ DOMAIN q = 1 .. n
<1>1. q \in Seq(S)
  BY ONLY SeqDef, n \in Nat, q \in [1 .. n -> S]
<1>2. DOMAIN q = 1 .. n
  OBVIOUS
<1>3. Len(q) \in Nat /\ DOMAIN q = 1 .. Len(q)
  BY <1>1
<1>4. Len(q) = n
  BY ONLY <1>2, <1>3, n \in Nat
<1> QED
  BY <1>1, <1>2, <1>4

\* Stop discards all the fibers that are ready.
LEMMA Stopped ==
    ASSUME Stacks, ready \in Seq(Fibers), IsInjective(ready), ToSet(ready) \subseteq Alive, Stop
    PROVE  Stacks' /\ \A g \in Fibers : stack'[g] = IF g \in ToSet(ready) THEN 0 ELSE stack[g]
<1> DEFINE discarded == [i \in DOMAIN ready |-> stack[ready[i]]]
<1>1. /\ allocated \in Nat /\ stack \in [Fibers -> 0 .. allocated] /\ freed \in Seq(1 .. allocated)
      /\ IsInjective(freed) /\ allocated = Cardinality(Alive) + Len(freed)
      /\ Alive \subseteq Fibers
      /\ \A g \in Fibers : g \in Alive <=> stack[g] # 0
      /\ \A g, h \in Alive : stack[g] = stack[h] => g = h
      /\ \A g \in Alive : stack[g] \notin ToSet(freed) /\ stack[g] \in 1 .. allocated
  BY DEF Stacks, StacksHaveOneOwner, Alive
<1>2. /\ stack' = [f \in Fibers |-> IF f \in ToSet(ready) THEN 0 ELSE stack[f]]
      /\ freed' = freed \o discarded /\ allocated' = allocated
  BY DEF Stop
<1>3. DOMAIN ready = 1 .. Len(ready) /\ Len(ready) \in Nat /\ ToSet(ready) = {ready[i] : i \in 1 .. Len(ready)}
  BY ToSetIsImage
<1>4. /\ discarded \in [1 .. Len(ready) -> 1 .. allocated]
      /\ \A i \in 1 .. Len(ready) : ready[i] \in Alive /\ discarded[i] = stack[ready[i]]
  BY <1>1, <1>3
<1> HIDE DEF discarded
<1>5. discarded \in Seq(1 .. allocated) /\ Len(discarded) = Len(ready) /\ DOMAIN discarded = 1 .. Len(ready)
  BY ONLY <1>3, <1>4, FunctionIsSeq
<1>6. ToSet(discarded) = {discarded[i] : i \in 1 .. Len(ready)}
  BY <1>5, ToSetIsImage
<1>7. IsInjective(discarded)
  <2>1. ASSUME NEW i \in 1 .. Len(ready), NEW j \in 1 .. Len(ready), discarded[i] = discarded[j] PROVE i = j
    <3>1. ready[i] \in Alive /\ ready[j] \in Alive /\ stack[ready[i]] = stack[ready[j]]
      BY ONLY <1>4, <2>1
    <3>2. ready[i] = ready[j]
      BY ONLY <1>1, <3>1
    <3> QED
      BY ONLY <1>3, <3>2, IsInjective(ready), i \in 1 .. Len(ready), j \in 1 .. Len(ready) DEF IsInjective
  <2> QED
    BY <1>5, <2>1 DEF IsInjective
<1>8. ToSet(freed) \cap ToSet(discarded) = {}
  BY <1>1, <1>4, <1>6
<1>9. /\ freed' \in Seq(1 .. allocated') /\ IsInjective(freed') /\ Len(freed') = Len(freed) + Len(ready)
      /\ ToSet(freed') = ToSet(freed) \cup ToSet(discarded)
  <2>1. freed \o discarded \in Seq(1 .. allocated) /\ Len(freed \o discarded) = Len(freed) + Len(discarded)
    <3>1. freed \in Seq(1 .. allocated) /\ discarded \in Seq(1 .. allocated)
      BY <1>1, <1>5
    <3> QED
      BY ONLY <3>1, ConcatFacts
  <2>2. IsInjective(freed \o discarded)
    BY ONLY <1>1, <1>5, <1>7, <1>8, ConcatInjective
  <2>3. ToSet(freed \o discarded) = ToSet(freed) \cup ToSet(discarded)
    BY ONLY <1>1, <1>5, ToSetConcat
  <2> QED
    BY ONLY <1>2, <1>5, <2>1, <2>2, <2>3
<1>10. Alive' = Alive \ ToSet(ready)
  BY <1>1, <1>2 DEF Alive
<1>11. Cardinality(Alive') = Cardinality(Alive) - Len(ready)
  <2>1. Cardinality(Alive \ ToSet(ready)) = Cardinality(Alive) - Cardinality(Alive \cap ToSet(ready))
    BY AliveAreFinite, FS_Difference
  <2>2. Alive \cap ToSet(ready) = ToSet(ready)
    OBVIOUS
  <2>3. Cardinality(ToSet(ready)) = Len(ready)
    BY SizeOfInjective
  <2> QED
    BY <1>10, <2>1, <2>2, <2>3
<1>12. allocated' = Cardinality(Alive') + Len(freed')
  BY <1>1, <1>2, <1>3, <1>9, <1>11, AliveAreFinite
<1>13. \A g \in Alive' : g \in Alive /\ g \notin ToSet(ready) /\ stack'[g] = stack[g]
  BY <1>1, <1>2, <1>10
<1>14. \A g \in Alive' : stack'[g] \notin ToSet(freed')
  <2>1. ASSUME NEW g \in Alive', stack[g] \in ToSet(discarded) PROVE FALSE
    <3>1. PICK i \in 1 .. Len(ready) : stack[g] = discarded[i]
      BY <1>6, <2>1
    <3>2. g = ready[i]
      BY ONLY <1>1, <1>4, <1>13, <3>1, <2>1
    <3> QED
      BY <1>3, <1>13, <2>1, <3>2
  <2> QED
    BY <1>1, <1>9, <1>13, <2>1
<1>15. \A g, h \in Alive' : stack'[g] = stack'[h] => g = h
  BY ONLY <1>1, <1>13
<1>16. StacksHaveOneOwner'
  BY ONLY <1>9, <1>12, <1>14, <1>15 DEF StacksHaveOneOwner
<1>17. stack' \in [Fibers -> 0 .. allocated'] /\ \A g \in Fibers : stack'[g] = IF g \in ToSet(ready) THEN 0 ELSE stack[g]
  BY <1>1, <1>2
<1> QED
  BY ONLY <1>1, <1>2, <1>9, <1>16, <1>17 DEF Stacks

-----------------------------------------------------------------------------
(* The futex's calls *)

\* An operation, the first, becomes another one.
LEMMA ShapeSwapped ==
    ASSUME NEW s \in Seq(Operations), s # <<>>, WellShaped(s), NEW o \in Operations,
           ShapedAt(<<o>> \o Tail(s), 1)
    PROVE  WellShaped(<<o>> \o Tail(s)) /\ <<o>> \o Tail(s) \in Seq(Operations)
<1> DEFINE r == <<o>> \o Tail(s)
<1>0. <<o>> \in Seq(Operations) /\ Len(<<o>>) = 1
  OBVIOUS
<1>1. PICK n \in Nat \ {0} :
      /\ n = Len(s) /\ r \in Seq(Operations) /\ Len(r) = n
      /\ \A i \in 1 .. n - 1 : r[1 + i] = s[i + 1]
  BY <1>0, Replaced
<1> HIDE DEF r
<1>2. ASSUME NEW i \in 1 .. n, i # 1 PROVE ShapedAt(r, i)
  <2>1. PICK j \in 1 .. n - 1 : i = j + 1 /\ i = 1 + j
    <3>1. i - 1 \in 1 .. n - 1 /\ i = (i - 1) + 1 /\ i = 1 + (i - 1)
      BY <1>2
    <3> QED
      BY ONLY <3>1
  <2>2. r[i] = s[i]
    BY ONLY <1>1, <2>1
  <2>3. ASSUME i + 1 \in 1 .. n PROVE r[i + 1] = s[i + 1]
    <3>1. i \in 1 .. n - 1 /\ i + 1 = 1 + i
      BY <2>3
    <3> QED
      BY ONLY <1>1, <3>1
  <2>4. ShapedAt(s, i)
    BY ONLY <1>1, <1>2, WellShaped(s) DEF WellShaped
  <2> QED
    BY ONLY <1>1, <1>2, <2>2, <2>3, <2>4 DEF ShapedAt
<1>3. WellShaped(r) /\ r \in Seq(Operations)
  <2>1. ShapedAt(r, 1)
    BY DEF r
  <2> QED
    BY ONLY <1>1, <1>2, <2>1 DEF WellShaped
<1> QED
  BY <1>3 DEF r

LEMMA ReleaseStep ==
    ASSUME IInv, UNCHANGED <<poolVars, syncVars>>, NEW w \in Workers, NEW f \in Fibers, Release(w, f)
    PROVE  IInv'
<1>0. Core /\ CoreTypes /\ SyncTypes
  BY DEF IInv, Core
<1> DEFINE ops == <<>>
<1>1. /\ todo[f] \in Seq(Operations) /\ todo[f] # <<>> /\ Head(todo[f]) \in Operations
      /\ Head(todo[f])[1] = "release"
  BY <1>0 DEF CoreTypes, Release, Doing
<1>2. Head(todo[f])[2] \in Futexes
  BY <1>1, OperationsAre
<1>p. Plain(ops) /\ Len(ops) <= 2 /\ \A i \in 1 .. Len(ops) : ops[i][1] \notin OfMutex
  BY PlainNothing
<1>3. Local(w, f, ops)
  BY <1>1 DEF Local, Release, Doing, Then, schedulerVars, stackVars, poolVars
<1> HIDE DEF ops
<1>4. old' = old /\ access' = access /\ isDone' = isDone
  BY DEF Release, syncVars, condVars, groupVars
<1>5. SyncTypes'
  <2>1. spin' = [spin EXCEPT ![Head(todo[f])[2]] = Null]
    BY DEF Release, SpinUnlock
  <2> QED
    BY <1>0, <1>2, <1>4, <2>1 DEF SyncTypes, syncVars, condVars, groupVars, poolVars
<1> QED
  BY ONLY <1>1, <1>3, <1>4, <1>5, <1>p, QuietStep, IInv, w \in Workers, f \in Fibers

LEMMA UnparkStep ==
    ASSUME IInv, UNCHANGED <<poolVars, syncVars>>, NEW w \in Workers, NEW f \in Fibers, Unpark(w, f)
    PROVE  IInv'
<1>0. Core /\ CoreTypes /\ SyncTypes /\ Placed /\ Shapes /\ Locking
  BY DEF IInv, Core
<1> DEFINE ops == <<>>
<1>1. /\ todo[f] \in Seq(Operations) /\ todo[f] # <<>> /\ Head(todo[f]) \in Operations
      /\ Head(todo[f])[1] = "unpark" /\ Head(todo[f]) = todo[f][1] /\ 1 \in 1 .. Len(todo[f])
      /\ at[w] = "fiber" /\ current[w] = f
  BY <1>0 DEF CoreTypes, Unpark, Doing, On
<1>2. Head(todo[f])[2] \in Futexes
  BY <1>1, OperationsAre
<1>3. queue' = queue
  <2>1. queue' = [queue EXCEPT ![Head(todo[f])[2]] = Unlinked(@, f)] /\ queue \in [Futexes -> Seq(Fibers)]
    BY <1>0 DEF Unpark, CoreTypes
  <2>2. f \notin ToSet(queue[Head(todo[f])[2]])
    BY <1>0, <1>1, <1>2, Alones
  <2>3. Unlinked(queue[Head(todo[f])[2]], f) = queue[Head(todo[f])[2]]
    BY <2>2 DEF Unlinked
  <2> QED
    BY ONLY <1>2, <2>1, <2>3
<1>p. Plain(ops) /\ ops \in Seq(Operations) /\ Len(ops) <= 2 /\ \A i \in 1 .. Len(ops) : ops[i][1] \notin OfMutex
  BY PlainNothing DEF Plain
<1>4. Local(w, f, ops)
  BY <1>1, <1>3 DEF Local, Unpark, Doing, Then, schedulerVars, stackVars, poolVars
<1> HIDE DEF ops
<1>5. old' = [old EXCEPT ![f] = Null] /\ access' = access /\ isDone' = isDone /\ spin' = spin
  BY DEF Unpark, syncVars, condVars, groupVars
<1>6. SyncTypes' /\ \A g \in Fibers \ {f} : old'[g] = old[g]
  BY <1>0, <1>5 DEF SyncTypes, syncVars, condVars, groupVars, poolVars
<1>7. /\ todo'[f] = ops \o Tail(todo[f]) /\ \A g \in Fibers : g # f => todo'[g] = todo[g]
      /\ stack' = stack /\ stack[f] # 0 /\ f \notin ToSet(queue["mutex"])
  BY <1>0, <1>4, LocalFacts, FutexesAre
<1>8. Locking'
  <2>0. WellLocked(todo[f])
    BY <1>0 DEF Locking
  <2>1. WellLocked(todo'[f]) /\ (UnlocksNext(todo'[f], 0) <=> UnlocksNext(todo[f], 0))
    BY <1>1, <1>7, <1>p, <2>0, NeutralKept
  <2> QED
    BY ONLY <1>0, <1>5, <1>7, <2>1, LockingKept, f \in Fibers
<1>9. MutexWaits' => MutexWaker(f)' \/ (MutexWaits /\ ~ MutexWaker(f))
  <2>1. CASE Head(todo[f])[2] = "mutex"
    <3>1. ShapedAt(todo[f], 1)
      BY <1>0, <1>1 DEF Shapes, WellShaped
    <3>2. 1 + 1 \in 1 .. Len(todo[f]) /\ todo[f][1 + 1][1] = "lock"
      BY ONLY <1>1, <2>1, <3>1 DEF ShapedAt
    <3>3. 2 \in 1 .. Len(todo[f]) /\ todo[f][2][1] = "lock"
      BY <3>2
    <3>4. todo'[f] # <<>> /\ Head(todo'[f]) = todo[f][2]
      BY <1>1, <1>7, <3>3, HeadOfTail DEF ops
    <3>5. MutexWaker(f)'
      BY ONLY <1>3, <1>7, <3>3, <3>4 DEF MutexWaker
    <3> QED
      BY <3>5
  <2>2. CASE Head(todo[f])[2] # "mutex"
    BY ONLY <1>1, <1>3, <1>5, <2>2 DEF MutexWaits, MutexWaker
  <2> QED
    BY <2>1, <2>2
<1>10. GroupWaits' => GroupWaits /\ ~ GroupWaker(f)
  BY ONLY <1>1, <1>3, <1>5 DEF GroupWaits, GroupWaker
<1> QED
  BY ONLY <1>4, <1>6, <1>8, <1>9, <1>10, <1>p, LoudStep, IInv, w \in Workers, f \in Fibers

\* Nobody waits: only the lock is released.
LEMMA WakeNobody ==
    ASSUME IInv, UNCHANGED <<poolVars, syncVars>>, NEW w \in Workers, NEW f \in Fibers, Wake(w, f),
           queue[Head(todo[f])[2]] = <<>>
    PROVE  IInv'
<1>0. Core /\ CoreTypes /\ SyncTypes /\ Locking
  BY DEF IInv, Core
<1> DEFINE x == Head(todo[f])[2]
           ops == <<<<"release", x>>>>
<1>1. /\ todo[f] \in Seq(Operations) /\ todo[f] # <<>> /\ Head(todo[f]) \in Operations
      /\ Head(todo[f])[1] = "wake"
  BY <1>0 DEF CoreTypes, Wake, Doing
<1>2. x \in Futexes
  BY <1>1, OperationsAre
<1>p. /\ Plain(ops) /\ ops \in Seq(Operations) /\ Len(ops) <= 2
      /\ \A i \in 1 .. Len(ops) : ops[i][1] \notin OfMutex
  <2>1. Len(ops) = 1 /\ ops[1][1] = "release" /\ \A i \in 1 .. 1 : i = 1
    OBVIOUS
  <2>2. Plain(ops)
    BY <1>2, PlainOnes
  <2> QED
    BY <2>1, <2>2 DEF Plain, OfMutex
<1>3. queue' = queue /\ Then(f, ops)
  BY DEF Wake
<1>4. Local(w, f, ops)
  BY <1>1, <1>3 DEF Local, Wake, Doing, Then, schedulerVars, stackVars, poolVars
<1> HIDE DEF ops
<1>5. old' = old /\ access' = access /\ isDone' = isDone /\ spin' = [spin EXCEPT ![x] = w]
  BY DEF Wake, SpinLock, syncVars, condVars, groupVars
<1>6. SyncTypes' /\ \A g \in Fibers \ {f} : old'[g] = old[g]
  BY <1>0, <1>2, <1>5 DEF SyncTypes, syncVars, condVars, groupVars, poolVars
<1>7. /\ todo'[f] = ops \o Tail(todo[f]) /\ \A g \in Fibers : g # f => todo'[g] = todo[g]
  BY <1>0, <1>4, LocalFacts
<1>8. Locking'
  <2>0. WellLocked(todo[f])
    BY <1>0 DEF Locking
  <2>1. WellLocked(todo'[f]) /\ (UnlocksNext(todo'[f], 0) <=> UnlocksNext(todo[f], 0))
    BY <1>1, <1>7, <1>p, <2>0, NeutralKept
  <2> QED
    BY ONLY <1>0, <1>5, <1>7, <2>1, LockingKept, f \in Fibers
<1>9. /\ MutexWaits' => MutexWaits /\ ~ MutexWaker(f)
      /\ GroupWaits' => GroupWaits /\ ~ GroupWaker(f)
  <2>1. queue[x] = <<>>
    OBVIOUS
  <2> QED
    BY ONLY <1>1, <1>3, <1>5, <2>1 DEF MutexWaits, MutexWaker, GroupWaits, GroupWaker
<1> QED
  BY ONLY <1>4, <1>6, <1>8, <1>9, <1>p, LoudStep, IInv, w \in Workers, f \in Fibers

-----------------------------------------------------------------------------
(* Waking *)

\* f's first operation becomes another one.
LEMMA OperationSwapped ==
    ASSUME CoreTypes, Shapes, NEW f \in Fibers, todo[f] # <<>>, NEW o \in Operations,
           ShapedAt(<<o>> \o Tail(todo[f]), 1), Then(f, <<o>>)
    PROVE  /\ todo' \in [Fibers -> Seq(Operations)] /\ Shapes'
           /\ todo'[f] # <<>> /\ Head(todo'[f]) = o /\ todo'[f] = <<o>> \o Tail(todo[f])
           /\ todo' = [todo EXCEPT ![f] = <<o>> \o Tail(@)]
           /\ \A g \in Fibers : g # f => todo'[g] = todo[g]
<1>1. todo \in [Fibers -> Seq(Operations)] /\ todo[f] \in Seq(Operations) /\ WellShaped(todo[f])
  BY DEF CoreTypes, Shapes
<1>2. /\ todo' = [todo EXCEPT ![f] = <<o>> \o Tail(@)] /\ todo'[f] = <<o>> \o Tail(todo[f])
      /\ \A g \in Fibers : g # f => todo'[g] = todo[g]
  BY <1>1 DEF Then
<1>3. WellShaped(todo'[f]) /\ todo'[f] \in Seq(Operations)
  BY <1>1, <1>2, ShapeSwapped
<1>4. <<o>> \in Seq(Operations) /\ <<o>> # <<>> /\ <<o>>[1] = o
  OBVIOUS
<1>5. todo'[f] # <<>> /\ Head(todo'[f]) = o
  BY ONLY <1>1, <1>2, <1>4, HeadOfThen, todo[f] # <<>>
<1>6. todo' \in [Fibers -> Seq(Operations)]
  BY ONLY <1>1, <1>2, <1>3, f \in Fibers
<1>7. Shapes'
  <2>1. ASSUME NEW g \in Fibers PROVE WellShaped(todo'[g])
    BY ONLY <1>2, <1>3, Shapes, g \in Fibers DEF Shapes
  <2> QED
    BY ONLY <2>1 DEF Shapes
<1> QED
  BY ONLY <1>2, <1>5, <1>6, <1>7

\* The operation of the fiber that holds another one in its hands.
LEMMA InHand ==
    ASSUME NEW x \in Futexes, NEW all \in BOOLEAN, NEW n \in Fibers, NEW s, x = "group" => all = TRUE
    PROVE  LET o == <<"awake", x, all, n>>
           IN  /\ o \in Operations /\ o[1] = "awake" /\ o[2] = x /\ o[3] = all /\ o[4] = n
               /\ ShapedAt(<<o>> \o Tail(s), 1) \/ s \notin Seq(Operations) \/ s = <<>>
<1> DEFINE o == <<"awake", x, all, n>>
           r == <<o>> \o Tail(s)
<1>1. o \in Operations /\ o[1] = "awake" /\ o[2] = x /\ o[3] = all /\ o[4] = n
  BY DEF Operations, Parts
<1> HIDE DEF o
<1>2. ASSUME s \in Seq(Operations), s # <<>> PROVE ShapedAt(r, 1)
  <2>1. <<o>> \in Seq(Operations) /\ Len(<<o>>) = 1 /\ <<o>>[1] = o /\ 1 \in 1 .. 1
    BY <1>1
  <2>2. r[1] = o
    BY <1>2, <2>1, Replaced
  <2> QED
    BY ONLY <1>1, <2>2, x = "group" => all = TRUE DEF ShapedAt
<1> QED
  BY <1>1, <1>2 DEF o

LEMMA LastInHand ==
    ASSUME NEW x \in Futexes, NEW s \in Seq(Operations), s # <<>>
    PROVE  LET o == <<"release", x>>
           IN  o \in Operations /\ o[1] = "release" /\ o[2] = x /\ ShapedAt(<<o>> \o Tail(s), 1)
<1> DEFINE o == <<"release", x>>
           r == <<o>> \o Tail(s)
<1>1. o \in Operations /\ o[1] = "release" /\ o[2] = x
  BY DEF Operations, Parts
<1> HIDE DEF o
<1>2. <<o>> \in Seq(Operations) /\ Len(<<o>>) = 1 /\ <<o>>[1] = o /\ 1 \in 1 .. 1
  BY <1>1
<1>3. r[1] = o
  BY <1>2, Replaced
<1>4. ShapedAt(r, 1)
  BY ONLY <1>1, <1>3 DEF ShapedAt
<1> QED
  BY <1>1, <1>4 DEF o

\* f's operation is another part of the same call, which leaves the mutex alone.
LEMMA LockingSwapped ==
    ASSUME Locking, CoreTypes, NEW f \in Fibers, todo[f] # <<>>, Head(todo[f])[1] \notin {"lock", "unlock"},
           NEW o \in Operations, o[1] \notin OfMutex,
           todo'[f] = <<o>> \o Tail(todo[f]), \A g \in Fibers : g # f => todo'[g] = todo[g],
           access' = access
    PROVE  Locking'
<1>0. WellLocked(todo[f]) /\ todo[f] \in Seq(Operations)
  BY DEF Locking, CoreTypes
<1>1. /\ <<o>> \in Seq(Operations) /\ Len(<<o>>) <= 2 /\ Len(<<o>>) = 1 /\ <<o>>[1] = o
      /\ \A i \in 1 .. 1 : i = 1
  OBVIOUS
<1>2. WellLocked(todo'[f]) /\ (UnlocksNext(todo'[f], 0) <=> UnlocksNext(todo[f], 0))
  <2>1. \A i \in 1 .. Len(<<o>>) : <<o>>[i][1] \notin OfMutex
    BY <1>1
  <2>2. /\ WellLocked(<<o>> \o Tail(todo[f]))
        /\ UnlocksNext(<<o>> \o Tail(todo[f]), 0) <=> UnlocksNext(todo[f], 0)
    BY ONLY <1>0, <1>1, <2>1, NeutralKept, todo[f] # <<>>, Head(todo[f])[1] \notin {"lock", "unlock"}
  <2> QED
    BY ONLY <2>2, todo'[f] = <<o>> \o Tail(todo[f])
<1> QED
  BY ONLY <1>2, LockingKept, Locking, f \in Fibers, access' = access, \A g \in Fibers : g # f => todo'[g] = todo[g]

\* The waiters, when f's operation changes and the queues lose some of them.
LEMMA WaitersSwapped ==
    ASSUME Waiters, NEW f \in Fibers, \A g \in Fibers : g # f => todo'[g] = todo[g],
           \A g \in Fibers : g # f => old'[g] = old[g],
           At(f, "unpark", "mutex")' => old'[f] = TRUE, At(f, "unpark", "group")' => old'[f] = FALSE,
           \A x \in Futexes : ToSet(queue'[x]) \subseteq ToSet(queue[x]),
           \A x \in Futexes : f \notin ToSet(queue[x]), \A h \in Fibers : ~ Holds(h, f),
           todo'[f] # <<>> /\ Head(todo'[f])[1] = "awake" =>
              Head(todo'[f])[4] # f /\ At(Head(todo'[f])[4], "unpark", Head(todo'[f])[2])
    PROVE  Waiters'
<1>1. SUFFICES ASSUME NEW g \in Fibers
      PROVE  /\ \A x \in Futexes : g \in ToSet(queue'[x]) => At(g, "unpark", x)'
             /\ \A h \in Fibers : Here("waker", h, g)' => At(g, "unpark", Head(todo[h])[2])'
             /\ At(g, "unpark", "mutex")' => old'[g] = TRUE
             /\ At(g, "unpark", "group")' => old'[g] = FALSE
  BY DEF Waiters
<1>2. /\ \A x \in Futexes : g \in ToSet(queue[x]) => At(g, "unpark", x)
      /\ \A h \in Fibers : Here("waker", h, g) => At(g, "unpark", Head(todo[h])[2])
      /\ At(g, "unpark", "mutex") => old[g] = TRUE
      /\ At(g, "unpark", "group") => old[g] = FALSE
  BY DEF Waiters
<1>3. CASE g = f
  <2>1. \A x \in Futexes : g \notin ToSet(queue'[x])
    BY <1>3
  <2>2. ASSUME NEW h \in Fibers, Here("waker", h, g)' PROVE FALSE
    <3>1. CASE h = f
      BY <1>3, <2>2, <3>1 DEF Here
    <3>2. CASE h # f
      BY <1>3, <2>2, <3>2 DEF Here, Holds
    <3> QED
      BY <3>1, <3>2
  <2> QED
    BY <1>3, <2>1, <2>2
<1>4. CASE g # f
  <2>1. \A x : At(g, "unpark", x)' <=> At(g, "unpark", x)
    BY <1>4 DEF At
  <2>2. ASSUME NEW h \in Fibers, Here("waker", h, g)' PROVE At(g, "unpark", Head(todo'[h])[2])
    <3>1. CASE h = f
      <4>1. todo'[f] # <<>> /\ Head(todo'[f])[1] = "awake" /\ Head(todo'[f])[4] = g
        BY ONLY <2>2, <3>1 DEF Here
      <4> QED
        BY <3>1, <4>1
    <3>2. CASE h # f
      <4>1. todo'[h] = todo[h]
        BY <3>2
      <4>2. Here("waker", h, g)
        BY ONLY <2>2, <4>1 DEF Here
      <4> QED
        BY ONLY <1>2, <4>1, <4>2, h \in Fibers
    <3> QED
      BY <3>1, <3>2
  <2>3. \A h \in Fibers : Here("waker", h, g)' => At(g, "unpark", Head(todo[h])[2])'
    BY ONLY <2>1, <2>2
  <2>4. \A x \in Futexes : g \in ToSet(queue'[x]) => At(g, "unpark", x)'
    BY <1>2, <2>1
  <2> QED
    BY <1>2, <2>1, <2>3, <2>4
<1> QED
  BY <1>3, <1>4

\* The first awaiter comes to the hands of the fiber that wakes it.
LEMMA WakeSomebody ==
    ASSUME IInv, UNCHANGED <<poolVars, syncVars>>, NEW w \in Workers, NEW f \in Fibers, Wake(w, f),
           queue[Head(todo[f])[2]] # <<>>
    PROVE  IInv'
<1>0. Core /\ CoreTypes /\ SyncTypes /\ Locking /\ Shapes /\ Placed /\ QueuesOnce /\ Busy /\ Waiters /\ GoOnce
  BY DEF IInv, Core
<1>1. /\ todo[f] \in Seq(Operations) /\ todo[f] # <<>> /\ Head(todo[f]) \in Operations
      /\ Head(todo[f])[1] = "wake" /\ Head(todo[f]) = todo[f][1] /\ 1 \in 1 .. Len(todo[f])
      /\ at[w] = "fiber" /\ current[w] = f
  BY <1>0 DEF CoreTypes, Wake, Doing, On
<1>2. PICK x \in Futexes, all \in BOOLEAN : x = Head(todo[f])[2] /\ all = Head(todo[f])[3]
  BY <1>1, OperationsAre
<1>3. queue \in [Futexes -> Seq(Fibers)] /\ queue[x] \in Seq(Fibers) /\ queue[x] # <<>>
  BY <1>0, <1>2 DEF CoreTypes
<1>4. PICK n \in Fibers : n = Head(queue[x]) /\ n \in ToSet(queue[x])
  BY <1>3, <1>0, TailOfInjective DEF QueuesOnce
<1> DEFINE o == <<"awake", x, all, n>>
<1>5. queue' = [queue EXCEPT ![x] = Tail(@)] /\ Then(f, <<o>>) /\ spin' = [spin EXCEPT ![x] = w]
  BY <1>2, <1>3, <1>4 DEF Wake, SpinLock
<1>6. /\ closed' = closed /\ stops' = stops /\ ready' = ready /\ current' = current /\ at' = at /\ awaiter' = awaiter
      /\ stack' = stack /\ freed' = freed /\ allocated' = allocated /\ old' = old
      /\ access' = access /\ isDone' = isDone
  BY DEF Wake, schedulerVars, stackVars, poolVars, syncVars, condVars, groupVars
<1>7. x = "group" => all = TRUE
  <2>1. ShapedAt(todo[f], 1)
    BY <1>0, <1>1 DEF Shapes, WellShaped
  <2> QED
    BY ONLY <1>1, <1>2, <2>1 DEF ShapedAt
<1>8. /\ o \in Operations /\ o[1] = "awake" /\ o[2] = x /\ o[3] = all /\ o[4] = n
      /\ ShapedAt(<<o>> \o Tail(todo[f]), 1)
  BY <1>1, <1>7, InHand
<1> HIDE DEF o
<1>9. /\ todo' \in [Fibers -> Seq(Operations)] /\ Shapes'
      /\ todo'[f] # <<>> /\ Head(todo'[f]) = o /\ todo'[f] = <<o>> \o Tail(todo[f])
      /\ todo' = [todo EXCEPT ![f] = <<o>> \o Tail(@)]
      /\ \A g \in Fibers : g # f => todo'[g] = todo[g]
  BY ONLY <1>0, <1>1, <1>5, <1>8, OperationSwapped, f \in Fibers
<1>10. /\ queue' \in [Futexes -> Seq(Fibers)] /\ \A y \in Futexes : y # x => queue'[y] = queue[y]
       /\ queue'[x] = Tail(queue[x]) /\ ToSet(queue'[x]) = ToSet(queue[x]) \ {n} /\ IsInjective(queue'[x])
  <2>1. IsInjective(queue[x])
    BY <1>0 DEF QueuesOnce
  <2>2. IsInjective(Tail(queue[x])) /\ ToSet(Tail(queue[x])) = ToSet(queue[x]) \ {n}
    BY <1>3, <1>4, <2>1, TailOfInjective
  <2> QED
    BY <1>3, <1>5, <2>2
<1>11. CoreTypes'
  BY <1>0, <1>6, <1>9, <1>10 DEF CoreTypes
<1>12. SyncTypes'
  BY <1>0, <1>5, <1>6 DEF SyncTypes, syncVars, condVars, groupVars
<1>13. /\ stack[f] # 0 /\ \A v \in Workers : v # w /\ current[v] = f => at[v] = "unlock"
       /\ \A y \in Futexes : f \notin ToSet(queue[y])
       /\ \A h \in Fibers : ~ Holds(h, f)
  BY <1>0, <1>1, Running
<1>14. f # n
  BY <1>4, <1>13
<1>15. /\ stack[n] # 0 /\ n \notin ToSet(ready)
       /\ \A v \in Workers : ~ (current[v] = n /\ at[v] # "unlock")
       /\ \A y \in Futexes : n \in ToSet(queue[y]) => y = x
       /\ \A h \in Fibers : ~ Holds(h, n)
  <2>1. Here("queue", x, n)
    BY <1>4 DEF Here
  <2> QED
    BY <1>0, <2>1, OnlyThere
<1>16. \A h, g \in Fibers : Holds(h, g)' <=> IF h = f THEN g = n ELSE Holds(h, g)
  BY <1>8, <1>9 DEF Holds
<1>17. Placed'
  <2>1. Comes(n, "waker", f) /\ IsPlace("waker", f)
    <3>1. stack'[n] # 0 /\ n \notin ToSet(ready')
      BY <1>6, <1>15
    <3>2. \A v \in Workers : ~ (current'[v] = n /\ at'[v] # "unlock")
      BY <1>6, <1>15
    <3>3. \A y \in Futexes : n \notin ToSet(queue'[y])
      BY <1>10, <1>15
    <3>4. \A h \in Fibers : Holds(h, n)' <=> h = f
      BY <1>15, <1>16
    <3> QED
      BY ONLY <3>1, <3>2, <3>3, <3>4, f \in Fibers DEF Comes, IsPlace
  <2>2. ASSUME NEW g \in Fibers, g # n PROVE Stays(g)
    <3>1. \A y \in Futexes : g \in ToSet(queue'[y]) <=> g \in ToSet(queue[y])
      BY <1>10, <2>2
    <3>2. ~ Holds(f, g)
      BY <1>1 DEF Holds
    <3>3. \A h \in Fibers : Holds(h, g)' <=> Holds(h, g)
      BY <1>16, <2>2, <3>2
    <3> QED
      BY ONLY <1>6, <3>1, <3>3 DEF Stays
  <2> QED
    BY <1>0, <2>1, <2>2, PlacedEach
<1>18. QueuesOnce' /\ StacksHaveOneOwner'
  <2>1. QueuesOnce'
    BY <1>0, <1>6, <1>10 DEF QueuesOnce
  <2> QED
    BY <1>0, <1>6, <2>1 DEF Core, StacksHaveOneOwner, Alive
<1>19. Busy'
  <2>1. BusyAt(w)'
    BY <1>0, <1>1, <1>6 DEF Busy, BusyAt
  <2> QED
    BY ONLY ZenonT(60), <1>0, <1>6, <1>9, <1>13, <2>1, OthersBusy, w \in Workers
<1>20. Waiters'
  <2>1. At(n, "unpark", x)
    BY <1>0, <1>4 DEF Waiters
  <2>2. \A y \in Futexes : ToSet(queue'[y]) \subseteq ToSet(queue[y])
    BY <1>10
  <2>3. ~ At(f, "unpark", "mutex")' /\ ~ At(f, "unpark", "group")'
    BY ONLY <1>8, <1>9 DEF At
  <2> QED
    BY ONLY <1>0, <1>6, <1>8, <1>9, <1>13, <1>14, <2>1, <2>2, <2>3, WaitersSwapped, f \in Fibers
<1>21. GoOnce'
  <2>1. <<o>> \in Seq(Operations) /\ \A i \in 1 .. Len(<<o>>) : <<o>>[i][1] # "go"
    BY <1>8
  <2> QED
    BY ONLY <1>0, <1>1, <1>6, <1>9, <2>1, GoKept, f \in Fibers
<1>22. Core'
  BY ONLY <1>9, <1>11, <1>17, <1>18, <1>19, <1>20, <1>21 DEF Core
<1>23. Locking'
  <2>1. o[1] \notin OfMutex
    BY <1>8 DEF OfMutex
  <2> QED
    BY ONLY <1>0, <1>1, <1>6, <1>8, <1>9, <2>1, LockingSwapped, f \in Fibers
<1>24. NoFiberForgotten'
  <2>1. \A y \in Futexes : ToSet(queue'[y]) \subseteq ToSet(queue[y])
    BY <1>10
  <2>2. \A g \in Fibers : g # f => (MutexWaker(g) => MutexWaker(g)') /\ (GroupWaker(g) => GroupWaker(g)')
    BY ONLY <1>6, <1>9, <2>1, FutexesAre DEF MutexWaker, GroupWaker
  <2>3. MutexWaits' => MutexWaker(f)' \/ (MutexWaits /\ ~ MutexWaker(f))
    <3>1. CASE x = "mutex"
      <4>1. f \notin ToSet(queue'["mutex"])
        BY <1>13, <2>1, FutexesAre
      <4>2. MutexWaker(f)'
        BY ONLY <1>6, <1>8, <1>9, <1>13, <3>1, <4>1 DEF MutexWaker
      <4> QED
        BY <4>2
    <3>2. CASE x # "mutex"
      <4>1. queue'["mutex"] = queue["mutex"]
        BY <1>10, <3>2, FutexesAre
      <4> QED
        BY ONLY <1>1, <1>2, <1>6, <3>2, <4>1 DEF MutexWaits, MutexWaker
    <3> QED
      BY <3>1, <3>2
  <2>4. GroupWaits' => GroupWaker(f)' \/ (GroupWaits /\ ~ GroupWaker(f))
    <3>1. CASE x = "group"
      BY ONLY <1>6, <1>8, <1>9, <1>13, <3>1 DEF GroupWaker
    <3>2. CASE x # "group"
      <4>1. queue'["group"] = queue["group"]
        BY <1>10, <3>2, FutexesAre
      <4> QED
        BY ONLY <1>1, <1>2, <1>6, <3>2, <4>1 DEF GroupWaits, GroupWaker
    <3> QED
      BY <3>1, <3>2
  <2> QED
    BY <1>0, <1>6, <1>11, <1>12, <2>2, <2>3, <2>4, Minds DEF IInv
<1> QED
  BY ONLY <1>12, <1>22, <1>23, <1>24 DEF IInv

\* The awaiter in f's hands is scheduled; WakeAll takes the next one.
LEMMA AwakeStep ==
    ASSUME IInv, UNCHANGED <<poolVars, syncVars>>, NEW w \in Workers, NEW f \in Fibers, Awake(w, f)
    PROVE  IInv'
<1>0. /\ Core /\ CoreTypes /\ SyncTypes /\ Locking /\ Shapes /\ Placed /\ QueuesOnce /\ Busy /\ Waiters /\ GoOnce
      /\ Stacks
  BY DEF IInv, Core, CoreTypes, Stacks
<1>1. /\ todo[f] \in Seq(Operations) /\ todo[f] # <<>> /\ Head(todo[f]) \in Operations
      /\ Head(todo[f])[1] = "awake" /\ Head(todo[f]) = todo[f][1] /\ 1 \in 1 .. Len(todo[f])
      /\ at[w] = "fiber" /\ current[w] = f
  BY <1>0 DEF CoreTypes, Awake, Doing, On
<1>2. PICK x \in Futexes, all \in BOOLEAN, m \in Fibers :
      x = Head(todo[f])[2] /\ all = Head(todo[f])[3] /\ m = Head(todo[f])[4]
  BY <1>1, OperationsAre
<1>3. queue \in [Futexes -> Seq(Fibers)] /\ queue[x] \in Seq(Fibers)
  BY <1>0, <1>2 DEF CoreTypes
<1>4. x = "group" => all = TRUE
  <2>1. ShapedAt(todo[f], 1)
    BY <1>0, <1>1 DEF Shapes, WellShaped
  <2> QED
    BY ONLY <1>1, <1>2, <2>1 DEF ShapedAt
<1>5. /\ closed' = closed /\ stops' = stops /\ current' = current /\ at' = at /\ awaiter' = awaiter
      /\ allocated' = allocated /\ old' = old /\ spin' = spin /\ access' = access /\ isDone' = isDone
      /\ Schedule(m)
  BY <1>2 DEF Awake, poolVars, syncVars, condVars, groupVars
<1>6. /\ stack[f] # 0 /\ f \notin ToSet(ready)
      /\ \A v \in Workers : v # w /\ current[v] = f => at[v] = "unlock"
      /\ \A y \in Futexes : f \notin ToSet(queue[y])
      /\ \A h \in Fibers : ~ Holds(h, f)
  BY <1>0, <1>1, Running
<1>7. /\ stack[m] # 0 /\ m \notin ToSet(ready) /\ m # f
      /\ \A v \in Workers : ~ (current[v] = m /\ at[v] # "unlock")
      /\ \A y \in Futexes : m \notin ToSet(queue[y])
      /\ \A h \in Fibers : Holds(h, m) <=> h = f
      /\ At(m, "unpark", x)
  <2>1. Here("waker", f, m) /\ Holds(f, m)
    BY <1>1, <1>2 DEF Here, Holds
  <2>2. m # f
    BY <1>6, <2>1
  <2>3. At(m, "unpark", x)
    BY <1>0, <1>2, <2>1 DEF Waiters
  <2>4. /\ stack[m] # 0 /\ m \notin ToSet(ready)
        /\ \A v \in Workers : ~ (current[v] = m /\ at[v] # "unlock")
        /\ \A y \in Futexes : m \notin ToSet(queue[y])
        /\ \A h \in Fibers : Holds(h, m) => h = f
    BY <1>0, <2>1, OnlyThere
  <2> QED
    BY ONLY <2>1, <2>2, <2>3, <2>4
<1>8. /\ Stacks' /\ \A g \in Fibers : g # m => stack'[g] = stack[g]
      /\ closed = TRUE => stack'[m] = 0 /\ ready' = ready
      /\ closed = FALSE => stack' = stack /\ ready' = Append(ready, m)
      /\ closed \in BOOLEAN
  BY <1>0, <1>5, <1>7, Scheduled DEF CoreTypes
<1>9. /\ ready' \in Seq(Fibers) /\ IsInjective(ready')
      /\ ToSet(ready') = IF closed = FALSE THEN ToSet(ready) \cup {m} ELSE ToSet(ready)
  <2>1. ready \in Seq(Fibers) /\ IsInjective(ready)
    BY <1>0 DEF CoreTypes, QueuesOnce
  <2>2. Append(ready, m) \in Seq(Fibers) /\ IsInjective(Append(ready, m)) /\ ToSet(Append(ready, m)) = ToSet(ready) \cup {m}
    BY <1>7, <2>1, InjectiveAppend, ToSetAppend
  <2> QED
    BY ONLY <1>8, <2>1, <2>2
\* What follows: the next waiter, or none.
<1> DEFINE next == all = TRUE /\ queue[x] # <<>>
<1>10. PICK n, o :
       /\ IF next THEN n = Head(queue[x]) /\ n \in Fibers /\ n \in ToSet(queue[x]) /\ o = <<"awake", x, all, n>>
                  ELSE n = Null /\ o = <<"release", x>>
       /\ queue' = IF next THEN [queue EXCEPT ![x] = Tail(@)] ELSE queue
       /\ Then(f, <<o>>)
  <2>1. CASE next
    <3>1. IsInjective(queue[x]) /\ queue[x] # <<>>
      BY <1>0, <2>1 DEF QueuesOnce
    <3>2. Head(queue[x]) \in Fibers /\ Head(queue[x]) \in ToSet(queue[x])
      BY <1>3, <3>1, TailOfInjective
    <3>3. queue' = [queue EXCEPT ![x] = Tail(@)] /\ Then(f, <<<<"awake", x, all, Head(queue[x])>>>>)
      BY <1>2, <2>1 DEF Awake
    <3> QED
      BY ONLY <2>1, <3>2, <3>3
  <2>2. CASE ~ next
    <3>1. queue' = queue /\ Then(f, <<<<"release", x>>>>)
      BY <1>2, <2>2 DEF Awake
    <3> QED
      BY ONLY <2>2, <3>1
  <2> QED
    BY <2>1, <2>2
<1>11. /\ o \in Operations /\ ShapedAt(<<o>> \o Tail(todo[f]), 1) /\ o[2] = x
       /\ o[1] \in {"awake", "release"} /\ (o[1] = "awake" <=> next)
       /\ next => o[4] = n
  <2>1. CASE next
    <3>1. o = <<"awake", x, all, n>> /\ n \in Fibers
      BY ONLY <1>10, <2>1
    <3>2. /\ o \in Operations /\ o[1] = "awake" /\ o[2] = x /\ o[4] = n
          /\ ShapedAt(<<o>> \o Tail(todo[f]), 1) \/ todo[f] \notin Seq(Operations) \/ todo[f] = <<>>
      BY ONLY <1>4, <3>1, InHand, x \in Futexes, all \in BOOLEAN
    <3> QED
      BY ONLY <1>1, <2>1, <3>2
  <2>2. CASE ~ next
    BY <1>1, <1>10, <2>2, LastInHand
  <2> QED
    BY <2>1, <2>2
<1>12. /\ todo' \in [Fibers -> Seq(Operations)] /\ Shapes'
       /\ todo'[f] # <<>> /\ Head(todo'[f]) = o /\ todo'[f] = <<o>> \o Tail(todo[f])
       /\ todo' = [todo EXCEPT ![f] = <<o>> \o Tail(@)]
       /\ \A g \in Fibers : g # f => todo'[g] = todo[g]
  BY ONLY <1>0, <1>1, <1>10, <1>11, OperationSwapped, f \in Fibers
<1>13. /\ queue' \in [Futexes -> Seq(Fibers)] /\ \A y \in Futexes : y # x => queue'[y] = queue[y]
       /\ \A y \in Futexes : IsInjective(queue'[y])
       /\ next => ToSet(queue'[x]) = ToSet(queue[x]) \ {n}
       /\ ~ next => queue' = queue
       /\ \A y \in Futexes : ToSet(queue'[y]) \subseteq ToSet(queue[y])
  <2>1. \A y \in Futexes : IsInjective(queue[y])
    BY <1>0 DEF QueuesOnce
  <2>2. CASE next
    <3>1. IsInjective(Tail(queue[x])) /\ ToSet(Tail(queue[x])) = ToSet(queue[x]) \ {n} /\ Tail(queue[x]) \in Seq(Fibers)
      <4>1. queue[x] # <<>> /\ n = Head(queue[x])
        BY <1>10, <2>2
      <4> QED
        BY <1>3, <2>1, <4>1, TailOfInjective
    <3>2. queue' = [queue EXCEPT ![x] = Tail(@)]
      BY <1>10, <2>2
    <3> HIDE DEF next
    <3> QED
      BY <1>3, <2>1, <2>2, <3>1, <3>2
  <2>3. CASE ~ next
    <3>1. queue' = queue
      BY <1>10, <2>3
    <3> HIDE DEF next
    <3> QED
      BY <1>3, <2>1, <2>3, <3>1
  <2> QED
    BY <2>2, <2>3
<1>14. CoreTypes'
  BY <1>0, <1>5, <1>8, <1>9, <1>12, <1>13 DEF CoreTypes, Stacks
<1>15. SyncTypes'
  BY <1>0, <1>5 DEF SyncTypes, syncVars, condVars, groupVars
<1>16. next => /\ stack[n] # 0 /\ n \in Fibers /\ n # f /\ n # m /\ n \notin ToSet(ready)
               /\ \A v \in Workers : ~ (current[v] = n /\ at[v] # "unlock")
               /\ \A y \in Futexes : n \in ToSet(queue[y]) => y = x
               /\ \A h \in Fibers : ~ Holds(h, n)
               /\ At(n, "unpark", x)
  <2> SUFFICES ASSUME next PROVE
               /\ stack[n] # 0 /\ n \in Fibers /\ n # f /\ n # m /\ n \notin ToSet(ready)
               /\ \A v \in Workers : ~ (current[v] = n /\ at[v] # "unlock")
               /\ \A y \in Futexes : n \in ToSet(queue[y]) => y = x
               /\ \A h \in Fibers : ~ Holds(h, n)
               /\ At(n, "unpark", x)
    OBVIOUS
  <2>1. n \in Fibers /\ n \in ToSet(queue[x])
    BY <1>10
  <2>2. Here("queue", x, n)
    BY <2>1 DEF Here
  <2>3. /\ stack[n] # 0 /\ n \notin ToSet(ready)
        /\ \A v \in Workers : ~ (current[v] = n /\ at[v] # "unlock")
        /\ \A y \in Futexes : n \in ToSet(queue[y]) => y = x
        /\ \A h \in Fibers : ~ Holds(h, n)
    BY <1>0, <2>1, <2>2, OnlyThere
  <2>4. At(n, "unpark", x)
    BY <1>0, <2>1 DEF Waiters
  <2> QED
    BY ONLY <1>6, <1>7, <2>1, <2>3, <2>4, x \in Futexes
<1>17. \A h, g \in Fibers : Holds(h, g)' <=> IF h = f THEN next /\ g = n ELSE Holds(h, g)
  <2> HIDE DEF next
  <2>1. \A g \in Fibers : Holds(f, g)' <=> next /\ g = n
    BY ONLY <1>11, <1>12 DEF Holds
  <2>2. \A h, g \in Fibers : h # f => (Holds(h, g)' <=> Holds(h, g))
    BY ONLY <1>12 DEF Holds
  <2> QED
    BY ONLY <2>1, <2>2
<1> HIDE DEF next
<1>18. Placed'
  <2>1. Comes(m, "ready", Null) \/ Comes(m, "none", Null)
    <3>1. \A v \in Workers : ~ (current'[v] = m /\ at'[v] # "unlock")
      BY ONLY <1>5, <1>7
    <3>2. \A y \in Futexes : m \notin ToSet(queue'[y])
      BY ONLY <1>7, <1>13
    <3>3. \A h \in Fibers : ~ Holds(h, m)'
      BY ONLY <1>7, <1>16, <1>17, m \in Fibers
    <3>4. CASE closed = FALSE
      <4>1. m \in ToSet(ready') /\ stack'[m] # 0
        BY <1>7, <1>8, <1>9, <3>4
      <4> QED
        BY ONLY <3>1, <3>2, <3>3, <4>1 DEF Comes
    <3>5. CASE closed = TRUE
      <4>1. m \notin ToSet(ready') /\ stack'[m] = 0
        BY <1>7, <1>8, <1>9, <3>5
      <4> QED
        BY ONLY <3>1, <3>2, <3>3, <4>1 DEF Comes
    <3> QED
      BY <1>8, <3>4, <3>5
  <2>2. next => Comes(n, "waker", f) /\ n \in Fibers
    <3> SUFFICES ASSUME next PROVE Comes(n, "waker", f) /\ n \in Fibers
      OBVIOUS
    <3>1. stack'[n] # 0 /\ n \notin ToSet(ready') /\ n \in Fibers
      BY <1>8, <1>9, <1>16
    <3>2. \A v \in Workers : ~ (current'[v] = n /\ at'[v] # "unlock")
      BY ONLY <1>5, <1>16, next
    <3>3. \A y \in Futexes : n \notin ToSet(queue'[y])
      BY ONLY <1>13, <1>16, next, x \in Futexes
    <3>4. \A h \in Fibers : Holds(h, n)' <=> h = f
      BY ONLY <1>16, <1>17, next, n \in Fibers
    <3> QED
      BY ONLY <3>1, <3>2, <3>3, <3>4, f \in Fibers DEF Comes
  <2>3. ASSUME NEW g \in Fibers, g # m, next => g # n PROVE Stays(g)
    <3>1. \A y \in Futexes : g \in ToSet(queue'[y]) <=> g \in ToSet(queue[y])
      <4>1. CASE next
        BY ONLY <1>13, <2>3, <4>1
      <4>2. CASE ~ next
        BY ONLY <1>13, <4>2
      <4> QED
        BY <4>1, <4>2
    <3>2. ~ Holds(f, g)
      BY <1>1, <1>2, <2>3 DEF Holds
    <3>3. \A h \in Fibers : Holds(h, g)' <=> Holds(h, g)
      BY ONLY <1>17, <2>3, <3>2
    <3>4. stack'[g] = stack[g] /\ (g \in ToSet(ready') <=> g \in ToSet(ready))
      BY ONLY <1>8, <1>9, <2>3
    <3> QED
      BY ONLY <1>5, <3>1, <3>3, <3>4 DEF Stays
  <2>4. IsPlace("ready", Null) /\ IsPlace("none", Null) /\ IsPlace("waker", f)
    BY DEF IsPlace
  <2>5. \A g \in Fibers : Stays(g) \/ \E kind, place : IsPlace(kind, place) /\ Comes(g, kind, place)
    BY ONLY <2>1, <2>2, <2>3, <2>4
  <2> QED
    BY ONLY <1>0, <2>5, PlacedEach
<1>19. QueuesOnce' /\ StacksHaveOneOwner'
  BY ONLY <1>8, <1>9, <1>13 DEF QueuesOnce, Stacks
<1>20. Busy'
  <2>1. BusyAt(w)'
    BY <1>0, <1>1, <1>5 DEF Busy, BusyAt
  <2> QED
    <3>1. \A v \in Workers : at'[v] = at[v] /\ current'[v] = current[v]
      BY ONLY <1>5
    <3>2. \A g \in Fibers : g # f => awaiter'[g] = awaiter[g] /\ todo'[g] = todo[g]
      BY ONLY <1>5, <1>12
    <3> QED
      BY ONLY <1>0, <1>6, <2>1, <3>1, <3>2, OthersBusy, w \in Workers
<1>21. Waiters'
  <2>1. ~ At(f, "unpark", "mutex")' /\ ~ At(f, "unpark", "group")'
    BY ONLY <1>11, <1>12 DEF At
  <2>2. Head(todo'[f])[1] = "awake" => Head(todo'[f])[4] # f /\ At(Head(todo'[f])[4], "unpark", Head(todo'[f])[2])
    BY ONLY <1>11, <1>12, <1>16
  <2> QED
    BY ONLY <1>0, <1>5, <1>6, <1>12, <1>13, <2>1, <2>2, WaitersSwapped, f \in Fibers
<1>22. GoOnce'
  <2>1. <<o>> \in Seq(Operations) /\ \A i \in 1 .. Len(<<o>>) : <<o>>[i][1] # "go"
    BY <1>11
  <2>2. \A g \in Fibers : stack[g] = 0 /\ Head(todo[f]) # <<"go", g>> => stack'[g] = 0
    BY ONLY <1>7, <1>8
  <2> QED
    BY ONLY <1>0, <1>1, <1>12, <2>1, <2>2, GoKept, f \in Fibers
<1>23. Core'
  BY ONLY <1>12, <1>14, <1>18, <1>19, <1>20, <1>21, <1>22 DEF Core
<1>24. Locking'
  <2>1. o[1] \notin OfMutex /\ Head(todo[f])[1] \notin {"lock", "unlock"}
    BY ONLY <1>1, <1>11 DEF OfMutex
  <2> QED
    BY ONLY <1>0, <1>1, <1>5, <1>11, <1>12, <2>1, LockingSwapped, f \in Fibers
<1>25. NoFiberForgotten'
  <2>1. CASE closed = TRUE
    BY <1>5, <2>1 DEF NoFiberForgotten
  <2>2. CASE closed = FALSE
    <3>0. stack' = stack
      BY <1>8, <2>2
    <3>1. \A g \in Fibers : g # f => (MutexWaker(g) => MutexWaker(g)') /\ (GroupWaker(g) => GroupWaker(g)')
      BY ONLY <3>0, <1>12, <1>13, FutexesAre DEF MutexWaker, GroupWaker
    <3>2. MutexWaits' => (\E h \in Fibers : MutexWaker(h)') \/ (MutexWaits /\ ~ MutexWaker(f))
      <4>1. CASE x = "mutex" /\ next
        <5>1. f \notin ToSet(queue'["mutex"])
          BY ONLY <1>6, <1>13, FutexesAre
        <5>2. MutexWaker(f)'
          BY ONLY <3>0, <1>6, <1>11, <1>12, <4>1, <5>1 DEF MutexWaker
        <5> QED
          BY <5>2
      <4>2. CASE x = "mutex" /\ ~ next
        <5>1. m \notin ToSet(queue'["mutex"])
          BY ONLY <1>7, <1>13, FutexesAre
        <5>2. todo'[m] = todo[m]
          BY <1>7, <1>12
        <5>3. MutexWaker(m)'
          BY ONLY <3>0, <1>7, <4>2, <5>1, <5>2 DEF MutexWaker, At
        <5> QED
          BY <5>3
      <4>3. CASE x # "mutex"
        <5>1. queue'["mutex"] = queue["mutex"]
          BY <1>13, <4>3, FutexesAre
        <5> QED
          BY ONLY <1>1, <1>2, <1>5, <4>3, <5>1 DEF MutexWaits, MutexWaker
      <4> QED
        BY <4>1, <4>2, <4>3
    <3>3. GroupWaits' => (\E h \in Fibers : GroupWaker(h)') \/ (GroupWaits /\ ~ GroupWaker(f))
      <4>1. CASE x = "group" /\ next
        <5>1. GroupWaker(f)'
          BY ONLY <3>0, <1>6, <1>11, <1>12, <4>1 DEF GroupWaker
        <5> QED
          BY <5>1
      <4>2. CASE x = "group" /\ ~ next
        <5>1. queue'["group"] = <<>>
          BY <1>4, <1>13, <4>2 DEF next
        <5> QED
          BY ONLY <5>1 DEF GroupWaits
      <4>3. CASE x # "group"
        <5>1. queue'["group"] = queue["group"]
          BY <1>13, <4>3, FutexesAre
        <5> QED
          BY ONLY <1>1, <1>2, <1>5, <4>3, <5>1 DEF GroupWaits, GroupWaker
      <4> QED
        BY <4>1, <4>2, <4>3
    <3>4. closed' = FALSE => closed = FALSE
      BY <2>2
    <3>5. NoFiberForgotten
      BY DEF IInv
    <3> QED
      BY ONLY <1>0, <1>14, <1>15, <3>1, <3>2, <3>3, <3>4, <3>5, Minds, f \in Fibers
  <2> QED
    BY <1>8, <2>1, <2>2
<1> QED
  BY ONLY <1>15, <1>23, <1>24, <1>25 DEF IInv

-----------------------------------------------------------------------------
(* Steps of the workers *)

\* A step that leaves the operations and the wait queues as they are.
LEMMA SchedulerStep ==
    ASSUME IInv, SyncTypes', todo' = todo, old' = old, queue' = queue, access' = access, isDone' = isDone,
           CoreTypes', Placed', IsInjective(ready'), StacksHaveOneOwner', Busy',
           \A g \in Fibers : stack[g] = 0 => stack'[g] = 0,
           closed' = FALSE => closed = FALSE /\ \A g \in Fibers : stack[g] # 0 /\ todo[g] # <<>> => stack'[g] # 0
    PROVE  IInv'
<1>0. CoreTypes /\ SyncTypes /\ Shapes /\ QueuesOnce /\ Waiters /\ GoOnce /\ Locking /\ NoFiberForgotten
  BY DEF IInv, Core
<1>1. Shapes'
  BY <1>0 DEF Shapes
<1>2. QueuesOnce'
  BY <1>0 DEF QueuesOnce
<1>3. Waiters'
  <2>1. /\ \A f, x : At(f, "unpark", x)' <=> At(f, "unpark", x)
        /\ \A f, g : Here("waker", g, f)' <=> Here("waker", g, f)
        /\ \A x \in Futexes : queue'[x] = queue[x]
        /\ \A f, g : At(f, "unpark", Head(todo[g])[2])' <=> At(f, "unpark", Head(todo[g])[2])
    BY DEF At, Here
  <2> QED
    BY ONLY <1>0, <2>1, old' = old DEF Waiters
<1>4. GoOnce'
  <2>1. \A h \in Fibers : todo[h] \in Seq(Operations)
    BY <1>0 DEF CoreTypes
  <2>2. SUFFICES ASSUME NEW f \in Fibers, NEW h \in Fibers, NEW i \in 1 .. Len(todo[f]), NEW j \in 1 .. Len(todo[h])
                 PROVE  GoAt(f, i, h, j)'
    BY DEF GoOnce
  <2>3. GoAt(f, i, h, j)
    BY <1>0 DEF GoOnce
  <2>4. todo[f][i][1] = "go" => todo[f][i][2] \in Fibers
    BY <2>1, OperationsAre
  <2> QED
    BY <2>3, <2>4 DEF GoAt
<1>5. Locking'
  BY <1>0 DEF Locking, MutualExclusion, Inside
<1>6. NoFiberForgotten'
  <2>1. closed' = FALSE => \A g \in Fibers : (MutexWaker(g) => MutexWaker(g)') /\ (GroupWaker(g) => GroupWaker(g)')
    BY DEF MutexWaker, GroupWaker
  <2>2. (MutexWaits' <=> MutexWaits) /\ (GroupWaits' <=> GroupWaits)
    BY DEF MutexWaits, GroupWaits
  <2> QED
    BY ONLY <1>0, <2>1, <2>2, Minds, SyncTypes', CoreTypes', closed' = FALSE => closed = FALSE
<1> QED
  BY <1>1, <1>2, <1>3, <1>4, <1>5, <1>6 DEF IInv, Core

LEMMA FutexesAreNot == "none" \notin Futexes /\ "yield" \notin Futexes
  BY FiberAssumption DEF FiberAssumption

LEMMA NullIsNot == Null \notin Fibers /\ Null \notin Workers
  BY FiberAssumption DEF FiberAssumption

LEMMA RunStep ==
    ASSUME IInv, UNCHANGED <<poolVars, futexVars, syncVars>>, NEW w \in Workers, Run(w)
    PROVE  IInv'
<1>0. CoreTypes /\ SyncTypes /\ Placed /\ QueuesOnce /\ Busy /\ StacksHaveOneOwner
  BY DEF IInv, Core
<1>1. /\ ready \in Seq(Fibers) /\ ready # <<>> /\ IsInjective(ready)
      /\ current \in [Workers -> Fibers \cup {Null}] /\ at[w] = "idle" /\ current[w] = Null
  BY <1>0 DEF CoreTypes, QueuesOnce, Run, Busy, BusyAt
<1>2. PICK m \in Fibers : m = Head(ready)
  BY <1>1
<1>3. /\ ready' = Tail(ready) /\ IsInjective(ready') /\ ToSet(ready') = ToSet(ready) \ {m}
      /\ m \in ToSet(ready) /\ ready' \in Seq(Fibers)
  <2>1. ready' = Tail(ready) /\ Tail(ready) \in Seq(Fibers)
    BY <1>1 DEF Run
  <2> QED
    BY <1>1, <1>2, <2>1, TailOfInjective
<1>4. /\ current' = [current EXCEPT ![w] = m] /\ at' = [at EXCEPT ![w] = "fiber"]
      /\ awaiter' = [awaiter EXCEPT ![m] = "none"]
      /\ todo' = todo /\ stack' = stack /\ freed' = freed /\ allocated' = allocated
      /\ old' = old /\ queue' = queue /\ access' = access /\ isDone' = isDone /\ closed' = closed
  BY <1>2 DEF Run, Goto, poolVars, stackVars, futexVars, syncVars, condVars, groupVars
<1>5. /\ current'[w] = m /\ at'[w] = "fiber" /\ awaiter'[m] = "none"
      /\ \A v \in Workers : v # w => current'[v] = current[v] /\ at'[v] = at[v]
      /\ \A g \in Fibers : g # m => awaiter'[g] = awaiter[g]
      /\ CoreTypes'
  BY <1>0, <1>3, <1>4 DEF CoreTypes
<1>6. SyncTypes'
  BY <1>0 DEF SyncTypes, poolVars, futexVars, syncVars, condVars, groupVars
<1>7. /\ stack[m] # 0 /\ \A v \in Workers : ~ (current[v] = m /\ at[v] # "unlock")
      /\ \A x \in Futexes : m \notin ToSet(queue[x])
      /\ \A h \in Fibers : ~ Holds(h, m)
  <2>1. Here("ready", Null, m)
    BY <1>3 DEF Here
  <2> QED
    BY <1>0, <2>1, OnlyThere
<1>8. \A h, g \in Fibers : Holds(h, g)' <=> Holds(h, g)
  BY ONLY <1>4 DEF Holds
<1>9. Placed'
  <2>1. Comes(m, "worker", w) /\ IsPlace("worker", w)
    BY ONLY <1>3, <1>4, <1>5, <1>7, <1>8, m \in Fibers, w \in Workers DEF Comes, IsPlace
  <2>2. ASSUME NEW g \in Fibers, g # m PROVE Stays(g)
    <3>1. \A v \in Workers : (current'[v] = g /\ at'[v] # "unlock") <=> (current[v] = g /\ at[v] # "unlock")
      BY ONLY <1>1, <1>5, <2>2, NullIsNot
    <3> QED
      BY ONLY <1>3, <1>4, <1>8, <2>2, <3>1 DEF Stays
  <2> QED
    BY <1>0, <2>1, <2>2, PlacedEach
<1>10. Busy'
  <2>1. BusyAt(w)'
    BY <1>5, NullIsNot DEF BusyAt
  <2> QED
    BY ONLY <1>0, <1>4, <1>5, <1>7, <2>1, OthersBusy, w \in Workers
<1>11. StacksHaveOneOwner'
  BY <1>0, <1>4 DEF StacksHaveOneOwner, Alive
<1> QED
  BY ONLY <1>3, <1>4, <1>5, <1>6, <1>9, <1>10, <1>11, SchedulerStep, IInv

\* The worker leaves m, which it submits or deletes.
LEMMA LeaveStep ==
    ASSUME IInv, SyncTypes', UNCHANGED <<poolVars, todo, awaiter, allocated, queue, old, access, isDone>>,
           NEW w \in Workers, at[w] \notin {"idle", "unlock"},
           \/ Schedule(current[w])
           \/ Discard(current[w]) /\ ready' = ready /\ todo[current[w]] = <<>>,
           \/ Goto(w, "idle") /\ current' = [current EXCEPT ![w] = Null]
           \/ Goto(w, "unlock") /\ current' = current
    PROVE  IInv'
<1>0. CoreTypes /\ SyncTypes /\ Placed /\ QueuesOnce /\ Busy /\ Stacks
  BY DEF IInv, Core, CoreTypes, Stacks
<1>1. PICK m \in Fibers : m = current[w]
  BY <1>0, Running
<1>2. /\ stack[m] # 0 /\ m \notin ToSet(ready)
      /\ \A v \in Workers : v # w /\ current[v] = m => at[v] = "unlock"
      /\ \A x \in Futexes : m \notin ToSet(queue[x])
      /\ \A h \in Fibers : ~ Holds(h, m)
  BY <1>0, <1>1, Running
<1>3. /\ ready \in Seq(Fibers) /\ IsInjective(ready) /\ closed \in BOOLEAN
      /\ current \in [Workers -> Fibers \cup {Null}] /\ at \in [Workers -> {"idle", "fiber", "resumed", "thrown", "schedule", "unlock"}]
  BY <1>0 DEF CoreTypes, QueuesOnce
<1>4. /\ closed' = closed /\ todo' = todo /\ awaiter' = awaiter /\ allocated' = allocated
      /\ queue' = queue /\ old' = old /\ access' = access /\ isDone' = isDone
  BY DEF poolVars
<1>5. /\ Stacks' /\ \A g \in Fibers : g # m => stack'[g] = stack[g]
      /\ \/ stack'[m] = 0 /\ ready' = ready /\ (closed = TRUE \/ todo[m] = <<>>)
         \/ stack'[m] # 0 /\ ready' = Append(ready, m)
  <2>1. CASE Schedule(m)
    <3>1. /\ Stacks' /\ \A g \in Fibers : g # m => stack'[g] = stack[g]
          /\ closed = TRUE => stack'[m] = 0 /\ ready' = ready
          /\ closed = FALSE => stack' = stack /\ ready' = Append(ready, m)
      BY ONLY <1>0, <1>2, <1>3, <1>4, <2>1, Scheduled, m \in Fibers
    <3> QED
      BY ONLY <1>2, <1>3, <3>1
  <2>2. CASE Discard(m) /\ ready' = ready /\ todo[m] = <<>>
    <3>1. Stacks' /\ stack'[m] = 0 /\ \A g \in Fibers : g # m => stack'[g] = stack[g]
      BY ONLY <1>0, <1>2, <1>4, <2>2, Discarded, m \in Fibers
    <3> QED
      BY <2>2, <3>1
  <2> QED
    BY <1>1, <2>1, <2>2
<1>6. /\ ready' \in Seq(Fibers) /\ IsInjective(ready')
      /\ ToSet(ready') = IF stack'[m] # 0 THEN ToSet(ready) \cup {m} ELSE ToSet(ready)
  <2>1. Append(ready, m) \in Seq(Fibers) /\ IsInjective(Append(ready, m)) /\ ToSet(Append(ready, m)) = ToSet(ready) \cup {m}
    BY <1>2, <1>3, InjectiveAppend, ToSetAppend
  <2> QED
    BY ONLY <1>3, <1>5, <2>1
<1>7. /\ \A v \in Workers : v # w => current'[v] = current[v] /\ at'[v] = at[v]
      /\ (at'[w] = "idle" /\ current'[w] = Null) \/ (at'[w] = "unlock" /\ current'[w] = m)
      /\ current' \in [Workers -> Fibers \cup {Null}]
      /\ at' \in [Workers -> {"idle", "fiber", "resumed", "thrown", "schedule", "unlock"}]
  BY <1>1, <1>3 DEF Goto
<1>8. CoreTypes'
  BY <1>0, <1>4, <1>5, <1>6, <1>7 DEF CoreTypes, Stacks
<1>9. \A h, g \in Fibers : Holds(h, g)' <=> Holds(h, g)
  BY ONLY <1>4 DEF Holds
<1>10. Placed'
  <2>1. \A v \in Workers : ~ (current'[v] = m /\ at'[v] # "unlock")
    BY ONLY <1>2, <1>7, NullIsNot, m \in Fibers
  <2>2. Comes(m, "ready", Null) \/ Comes(m, "none", Null)
    <3>1. CASE stack'[m] = 0
      BY ONLY <1>2, <1>4, <1>6, <1>9, <2>1, <3>1, m \in Fibers DEF Comes
    <3>2. CASE stack'[m] # 0
      BY ONLY <1>2, <1>4, <1>6, <1>9, <2>1, <3>2, m \in Fibers DEF Comes
    <3> QED
      BY <3>1, <3>2
  <2>3. ASSUME NEW g \in Fibers, g # m PROVE Stays(g)
    <3>1. \A v \in Workers : (current'[v] = g /\ at'[v] # "unlock") <=> (current[v] = g /\ at[v] # "unlock")
      BY ONLY <1>1, <1>7, <2>3, NullIsNot
    <3> QED
      BY ONLY <1>4, <1>5, <1>6, <1>9, <2>3, <3>1 DEF Stays
  <2>4. IsPlace("ready", Null) /\ IsPlace("none", Null)
    BY DEF IsPlace
  <2>5. \A g \in Fibers : Stays(g) \/ \E kind, place : IsPlace(kind, place) /\ Comes(g, kind, place)
    BY ONLY <2>2, <2>3, <2>4
  <2> QED
    BY ONLY <1>0, <2>5, PlacedEach
<1>11. Busy'
  <2>1. BusyAt(w)'
    BY <1>7, NullIsNot DEF BusyAt
  <2> QED
    BY ONLY <1>0, <1>2, <1>4, <1>7, <2>1, OthersBusy, w \in Workers
<1>12. StacksHaveOneOwner'
  BY <1>5 DEF Stacks
<1>13. \A g \in Fibers : stack[g] = 0 => stack'[g] = 0
  BY ONLY <1>2, <1>5
<1>14. closed' = FALSE => closed = FALSE /\ \A g \in Fibers : stack[g] # 0 /\ todo[g] # <<>> => stack'[g] # 0
  BY ONLY <1>4, <1>5
<1> QED
  BY ONLY <1>4, <1>6, <1>8, <1>10, <1>11, <1>12, <1>13, <1>14, SchedulerStep, IInv, SyncTypes'

\* The worker is elsewhere, or free, and no fiber is.
LEMMA WorkerStep ==
    ASSUME IInv, SyncTypes', UNCHANGED <<poolVars, ready, todo, awaiter, stackVars, queue, old, access, isDone>>,
           NEW w \in Workers, NEW place \in {"idle", "resumed", "schedule"}, Goto(w, place),
           current' = IF place = "idle" THEN [current EXCEPT ![w] = Null] ELSE current,
           at[w] # "idle", at[w] = "unlock" <=> place = "idle", BusyAt(w)'
    PROVE  IInv'
<1>0. CoreTypes /\ SyncTypes /\ Placed /\ QueuesOnce /\ Busy /\ StacksHaveOneOwner
  BY DEF IInv, Core
<1>1. /\ closed' = closed /\ ready' = ready /\ todo' = todo /\ awaiter' = awaiter
      /\ stack' = stack /\ freed' = freed /\ allocated' = allocated
      /\ queue' = queue /\ old' = old /\ access' = access /\ isDone' = isDone
  BY DEF poolVars, stackVars
<1>2. /\ \A v \in Workers : v # w => current'[v] = current[v] /\ at'[v] = at[v]
      /\ at'[w] = place /\ current'[w] = IF place = "idle" THEN Null ELSE current[w]
      /\ CoreTypes'
  BY <1>0, <1>1 DEF Goto, CoreTypes
<1>3. Placed'
  <2>1. ASSUME NEW g \in Fibers PROVE Stays(g)
    <3>1. \A v \in Workers : (current'[v] = g /\ at'[v] # "unlock") <=> (current[v] = g /\ at[v] # "unlock")
      BY <1>2, NullIsNot
    <3>2. \A h \in Fibers : Holds(h, g)' <=> Holds(h, g)
      BY ONLY <1>1 DEF Holds
    <3> QED
      BY ONLY <1>1, <3>1, <3>2 DEF Stays
  <2> QED
    BY <1>0, <2>1, PlacedEach
<1>4. Busy'
  <2>1. \A v \in Workers : v # w /\ current[v] = Null => at[v] = "idle"
    BY <1>0 DEF Busy, BusyAt
  <2>2. ASSUME NEW v \in Workers, v # w PROVE BusyAt(v)'
    <3>1. BusyAt(v)
      BY <1>0 DEF Busy
    <3>2. at'[v] = at[v] /\ current'[v] = current[v]
      BY <1>2, <2>2
    <3> QED
      BY ONLY <1>1, <3>1, <3>2 DEF BusyAt, At
  <2>3. \A v \in Workers : BusyAt(v)'
    BY <2>2
  <2> QED
    BY ONLY <2>3 DEF Busy
<1>5. StacksHaveOneOwner' /\ IsInjective(ready')
  BY <1>0, <1>1 DEF StacksHaveOneOwner, Alive, QueuesOnce
<1> QED
  BY ONLY <1>1, <1>2, <1>3, <1>4, <1>5, SchedulerStep, IInv, SyncTypes'

LEMMA WorkersSteps ==
    ASSUME IInv, UNCHANGED <<poolVars, syncVars>>, NEW w \in Workers
    PROVE  /\ UNCHANGED futexVars /\ (AwaitYield(w) \/ Delete(w) \/ \E f \in Fibers : Finish(w, f)) => IInv'
           /\ AwaitSchedule(w) \/ AwaitUnlock(w) => IInv'
<1>0. CoreTypes /\ SyncTypes /\ Placed /\ Busy
  BY DEF IInv, Core
<1>1. UNCHANGED futexVars => SyncTypes'
  BY <1>0 DEF SyncTypes, poolVars, futexVars, syncVars, condVars, groupVars
<1>2. access' = access /\ isDone' = isDone
  BY DEF syncVars, condVars, groupVars
<1>3. ASSUME UNCHANGED futexVars, AwaitYield(w) PROVE IInv'
  <2>1. at[w] = "resumed" /\ Schedule(current[w]) /\ Goto(w, "idle") /\ current' = [current EXCEPT ![w] = Null]
    BY <1>3 DEF AwaitYield, Idle
  <2>2. UNCHANGED <<todo, awaiter, allocated, queue, old>>
    BY <1>3 DEF AwaitYield, futexVars
  <2>3. SyncTypes'
    BY <1>1, <1>3
  <2> QED
    BY <1>2, <2>1, <2>2, <2>3, LeaveStep
<1>4. ASSUME UNCHANGED futexVars, Delete(w) PROVE IInv'
  <2>1. at[w] \in {"resumed", "thrown"} /\ todo[current[w]] = <<>>
    BY <1>0, <1>4 DEF Delete, Busy, BusyAt
  <2>2. /\ Discard(current[w]) /\ ready' = ready /\ Goto(w, "idle") /\ current' = [current EXCEPT ![w] = Null]
        /\ UNCHANGED <<todo, awaiter, allocated, queue, old>>
    BY <1>4 DEF Delete, Idle, futexVars
  <2>3. SyncTypes'
    BY <1>1, <1>4
  <2> QED
    BY <1>2, <2>1, <2>2, <2>3, LeaveStep
<1>5. ASSUME UNCHANGED futexVars, NEW f \in Fibers, Finish(w, f) PROVE IInv'
  <2>1. at[w] = "fiber" /\ current[w] = f /\ todo[f] = <<>> /\ Goto(w, "resumed") /\ awaiter[f] = "none"
    BY <1>0, <1>5 DEF Finish, On, Busy, BusyAt
  <2>2. UNCHANGED <<ready, current, todo, awaiter, stackVars, queue, old>>
    BY <1>5 DEF Finish, futexVars
  <2>3. SyncTypes'
    BY <1>1, <1>5
  <2>4. BusyAt(w)'
    <3>1. at'[w] = "resumed"
      BY <1>0, <2>1 DEF CoreTypes, Goto
    <3> QED
      BY ONLY <2>1, <2>2, <3>1, FutexesAreNot, NullIsNot, f \in Fibers DEF BusyAt
  <2> QED
    BY <1>2, <2>1, <2>2, <2>3, <2>4, WorkerStep
<1>6. ASSUME AwaitSchedule(w) PROVE IInv'
  <2>1. at[w] = "schedule" /\ Schedule(current[w]) /\ Goto(w, "unlock") /\ current' = current
    BY <1>6 DEF AwaitSchedule
  <2>2. UNCHANGED futexVars /\ UNCHANGED <<todo, awaiter, allocated, queue, old>>
    BY <1>6 DEF AwaitSchedule, futexVars
  <2>3. SyncTypes'
    BY <1>1, <2>2
  <2> QED
    BY <1>2, <2>1, <2>2, <2>3, LeaveStep
<1>7. ASSUME AwaitUnlock(w) PROVE IInv'
  <2>1. at[w] = "unlock" /\ Goto(w, "idle") /\ current' = [current EXCEPT ![w] = Null]
    BY <1>7 DEF AwaitUnlock, Idle
  <2>2. UNCHANGED <<ready, todo, awaiter, stackVars, queue, old>>
    BY <1>7 DEF AwaitUnlock
  <2>3. SyncTypes'
    <3>1. PICK x \in Futexes : spin' = [spin EXCEPT ![x] = Null]
      BY <1>7 DEF AwaitUnlock, SpinUnlock
    <3> QED
      BY <1>0, <2>2, <3>1 DEF SyncTypes, poolVars, syncVars, condVars, groupVars
  <2>4. BusyAt(w)'
    <3>1. at'[w] = "idle" /\ current'[w] = Null
      BY <1>0, <2>1 DEF CoreTypes, Goto
    <3> QED
      BY ONLY <3>1 DEF BusyAt
  <2> QED
    BY <1>2, <2>1, <2>2, <2>3, <2>4, WorkerStep
<1> QED
  BY <1>3, <1>4, <1>5, <1>6, <1>7

\* The fiber that has left its stack waits, unless the cell has changed.
LEMMA AwaitSuspendStep ==
    ASSUME IInv, UNCHANGED <<poolVars, syncVars>>, NEW w \in Workers, AwaitSuspend(w, Cell)
    PROVE  IInv'
<1>0. /\ Core /\ CoreTypes /\ SyncTypes /\ Placed /\ QueuesOnce /\ Busy /\ StacksHaveOneOwner /\ Waiters /\ Shapes
      /\ GoOnce /\ Locking
  BY DEF IInv, Core
<1>1. at[w] = "resumed" /\ awaiter[current[w]] \in Futexes
  BY DEF AwaitSuspend
<1>2. PICK m \in Fibers, x \in Futexes : m = current[w] /\ x = awaiter[m]
  BY <1>0, <1>1, Running
<1>3. /\ stack[m] # 0 /\ m \notin ToSet(ready)
      /\ \A v \in Workers : v # w /\ current[v] = m => at[v] = "unlock"
      /\ \A y \in Futexes : m \notin ToSet(queue[y])
      /\ \A h \in Fibers : ~ Holds(h, m)
  BY <1>0, <1>1, <1>2, Running
<1>4. At(m, "unpark", x)
  BY <1>0, <1>1, <1>2 DEF Busy, BusyAt
<1>5. /\ closed' = closed /\ ready' = ready /\ current' = current /\ todo' = todo /\ awaiter' = awaiter
      /\ stack' = stack /\ freed' = freed /\ allocated' = allocated /\ old' = old
      /\ access' = access /\ isDone' = isDone
  BY DEF AwaitSuspend, poolVars, stackVars, syncVars, condVars, groupVars
<1>6. SyncTypes'
  <2>1. spin' = [spin EXCEPT ![x] = w]
    BY <1>2 DEF AwaitSuspend, SpinLock
  <2> QED
    BY <1>0, <1>5, <2>1 DEF SyncTypes, poolVars, syncVars, condVars, groupVars
<1>7. CASE Cell[x] # old[m]
  <2>1. queue' = queue /\ Goto(w, "schedule")
    BY <1>2, <1>7 DEF AwaitSuspend
  <2>2. BusyAt(w)'
    <3>1. at'[w] = "schedule"
      BY <1>0, <2>1 DEF CoreTypes, Goto
    <3> QED
      BY ONLY <1>2, <1>5, <3>1, NullIsNot, m \in Fibers DEF BusyAt
  <2>3. UNCHANGED <<poolVars, ready, todo, awaiter, stackVars, queue, old, access, isDone>>
    BY <1>5, <2>1 DEF stackVars
  <2> QED
    BY ONLY <1>1, <1>5, <1>6, <2>1, <2>2, <2>3, WorkerStep, IInv, w \in Workers
<1>8. CASE Cell[x] = old[m]
  <2>1. queue' = [queue EXCEPT ![x] = Append(@, m)] /\ at' = [at EXCEPT ![w] = "unlock"]
    BY <1>2, <1>8 DEF AwaitSuspend, Goto
  <2>2. queue \in [Futexes -> Seq(Fibers)] /\ IsInjective(queue[x]) /\ \A y \in Futexes : IsInjective(queue[y])
    BY <1>0 DEF CoreTypes, QueuesOnce
  <2>3. /\ Append(queue[x], m) \in Seq(Fibers) /\ IsInjective(Append(queue[x], m))
        /\ ToSet(Append(queue[x], m)) = ToSet(queue[x]) \cup {m}
    BY <1>3, <2>2, InjectiveAppend, ToSetAppend
  <2>4. /\ queue' \in [Futexes -> Seq(Fibers)] /\ \A y \in Futexes : IsInjective(queue'[y])
        /\ ToSet(queue'[x]) = ToSet(queue[x]) \cup {m} /\ \A y \in Futexes : y # x => queue'[y] = queue[y]
    BY <2>1, <2>2, <2>3
  <2>5. /\ at'[w] = "unlock" /\ \A v \in Workers : v # w => at'[v] = at[v]
        /\ CoreTypes'
    BY <1>0, <1>5, <2>1, <2>4 DEF CoreTypes
  <2>6. \A h, g \in Fibers : Holds(h, g)' <=> Holds(h, g)
    BY ONLY <1>5 DEF Holds
  <2>7. Placed'
    <3>1. \A v \in Workers : ~ (current'[v] = m /\ at'[v] # "unlock")
      BY ONLY <1>3, <1>5, <2>5
    <3>2. Comes(m, "queue", x) /\ IsPlace("queue", x)
      BY ONLY <1>3, <1>5, <2>4, <2>6, <3>1, m \in Fibers, x \in Futexes DEF Comes, IsPlace
    <3>3. ASSUME NEW g \in Fibers, g # m PROVE Stays(g)
      <4>1. \A v \in Workers : (current'[v] = g /\ at'[v] # "unlock") <=> (current[v] = g /\ at[v] # "unlock")
        BY ONLY <1>1, <1>2, <1>5, <2>5, <3>3
      <4>2. \A y \in Futexes : g \in ToSet(queue'[y]) <=> g \in ToSet(queue[y])
        BY ONLY <2>4, <3>3
      <4> QED
        BY ONLY <1>5, <2>6, <3>3, <4>1, <4>2 DEF Stays
    <3> QED
      BY <1>0, <3>2, <3>3, PlacedEach
  <2>8. Busy'
    <3>1. BusyAt(w)'
      BY ONLY <1>2, <1>5, <2>5, NullIsNot, m \in Fibers DEF BusyAt
    <3> QED
      BY ONLY <1>0, <1>3, <1>5, <2>5, <3>1, OthersBusy, w \in Workers
  <2>9. Waiters'
    <3>1. /\ \A f, y : At(f, "unpark", y)' <=> At(f, "unpark", y)
          /\ \A f, g : Here("waker", g, f)' <=> Here("waker", g, f)
          /\ \A f, g : At(f, "unpark", Head(todo[g])[2])' <=> At(f, "unpark", Head(todo[g])[2])
      BY ONLY <1>5 DEF At, Here
    <3>2. \A f \in Fibers, y \in Futexes : f \in ToSet(queue'[y]) => At(f, "unpark", y)
      <4>1. \A f \in Fibers, y \in Futexes : f \in ToSet(queue[y]) => At(f, "unpark", y)
        BY ONLY <1>0 DEF Waiters
      <4> QED
        BY ONLY <1>4, <2>4, <4>1
    <3> QED
      BY ONLY <1>0, <1>5, <3>1, <3>2 DEF Waiters
  <2>10. Shapes' /\ GoOnce' /\ StacksHaveOneOwner' /\ QueuesOnce'
    BY <1>0, <1>5, <2>4 DEF Shapes, GoOnce, GoAt, StacksHaveOneOwner, Alive, QueuesOnce
  <2>11. Locking'
    BY <1>0, <1>5 DEF Locking, MutualExclusion, Inside
  <2>12. NoFiberForgotten'
    <3>1. MutexWaits' => MutexWaits /\ \A g \in Fibers : MutexWaker(g) => MutexWaker(g)'
      <4>1. CASE x = "mutex"
        <5>1. old[m] = TRUE
          BY <1>0, <1>4, <4>1 DEF Waiters
        <5>2. Cell["mutex"] = access
          BY FutexesAre DEF Cell
        <5> QED
          BY <1>5, <1>8, <4>1, <5>1, <5>2 DEF MutexWaits
      <4>2. CASE x # "mutex"
        <5>1. queue'["mutex"] = queue["mutex"]
          BY <2>4, <4>2, FutexesAre
        <5> QED
          BY ONLY <1>5, <5>1 DEF MutexWaits, MutexWaker
      <4> QED
        BY <4>1, <4>2
    <3>2. GroupWaits' => GroupWaits /\ \A g \in Fibers : GroupWaker(g) => GroupWaker(g)'
      <4>1. CASE x = "group"
        <5>1. old[m] = FALSE
          BY <1>0, <1>4, <4>1 DEF Waiters
        <5>2. Cell["group"] = isDone
          BY FutexesAre DEF Cell
        <5> QED
          BY <1>5, <1>8, <4>1, <5>1, <5>2 DEF GroupWaits
      <4>2. CASE x # "group"
        <5>1. queue'["group"] = queue["group"]
          BY <2>4, <4>2, FutexesAre
        <5> QED
          BY ONLY <1>5, <5>1 DEF GroupWaits, GroupWaker
      <4> QED
        BY <4>1, <4>2
    <3>3. NoFiberForgotten
      BY DEF IInv
    <3> QED
      BY ONLY <1>0, <1>5, <1>6, <2>5, <3>1, <3>2, <3>3, Minds
  <2> QED
    BY ONLY <1>6, <2>5, <2>7, <2>8, <2>9, <2>10, <2>11, <2>12 DEF IInv, Core
<1> QED
  BY <1>7, <1>8

LEMMA StopStep ==
    ASSUME IInv, Stop, UNCHANGED <<futexVars, syncVars>>
    PROVE  IInv'
<1>0. CoreTypes /\ SyncTypes /\ Placed /\ QueuesOnce /\ Busy /\ Stacks
  BY DEF IInv, Core, CoreTypes, Stacks
<1>1. /\ closed' = TRUE /\ ready' = <<>> /\ current' = current /\ at' = at /\ todo' = todo /\ awaiter' = awaiter
      /\ allocated' = allocated /\ queue' = queue /\ old' = old /\ access' = access /\ isDone' = isDone
  BY DEF Stop, futexVars, syncVars, condVars, groupVars
<1>2. /\ ready \in Seq(Fibers) /\ IsInjective(ready) /\ ToSet(ready) \subseteq Fibers
  BY <1>0, ToSetIsImage DEF CoreTypes, QueuesOnce
<1>3. ASSUME NEW g \in ToSet(ready)
      PROVE  /\ stack[g] # 0 /\ g \in Fibers
             /\ \A v \in Workers : ~ (current[v] = g /\ at[v] # "unlock")
             /\ \A x \in Futexes : g \notin ToSet(queue[x])
             /\ \A h \in Fibers : ~ Holds(h, g)
  <2>1. Here("ready", Null, g) /\ g \in Fibers
    BY <1>2 DEF Here
  <2> QED
    BY <1>0, <2>1, OnlyThere
<1>4. Stacks' /\ \A g \in Fibers : stack'[g] = IF g \in ToSet(ready) THEN 0 ELSE stack[g]
  <2>1. ToSet(ready) \subseteq Alive
    BY <1>3 DEF Alive
  <2> QED
    BY <1>0, <1>2, <2>1, Stopped
<1>5. SyncTypes'
  BY <1>0 DEF SyncTypes, Stop, futexVars, syncVars, condVars, groupVars
<1>6. /\ ready' \in Seq(Fibers) /\ IsInjective(ready') /\ ToSet(ready') = {}
  BY <1>1 DEF ToSet, IsInjective
<1>7. CoreTypes'
  BY <1>0, <1>1, <1>4, <1>6 DEF CoreTypes, Stacks
<1>8. \A h, g \in Fibers : Holds(h, g)' <=> Holds(h, g)
  BY ONLY <1>1 DEF Holds
<1>9. Placed'
  <2>1. ASSUME NEW g \in ToSet(ready) PROVE Comes(g, "none", Null) /\ g \in Fibers
    BY ONLY <1>1, <1>3, <1>4, <1>6, <1>8, <2>1 DEF Comes
  <2>2. ASSUME NEW g \in Fibers, g \notin ToSet(ready) PROVE Stays(g)
    BY ONLY <1>1, <1>4, <1>6, <1>8, <2>2 DEF Stays
  <2>3. IsPlace("none", Null)
    BY DEF IsPlace
  <2> QED
    BY <1>0, <2>1, <2>2, <2>3, PlacedEach
<1>10. Busy'
  <2>1. \A v \in Workers : BusyAt(v)'
    BY ONLY <1>0, <1>1 DEF Busy, BusyAt, At
  <2> QED
    BY ONLY <2>1 DEF Busy
<1>11. StacksHaveOneOwner'
  BY <1>4 DEF Stacks
<1>12. (\A g \in Fibers : stack[g] = 0 => stack'[g] = 0) /\ closed' # FALSE
  BY ONLY <1>1, <1>4
<1> QED
  BY ONLY <1>1, <1>5, <1>6, <1>7, <1>9, <1>10, <1>11, <1>12, SchedulerStep, IInv

-----------------------------------------------------------------------------
(* Steps of a fiber that concern its worker *)

\* f's first operation is done.
LEMMA OperationDone ==
    ASSUME CoreTypes, Shapes, Locking, NEW f \in Fibers, todo[f] # <<>>, Head(todo[f])[1] \notin {"lock", "unlock"},
           Then(f, <<>>), access' = access
    PROVE  /\ todo' \in [Fibers -> Seq(Operations)] /\ Shapes' /\ Locking'
           /\ todo'[f] # <<>> => Head(todo'[f])[1] \notin {"awake", "unpark"}
           /\ todo' = [todo EXCEPT ![f] = <<>> \o Tail(@)]
           /\ \A g \in Fibers : g # f => todo'[g] = todo[g]
<1>1. /\ todo \in [Fibers -> Seq(Operations)] /\ todo[f] \in Seq(Operations)
      /\ WellShaped(todo[f]) /\ WellLocked(todo[f])
  BY DEF CoreTypes, Shapes, Locking
<1>2. /\ todo' = [todo EXCEPT ![f] = <<>> \o Tail(@)] /\ todo'[f] = <<>> \o Tail(todo[f])
      /\ \A g \in Fibers : g # f => todo'[g] = todo[g]
  BY <1>1 DEF Then
<1> DEFINE ops == <<>>
<1>3. /\ Plain(ops) /\ ops \in Seq(Operations) /\ Len(ops) <= 2 /\ \A i \in 1 .. Len(ops) : ops[i][1] \notin OfMutex
      /\ todo'[f] = ops \o Tail(todo[f])
  BY <1>2, PlainNothing DEF Plain
<1> HIDE DEF ops
<1>4. WellShaped(todo'[f]) /\ todo'[f] \in Seq(Operations)
  BY <1>1, <1>3, ShapeKept
<1>5. todo'[f] # <<>> => Head(todo'[f])[1] \notin {"awake", "unpark"}
  BY <1>1, <1>3, NewHead
<1>6. WellLocked(todo'[f]) /\ (UnlocksNext(todo'[f], 0) <=> UnlocksNext(todo[f], 0))
  <2>1. /\ WellLocked(ops \o Tail(todo[f]))
        /\ UnlocksNext(ops \o Tail(todo[f]), 0) <=> UnlocksNext(todo[f], 0)
    BY ONLY <1>1, <1>3, NeutralKept, todo[f] # <<>>, Head(todo[f])[1] \notin {"lock", "unlock"}
  <2> QED
    BY ONLY <1>3, <2>1
<1>7. Locking'
  BY ONLY <1>2, <1>6, LockingKept, Locking, f \in Fibers, access' = access
<1>8. todo' \in [Fibers -> Seq(Operations)]
  BY ONLY <1>1, <1>2, <1>4, f \in Fibers
<1>9. Shapes'
  <2>1. ASSUME NEW g \in Fibers PROVE WellShaped(todo'[g])
    BY ONLY <1>2, <1>4, Shapes, g \in Fibers DEF Shapes
  <2> QED
    BY ONLY <2>1 DEF Shapes
<1> QED
  BY ONLY <1>2, <1>5, <1>7, <1>8, <1>9

\* A fiber f that runs leaves its stack, with new operations.
LeavesStack(w, f, place) ==
    /\ SyncTypes' /\ at[w] = "fiber" /\ current[w] = f
    /\ todo[f] # <<>> /\ Head(todo[f])[1] # "awake"
    /\ UNCHANGED <<poolVars, ready, current, stackVars, queue, access, isDone>>
    /\ Goto(w, place)
    /\ awaiter' \in [Fibers -> {"none", "yield"} \cup Futexes]
    /\ \A g \in Fibers : g # f => awaiter'[g] = awaiter[g]
    /\ todo' \in [Fibers -> Seq(Operations)] /\ Shapes' /\ Locking' /\ GoOnce'
    /\ \A g \in Fibers : g # f => todo'[g] = todo[g]
    /\ todo'[f] # <<>> => Head(todo'[f])[1] # "awake"
    /\ \A g \in Fibers : g # f => old'[g] = old[g]
    /\ At(f, "unpark", "mutex")' => old'[f] = TRUE
    /\ At(f, "unpark", "group")' => old'[f] = FALSE
    /\ place = "thrown" => todo'[f] = <<>>
    /\ place = "resumed" => /\ awaiter'[f] # "none"
                            /\ awaiter'[f] \in Futexes => At(f, "unpark", awaiter[f])'
    /\ MutexWaker(f) => MutexWaker(f)'
    /\ GroupWaker(f) => GroupWaker(f)'

LEMMA SuspendStep ==
    ASSUME IInv, NEW w \in Workers, NEW f \in Fibers, NEW place \in {"resumed", "thrown"}, LeavesStack(w, f, place)
    PROVE  IInv'
<1>a. /\ SyncTypes' /\ at[w] = "fiber" /\ current[w] = f
      /\ todo[f] # <<>> /\ Head(todo[f])[1] # "awake"
      /\ UNCHANGED <<poolVars, ready, current, stackVars, queue, access, isDone>>
      /\ Goto(w, place)
      /\ awaiter' \in [Fibers -> {"none", "yield"} \cup Futexes]
      /\ \A g \in Fibers : g # f => awaiter'[g] = awaiter[g]
      /\ todo' \in [Fibers -> Seq(Operations)] /\ Shapes' /\ Locking' /\ GoOnce'
      /\ \A g \in Fibers : g # f => todo'[g] = todo[g]
      /\ todo'[f] # <<>> => Head(todo'[f])[1] # "awake"
      /\ \A g \in Fibers : g # f => old'[g] = old[g]
      /\ At(f, "unpark", "mutex")' => old'[f] = TRUE
      /\ At(f, "unpark", "group")' => old'[f] = FALSE
      /\ place = "thrown" => todo'[f] = <<>>
      /\ place = "resumed" => /\ awaiter'[f] # "none"
                              /\ awaiter'[f] \in Futexes => At(f, "unpark", awaiter[f])'
      /\ MutexWaker(f) => MutexWaker(f)'
      /\ GroupWaker(f) => GroupWaker(f)'
  BY DEF LeavesStack
<1> USE <1>a
<1>0. CoreTypes /\ SyncTypes /\ Placed /\ QueuesOnce /\ Busy /\ StacksHaveOneOwner /\ Waiters /\ NoFiberForgotten
  BY DEF IInv, Core
<1>1. /\ closed' = closed /\ ready' = ready /\ current' = current /\ queue' = queue
      /\ stack' = stack /\ freed' = freed /\ allocated' = allocated /\ access' = access /\ isDone' = isDone
  BY DEF poolVars, stackVars
<1>2. /\ stack[f] # 0
      /\ \A v \in Workers : v # w /\ current[v] = f => at[v] = "unlock"
      /\ \A x \in Futexes : f \notin ToSet(queue[x])
      /\ \A h \in Fibers : ~ Holds(h, f)
  BY <1>0, Running
<1>3. at'[w] = place /\ (\A v \in Workers : v # w => at'[v] = at[v]) /\ CoreTypes'
  BY <1>0, <1>1 DEF Goto, CoreTypes
<1>4. Placed'
  <2>1. ASSUME NEW g \in Fibers PROVE Stays(g)
    <3>1. \A v \in Workers : (current'[v] = g /\ at'[v] # "unlock") <=> (current[v] = g /\ at[v] # "unlock")
      BY ONLY <1>1, <1>3, place \in {"resumed", "thrown"}, at[w] = "fiber"
    <3>2. \A h \in Fibers : Holds(h, g)' <=> Holds(h, g)
      <4>1. ~ Holds(f, g) /\ ~ Holds(f, g)'
        BY DEF Holds
      <4>2. \A h \in Fibers : h # f => (Holds(h, g)' <=> Holds(h, g))
        BY DEF Holds
      <4> QED
        BY ONLY <4>1, <4>2
    <3> QED
      BY ONLY <1>1, <3>1, <3>2 DEF Stays
  <2> QED
    BY <1>0, <2>1, PlacedEach
<1>5. Busy'
  <2>1. BusyAt(w)'
    BY <1>1, <1>3, NullIsNot DEF BusyAt
  <2>2. \A v \in Workers : v # w => at'[v] = at[v] /\ current'[v] = current[v]
    BY ONLY <1>1, <1>3
  <2>3. \A g \in Fibers : g # f => awaiter'[g] = awaiter[g] /\ todo'[g] = todo[g]
    OBVIOUS
  <2> QED
    BY ONLY <1>0, <1>2, <2>1, <2>2, <2>3, OthersBusy, w \in Workers
<1>6. Waiters'
  <2>1. \A x \in Futexes : ToSet(queue'[x]) \subseteq ToSet(queue[x])
    BY <1>1
  <2> QED
    BY <1>0, <1>2, <2>1, WaitersSwapped
<1>7. QueuesOnce' /\ StacksHaveOneOwner'
  BY <1>0, <1>1 DEF QueuesOnce, StacksHaveOneOwner, Alive
<1>8. NoFiberForgotten'
  <2>1. \A g \in Fibers : g # f => (MutexWaker(g) => MutexWaker(g)') /\ (GroupWaker(g) => GroupWaker(g)')
    BY ONLY <1>1, \A g \in Fibers : g # f => todo'[g] = todo[g] DEF MutexWaker, GroupWaker
  <2>2. (MutexWaits' => MutexWaits) /\ (GroupWaits' => GroupWaits)
    BY ONLY <1>1 DEF MutexWaits, GroupWaits
  <2>3. \A g \in Fibers : (MutexWaker(g) => MutexWaker(g)') /\ (GroupWaker(g) => GroupWaker(g)')
    BY <2>1
  <2> QED
    BY ONLY <1>0, <1>1, <1>3, <2>2, <2>3, Minds, SyncTypes'
<1> QED
  BY <1>3, <1>4, <1>5, <1>6, <1>7, <1>8 DEF IInv, Core

LEMMA YieldStep ==
    ASSUME IInv, UNCHANGED <<poolVars, futexVars, syncVars>>, NEW w \in Workers, NEW f \in Fibers, Yield(w, f)
    PROVE  IInv'
<1>0. CoreTypes /\ SyncTypes /\ Shapes /\ Locking /\ GoOnce
  BY DEF IInv, Core
<1>1. /\ at[w] = "fiber" /\ current[w] = f /\ todo[f] # <<>> /\ Head(todo[f])[1] = "yield"
      /\ awaiter' = [awaiter EXCEPT ![f] = "yield"] /\ Then(f, <<>>) /\ Goto(w, "resumed")
      /\ UNCHANGED <<ready, current, stackVars>>
  BY DEF Yield, Suspend, Doing, On
<1>2. queue' = queue /\ old' = old /\ access' = access /\ isDone' = isDone /\ stack' = stack
  BY <1>1 DEF futexVars, syncVars, condVars, groupVars, stackVars
<1>3. SyncTypes'
  BY <1>0 DEF SyncTypes, poolVars, futexVars, syncVars, condVars, groupVars
<1>4. /\ todo' \in [Fibers -> Seq(Operations)] /\ Shapes' /\ Locking'
      /\ todo'[f] # <<>> => Head(todo'[f])[1] \notin {"awake", "unpark"}
      /\ todo' = [todo EXCEPT ![f] = <<>> \o Tail(@)]
      /\ \A g \in Fibers : g # f => todo'[g] = todo[g]
  BY <1>0, <1>1, <1>2, OperationDone
<1>5. GoOnce'
  <2>1. <<>> \in Seq(Operations) /\ \A i \in 1 .. Len(<<>>) : <<>>[i][1] # "go"
    OBVIOUS
  <2> QED
    BY ONLY <1>0, <1>1, <1>2, <1>4, <2>1, GoKept, f \in Fibers
<1>6. ~ At(f, "unpark", "mutex")' /\ ~ At(f, "unpark", "group")'
  BY ONLY <1>4 DEF At
<1>7. /\ awaiter' \in [Fibers -> {"none", "yield"} \cup Futexes] /\ awaiter'[f] = "yield"
      /\ \A g \in Fibers : g # f => awaiter'[g] = awaiter[g]
  BY <1>0, <1>1 DEF CoreTypes
<1>8. ~ MutexWaker(f) /\ ~ GroupWaker(f)
  BY <1>1 DEF MutexWaker, GroupWaker
<1>9. UNCHANGED <<poolVars, ready, current, stackVars, queue, access, isDone>> /\ "resumed" \in {"resumed", "thrown"}
  BY <1>1, <1>2
<1> QED
  <2>1. LeavesStack(w, f, "resumed")
    BY ONLY <1>1, <1>2, <1>3, <1>4, <1>5, <1>6, <1>7, <1>8, <1>9, FutexesAreNot DEF LeavesStack
  <2> QED
    BY ONLY IInv, w \in Workers, f \in Fibers, <1>9, <2>1, SuspendStep

LEMMA ThrowStep ==
    ASSUME IInv, UNCHANGED <<poolVars, futexVars, syncVars>>, NEW w \in Workers, NEW f \in Fibers, Throw(w, f)
    PROVE  IInv'
<1>0. CoreTypes /\ SyncTypes /\ Shapes /\ Locking /\ GoOnce
  BY DEF IInv, Core
<1>1. /\ at[w] = "fiber" /\ current[w] = f /\ todo[f] # <<>> /\ Head(todo[f])[1] = "throw"
      /\ todo' = [todo EXCEPT ![f] = <<>>] /\ Goto(w, "thrown") /\ awaiter' = awaiter
      /\ UNCHANGED <<ready, current, stackVars>>
  BY DEF Throw, Doing, On
<1>2. queue' = queue /\ old' = old /\ access' = access /\ isDone' = isDone /\ stack' = stack
  BY <1>1 DEF futexVars, syncVars, condVars, groupVars, stackVars
<1>3. SyncTypes'
  BY <1>0 DEF SyncTypes, poolVars, futexVars, syncVars, condVars, groupVars
<1>4. /\ todo' \in [Fibers -> Seq(Operations)] /\ todo'[f] = <<>>
      /\ \A g \in Fibers : g # f => todo'[g] = todo[g]
  BY <1>0, <1>1 DEF CoreTypes
<1>5. WellShaped(<<>>) /\ WellLocked(<<>>) /\ ~ UnlocksNext(<<>>, 0) /\ \A i \in 1 .. Len(<<>>) : FALSE
  BY DEF WellShaped, WellLocked, UnlocksNext
<1>6. Shapes'
  <2>1. \A g \in Fibers : WellShaped(todo'[g])
    BY <1>0, <1>4, <1>5 DEF Shapes
  <2> QED
    BY <2>1 DEF Shapes
<1>7. Locking'
  BY ONLY <1>0, <1>2, <1>4, <1>5, LockingKept, f \in Fibers
<1>8. GoOnce'
  <2>1. SUFFICES ASSUME NEW g \in Fibers, NEW h \in Fibers, NEW i \in 1 .. Len(todo'[g]), NEW j \in 1 .. Len(todo'[h])
                 PROVE  GoAt(g, i, h, j)'
    BY DEF GoOnce
  <2>2. g # f /\ h # f
    BY <1>4, <1>5
  <2>3. todo'[g] = todo[g] /\ todo'[h] = todo[h]
    BY <1>4, <2>2
  <2>4. GoAt(g, i, h, j)
    BY <1>0, <2>3 DEF GoOnce
  <2> QED
    BY ONLY <1>2, <2>3, <2>4 DEF GoAt
<1>9. ~ At(f, "unpark", "mutex")' /\ ~ At(f, "unpark", "group")'
  BY ONLY <1>4 DEF At
<1>10. awaiter' \in [Fibers -> {"none", "yield"} \cup Futexes]
  BY <1>0, <1>1 DEF CoreTypes
<1>11. ~ MutexWaker(f) /\ ~ GroupWaker(f)
  BY <1>1 DEF MutexWaker, GroupWaker
<1>12. UNCHANGED <<poolVars, ready, current, stackVars, queue, access, isDone>> /\ "thrown" \in {"resumed", "thrown"}
  BY <1>1, <1>2
<1> QED
  <2>1. LeavesStack(w, f, "thrown")
    BY <1>1, <1>2, <1>3, <1>4, <1>6, <1>7, <1>8, <1>9, <1>10, <1>11, <1>12 DEF LeavesStack
  <2> QED
    BY ONLY IInv, w \in Workers, f \in Fibers, <1>12, <2>1, SuspendStep

LEMMA ParkStep ==
    ASSUME IInv, UNCHANGED <<poolVars, syncVars>>, NEW w \in Workers, NEW f \in Fibers, Park(w, f)
    PROVE  IInv'
<1>0. CoreTypes /\ SyncTypes /\ Shapes /\ Locking /\ GoOnce
  BY DEF IInv, Core
<1>1. /\ todo[f] \in Seq(Operations) /\ todo[f] # <<>> /\ Head(todo[f]) \in Operations
      /\ Head(todo[f])[1] = "park" /\ Head(todo[f]) = todo[f][1] /\ 1 \in 1 .. Len(todo[f])
      /\ at[w] = "fiber" /\ current[w] = f
  BY <1>0 DEF CoreTypes, Park, Doing, On
<1>2. PICK x \in Futexes : x = Head(todo[f])[2] /\ Head(todo[f])[3] \in BOOLEAN \cup Nat
  BY <1>1, OperationsAre
<1>3. /\ ShapedAt(todo[f], 1)
      /\ x = "mutex" => /\ 2 \in 1 .. Len(todo[f]) /\ todo[f][2][1] = "lock" /\ Head(todo[f])[3] = TRUE
      /\ x = "group" => Head(todo[f])[3] = FALSE
  <2>1. ShapedAt(todo[f], 1)
    BY <1>0, <1>1 DEF Shapes, WellShaped
  <2>2. /\ x = "mutex" => 1 + 1 \in 1 .. Len(todo[f]) /\ todo[f][1 + 1][1] = "lock" /\ Head(todo[f])[3] = TRUE
        /\ x = "group" => Head(todo[f])[3] = FALSE
    BY ONLY <1>1, <1>2, <2>1 DEF ShapedAt
  <2>3. 1 + 1 = 2
    OBVIOUS
  <2> QED
    BY ONLY <2>1, <2>2, <2>3
<1> DEFINE o == <<"unpark", x>>
<1>4. /\ old' = [old EXCEPT ![f] = Head(todo[f])[3]] /\ awaiter' = [awaiter EXCEPT ![f] = x]
      /\ Then(f, <<o>>) /\ Goto(w, "resumed")
      /\ UNCHANGED <<ready, current, stackVars, queue, spin>>
  BY <1>2 DEF Park, Suspend
<1>5. o \in Operations /\ o[1] = "unpark" /\ o[2] = x
  BY DEF Operations, Parts
<1> HIDE DEF o
<1>6. ShapedAt(<<o>> \o Tail(todo[f]), 1)
  <2> DEFINE r == <<o>> \o Tail(todo[f])
             n == Len(todo[f])
  <2>1. <<o>> \in Seq(Operations) /\ Len(<<o>>) = 1 /\ <<o>>[1] = o /\ 1 \in 1 .. 1 /\ 1 + 1 = 2
    BY <1>5
  <2>2. /\ n \in Nat \ {0} /\ Len(r) = 1 + n - 1 /\ r[1] = o
        /\ \A i \in 1 .. n - 1 : r[1 + i] = todo[f][i + 1]
    BY <1>1, <2>1, Replaced
  <2> HIDE DEF r
  <2>3. 2 \in 1 .. n => 2 \in 1 .. Len(r) /\ r[2] = todo[f][2]
    <3>1. ASSUME 2 \in 1 .. n PROVE 1 \in 1 .. n - 1 /\ 2 \in 1 .. 1 + n - 1
      BY <2>2, <3>1
    <3> HIDE DEF n
    <3> QED
      BY ONLY <2>1, <2>2, <3>1
  <2>4. ShapedAt(r, 1)
    BY ONLY <1>3, <1>5, <2>1, <2>2, <2>3 DEF ShapedAt, n
  <2> QED
    BY <2>4 DEF r
<1>7. /\ todo' \in [Fibers -> Seq(Operations)] /\ Shapes'
      /\ todo'[f] # <<>> /\ Head(todo'[f]) = o /\ todo'[f] = <<o>> \o Tail(todo[f])
      /\ todo' = [todo EXCEPT ![f] = <<o>> \o Tail(@)]
      /\ \A g \in Fibers : g # f => todo'[g] = todo[g]
  BY ONLY <1>0, <1>1, <1>4, <1>5, <1>6, OperationSwapped, f \in Fibers
<1>8. access' = access /\ isDone' = isDone /\ stack' = stack /\ queue' = queue
  BY <1>4 DEF syncVars, condVars, groupVars, stackVars
<1>9. Locking'
  <2>1. o[1] \notin OfMutex /\ Head(todo[f])[1] \notin {"lock", "unlock"}
    BY ONLY <1>1, <1>5 DEF OfMutex
  <2> QED
    BY ONLY <1>0, <1>1, <1>5, <1>7, <1>8, <2>1, LockingSwapped, f \in Fibers
<1>10. GoOnce'
  <2>1. <<o>> \in Seq(Operations) /\ \A i \in 1 .. Len(<<o>>) : <<o>>[i][1] # "go"
    BY <1>5
  <2> QED
    BY ONLY <1>0, <1>1, <1>7, <1>8, <2>1, GoKept, f \in Fibers
<1>11. old'[f] = Head(todo[f])[3] /\ \A g \in Fibers : g # f => old'[g] = old[g]
  BY <1>0, <1>4 DEF SyncTypes
<1>12. SyncTypes'
  BY <1>0, <1>2, <1>4 DEF SyncTypes, poolVars, syncVars, condVars, groupVars
<1>13. \A y : At(f, "unpark", y)' <=> y = x
  BY ONLY <1>5, <1>7 DEF At
<1>14. /\ At(f, "unpark", "mutex")' => old'[f] = TRUE
       /\ At(f, "unpark", "group")' => old'[f] = FALSE
  BY ONLY <1>3, <1>11, <1>13
<1>15. /\ awaiter' \in [Fibers -> {"none", "yield"} \cup Futexes] /\ awaiter'[f] = x
       /\ \A g \in Fibers : g # f => awaiter'[g] = awaiter[g]
  BY <1>0, <1>4 DEF CoreTypes
<1>16. awaiter'[f] # "none" /\ (awaiter'[f] \in Futexes => At(f, "unpark", awaiter[f])')
  <2>1. At(f, "unpark", awaiter[f])'
    BY ONLY <1>5, <1>7, <1>15 DEF At
  <2> QED
    BY <1>15, <2>1, FutexesAreNot
<1>17. MutexWaker(f) => MutexWaker(f)'
  BY ONLY <1>1, <1>2, <1>5, <1>7, <1>8 DEF MutexWaker
<1>18. ~ GroupWaker(f)
  BY ONLY <1>1 DEF GroupWaker
<1>19. UNCHANGED <<poolVars, ready, current, stackVars, queue, access, isDone>> /\ "resumed" \in {"resumed", "thrown"}
  BY <1>4, <1>8
<1>20. todo'[f] # <<>> => Head(todo'[f])[1] # "awake"
  BY <1>5, <1>7
<1> QED
  <2>1. LeavesStack(w, f, "resumed")
    BY ONLY <1>1, <1>4, <1>7, <1>9, <1>10, <1>11, <1>12, <1>14, <1>15, <1>16, <1>17, <1>18, <1>19, <1>20 DEF LeavesStack
  <2> QED
    BY ONLY IInv, w \in Workers, f \in Fibers, <1>19, <2>1, SuspendStep

LEMMA GoStep ==
    ASSUME IInv, UNCHANGED <<poolVars, futexVars, syncVars>>, NEW w \in Workers, NEW f \in Fibers, Go(w, f)
    PROVE  IInv'
<1>0. /\ CoreTypes /\ SyncTypes /\ Shapes /\ Locking /\ GoOnce /\ Placed /\ QueuesOnce /\ Busy /\ Waiters /\ Stacks
      /\ NoFiberForgotten
  BY DEF IInv, Core, CoreTypes, Stacks
<1>1. /\ todo[f] \in Seq(Operations) /\ todo[f] # <<>> /\ Head(todo[f]) \in Operations
      /\ Head(todo[f])[1] = "go" /\ Head(todo[f]) = todo[f][1] /\ 1 \in 1 .. Len(todo[f])
      /\ at[w] = "fiber" /\ current[w] = f
  BY <1>0 DEF CoreTypes, Go, Doing, On
<1>2. PICK g \in Fibers : g = Head(todo[f])[2] /\ Head(todo[f]) = <<"go", g>>
  BY <1>1, OperationsAre
<1>3. stack[g] = 0
  <2>1. GoAt(f, 1, f, 1)
    BY <1>0, <1>1 DEF GoOnce
  <2> QED
    BY ONLY <1>1, <1>2, <2>1 DEF GoAt
<1>4. /\ g \notin ToSet(ready)
      /\ \A v \in Workers : ~ (current[v] = g /\ at[v] # "unlock")
      /\ \A x \in Futexes : g \notin ToSet(queue[x])
      /\ \A h \in Fibers : ~ Holds(h, g)
  BY <1>0, <1>3, Nowhere
<1>5. /\ stack[f] # 0
      /\ \A v \in Workers : v # w /\ current[v] = f => at[v] = "unlock"
      /\ \A x \in Futexes : f \notin ToSet(queue[x])
      /\ \A h \in Fibers : ~ Holds(h, f)
  BY <1>0, <1>1, Running
<1>6. /\ closed' = closed /\ closed \in BOOLEAN /\ current' = current /\ at' = at /\ awaiter' = awaiter
      /\ queue' = queue /\ old' = old /\ access' = access /\ isDone' = isDone /\ Then(f, <<>>)
  BY <1>0 DEF Go, poolVars, futexVars, syncVars, condVars, groupVars, CoreTypes
<1>7. /\ todo' \in [Fibers -> Seq(Operations)] /\ Shapes' /\ Locking'
      /\ todo'[f] # <<>> => Head(todo'[f])[1] \notin {"awake", "unpark"}
      /\ todo' = [todo EXCEPT ![f] = <<>> \o Tail(@)]
      /\ \A h \in Fibers : h # f => todo'[h] = todo[h]
  BY <1>0, <1>1, <1>6, OperationDone
<1>8. /\ Stacks' /\ \A h \in Fibers : h # g => stack'[h] = stack[h]
      /\ \/ stack'[g] = 0 /\ ready' = ready
         \/ stack'[g] # 0 /\ ready' = Append(ready, g)
  <2>1. CASE closed = TRUE
    <3>1. AllocateInVain /\ ready' = ready
      BY <2>1 DEF Go
    <3> QED
      BY <1>0, <1>3, <3>1, AllocatedInVain
  <2>2. CASE closed = FALSE
    <3>1. Allocate(g) /\ ready' = Append(ready, g)
      BY <1>2, <2>2 DEF Go
    <3> QED
      BY <1>0, <1>3, <3>1, Allocated
  <2> QED
    BY <1>6, <2>1, <2>2
<1>9. /\ ready' \in Seq(Fibers) /\ IsInjective(ready')
      /\ ToSet(ready') = IF stack'[g] # 0 THEN ToSet(ready) \cup {g} ELSE ToSet(ready)
  <2>0. ready \in Seq(Fibers) /\ IsInjective(ready)
    BY <1>0 DEF CoreTypes, QueuesOnce
  <2>1. Append(ready, g) \in Seq(Fibers) /\ IsInjective(Append(ready, g)) /\ ToSet(Append(ready, g)) = ToSet(ready) \cup {g}
    BY <1>4, <2>0, InjectiveAppend, ToSetAppend
  <2> QED
    BY ONLY <1>8, <2>0, <2>1
<1>10. CoreTypes'
  BY <1>0, <1>6, <1>7, <1>8, <1>9 DEF CoreTypes, Stacks
<1>11. SyncTypes'
  BY <1>0 DEF SyncTypes, poolVars, futexVars, syncVars, condVars, groupVars
<1>12. \A h, k \in Fibers : Holds(h, k)' <=> Holds(h, k)
  <2>1. \A k : ~ Holds(f, k) /\ ~ Holds(f, k)'
    BY ONLY <1>1, <1>7 DEF Holds
  <2>2. \A h \in Fibers : \A k : h # f => (Holds(h, k)' <=> Holds(h, k))
    BY ONLY <1>7 DEF Holds
  <2> QED
    BY ONLY <2>1, <2>2
<1>13. Placed'
  <2>1. Comes(g, "ready", Null) \/ Comes(g, "none", Null)
    <3>1. CASE stack'[g] = 0
      BY ONLY <1>4, <1>6, <1>9, <1>12, <3>1, g \in Fibers DEF Comes
    <3>2. CASE stack'[g] # 0
      BY ONLY <1>4, <1>6, <1>9, <1>12, <3>2, g \in Fibers DEF Comes
    <3> QED
      BY <3>1, <3>2
  <2>2. ASSUME NEW h \in Fibers, h # g PROVE Stays(h)
    BY ONLY <1>6, <1>8, <1>9, <1>12, <2>2 DEF Stays
  <2>3. IsPlace("ready", Null) /\ IsPlace("none", Null)
    BY DEF IsPlace
  <2>4. \A h \in Fibers : Stays(h) \/ \E kind, place : IsPlace(kind, place) /\ Comes(h, kind, place)
    BY ONLY <2>1, <2>2, <2>3
  <2> QED
    BY ONLY <1>0, <2>4, PlacedEach
<1>14. QueuesOnce' /\ StacksHaveOneOwner'
  BY <1>0, <1>6, <1>8, <1>9 DEF QueuesOnce, Stacks
<1>15. Busy'
  <2>1. BusyAt(w)'
    BY <1>0, <1>1, <1>6 DEF Busy, BusyAt
  <2> QED
    BY ONLY <1>0, <1>5, <1>6, <1>7, <2>1, OthersBusy, w \in Workers
<1>16. Waiters'
  <2>1. ~ At(f, "unpark", "mutex")' /\ ~ At(f, "unpark", "group")'
    BY ONLY <1>7 DEF At
  <2>2. \A x \in Futexes : ToSet(queue'[x]) \subseteq ToSet(queue[x])
    BY <1>6
  <2> QED
    BY ONLY <1>0, <1>5, <1>6, <1>7, <2>1, <2>2, WaitersSwapped, f \in Fibers
<1>17. GoOnce'
  <2>1. <<>> \in Seq(Operations) /\ \A i \in 1 .. Len(<<>>) : <<>>[i][1] # "go"
    OBVIOUS
  <2>2. \A h \in Fibers : stack[h] = 0 /\ Head(todo[f]) # <<"go", h>> => stack'[h] = 0
    BY ONLY <1>2, <1>8
  <2> QED
    BY ONLY <1>0, <1>1, <1>7, <2>1, <2>2, GoKept, f \in Fibers
<1>18. NoFiberForgotten'
  <2>1. ~ MutexWaker(f) /\ ~ GroupWaker(f) /\ ~ MutexWaker(g) /\ ~ GroupWaker(g)
    BY ONLY <1>1, <1>3 DEF MutexWaker, GroupWaker
  <2>2. ASSUME NEW h \in Fibers, h # f, h # g PROVE (MutexWaker(h) => MutexWaker(h)') /\ (GroupWaker(h) => GroupWaker(h)')
    BY ONLY <1>6, <1>7, <1>8, <2>2 DEF MutexWaker, GroupWaker
  <2>3. (MutexWaits' => MutexWaits) /\ (GroupWaits' => GroupWaits)
    BY ONLY <1>6 DEF MutexWaits, GroupWaits
  <2>4. \A h \in Fibers : (MutexWaker(h) => MutexWaker(h)') /\ (GroupWaker(h) => GroupWaker(h)')
    BY ONLY <2>1, <2>2
  <2> QED
    BY ONLY <1>0, <1>6, <1>10, <1>11, <2>3, <2>4, Minds
<1> QED
  BY <1>7, <1>10, <1>11, <1>13, <1>14, <1>15, <1>16, <1>17, <1>18 DEF IInv, Core

-----------------------------------------------------------------------------
(* The specification *)

LEMMA Initially == Init => IInv
<1> SUFFICES ASSUME Init PROVE IInv
  OBVIOUS
<1>1. PICK p \in Programs :
      /\ stops = p.stops /\ closed = FALSE /\ ready = p.roots /\ todo = p.script
      /\ stack = [f \in Fibers |-> IF f \in ToSet(p.roots)
                                   THEN CHOOSE i \in DOMAIN p.roots : p.roots[i] = f ELSE 0]
      /\ allocated = Len(p.roots) /\ freed = <<>>
      /\ current = [w \in Workers |-> Null] /\ at = [w \in Workers |-> "idle"]
      /\ awaiter = [f \in Fibers |-> "none"]
  BY DEF Init, FiberInit
<1>2. /\ p.stops \in BOOLEAN /\ p.script \in [Fibers -> Seq(Calls)] /\ p.roots \in Seq(Fibers) /\ IsInjective(p.roots)
      /\ \A f \in Fibers : WellLocked(p.script[f]) /\ ~ UnlocksNext(p.script[f], 0)
      /\ \A f, h \in Fibers : \A i \in DOMAIN p.script[f], j \in DOMAIN p.script[h] :
           p.script[f][i][1] = "go" =>
             /\ p.script[f][i][2] \notin ToSet(p.roots)
             /\ p.script[h][j] = p.script[f][i] => f = h /\ i = j
  BY FiberAssumption DEF FiberAssumption, WellStarted
<1>3. /\ queue = [x \in Futexes |-> <<>>] /\ spin = [x \in Futexes |-> Null] /\ old = [f \in Fibers |-> Null]
      /\ access = FALSE /\ val = 0 /\ tokens = 0
      /\ tasks = 0 /\ isDone = FALSE /\ using = 0 /\ owed = 0 /\ joined = {}
  BY DEF Init, FutexInit
<1>4. /\ todo \in [Fibers -> Seq(Calls)] /\ Calls \subseteq Operations
      /\ todo \in [Fibers -> Seq(Operations)]
  BY <1>1, <1>2 DEF Operations
<1>5. /\ ready \in Seq(Fibers) /\ IsInjective(ready) /\ allocated = Len(ready) /\ allocated \in Nat
      /\ DOMAIN ready = 1 .. Len(ready) /\ ToSet(ready) = {ready[i] : i \in 1 .. Len(ready)}
      /\ ToSet(ready) \subseteq Fibers
  <2>1. ready \in Seq(Fibers) /\ IsInjective(ready) /\ allocated = Len(ready)
    BY ONLY <1>1, <1>2
  <2>2. Len(ready) \in Nat /\ DOMAIN ready = 1 .. Len(ready)
    BY ONLY <2>1
  <2>3. ToSet(ready) = {ready[i] : i \in 1 .. Len(ready)} /\ ToSet(ready) \subseteq Fibers
    BY ONLY <2>1, ToSetIsImage
  <2> QED
    BY ONLY <2>1, <2>2, <2>3
<1>6. \A f \in Fibers : /\ f \in ToSet(ready) => stack[f] \in 1 .. Len(ready) /\ ready[stack[f]] = f
                        /\ f \notin ToSet(ready) => stack[f] = 0
  <2>1. ASSUME NEW f \in Fibers, f \in ToSet(ready)
        PROVE  stack[f] \in 1 .. Len(ready) /\ ready[stack[f]] = f
    <3>1. stack[f] = CHOOSE i \in DOMAIN ready : ready[i] = f
      BY <1>1, <2>1
    <3>2. \E i \in DOMAIN ready : ready[i] = f
      BY <1>5, <2>1
    <3> QED
      BY <1>5, <3>1, <3>2
  <2>2. ASSUME NEW f \in Fibers, f \notin ToSet(ready) PROVE stack[f] = 0
    BY <1>1, <2>2
  <2> QED
    BY <2>1, <2>2
<1>7. stack \in [Fibers -> 0 .. allocated] /\ (\A f \in Fibers : stack[f] # 0 <=> f \in ToSet(ready))
  <2>1. \A f \in Fibers : stack[f] \in 0 .. allocated
    BY <1>5, <1>6
  <2>2. \A f \in Fibers : stack[f] # 0 <=> f \in ToSet(ready)
    BY <1>5, <1>6
  <2> QED
    BY <1>1, <2>1, <2>2
<1>8. CoreTypes /\ SyncTypes
  <2>1. /\ closed \in BOOLEAN /\ stops \in BOOLEAN /\ current \in [Workers -> Fibers \cup {Null}]
        /\ at \in [Workers -> {"idle", "fiber", "resumed", "thrown", "schedule", "unlock"}]
        /\ awaiter \in [Fibers -> {"none", "yield"} \cup Futexes]
    BY ONLY <1>1, <1>2
  <2>2. freed \in Seq(1 .. allocated)
    BY ONLY <1>1
  <2>3. /\ queue \in [Futexes -> Seq(Fibers)] /\ spin \in [Futexes -> Workers \cup {Null}]
        /\ old \in [Fibers -> BOOLEAN \cup Nat \cup {Null}]
    BY ONLY <1>3
  <2>4. /\ access \in BOOLEAN /\ isDone \in BOOLEAN /\ val \in Nat /\ tokens \in Nat
        /\ tasks \in Int /\ using \in Int /\ owed \in Int /\ joined \subseteq Fibers
    <3>1. access \in BOOLEAN /\ isDone \in BOOLEAN /\ joined \subseteq Fibers
      BY ONLY <1>3
    <3>2. val \in Nat /\ tokens \in Nat /\ tasks \in Int /\ using \in Int /\ owed \in Int
      BY ONLY <1>3
    <3> QED
      BY ONLY <3>1, <3>2
  <2>5. CoreTypes
    BY ONLY <1>4, <1>5, <1>7, <2>1, <2>2, <2>3 DEF CoreTypes
  <2> QED
    BY ONLY <2>1, <2>3, <2>4, <2>5 DEF SyncTypes
<1>9. \A o \in Calls : o[1] \notin {"park", "unpark", "wake", "awake", "store"}
  <2>1. ASSUME NEW o \in Calls PROVE o[1] \notin {"park", "unpark", "wake", "awake", "store"}
    <3>1. \/ o \in {<<"lock">>, <<"unlock">>, <<"take">>, <<"give">>, <<"work">>, <<"done">>, <<"join">>}
          \/ o \in {<<"yield">>, <<"throw">>}
          \/ o \in {"notify"} \X BOOLEAN \/ o \in {"add"} \X Nat \/ o \in {"go"} \X Fibers
      BY DEF Calls
    <3> QED
      BY <3>1
  <2> QED
    BY <2>1
<1>10. \A f \in Fibers : \A i \in 1 .. Len(todo[f]) : todo[f][i] \in Calls
  BY <1>4
<1>11. Shapes
  <2>1. ASSUME NEW f \in Fibers, NEW i \in 1 .. Len(todo[f]) PROVE ShapedAt(todo[f], i)
    BY ONLY <1>9, <1>10, <2>1 DEF ShapedAt
  <2> QED
    BY <2>1 DEF Shapes, WellShaped
<1>12. \A h, g \in Fibers : ~ Holds(h, g)
  <2>1. \A h \in Fibers : todo[h] # <<>> => Head(todo[h]) \in Calls
    BY <1>4
  <2> QED
    BY ONLY <1>9, <2>1 DEF Holds
<1>13. Placed
  <2>1. ASSUME NEW f \in Fibers, NEW k, NEW x PROVE Here(k, x, f) <=> k = "ready" /\ x = Null /\ f \in ToSet(ready)
    <3>1. \A v \in Workers : current[v] # f
      BY <1>1, NullIsNot
    <3>2. \A y \in Futexes : f \notin ToSet(queue[y])
      BY <1>3 DEF ToSet
    <3> QED
      BY ONLY <1>12, <2>1, <3>1, <3>2 DEF Here, Holds
  <2> QED
    BY ONLY <1>7, <2>1 DEF Placed
<1>14. QueuesOnce
  <2>1. \A x \in Futexes : IsInjective(queue[x])
    BY <1>3 DEF IsInjective
  <2> QED
    BY <1>5, <2>1 DEF QueuesOnce
<1>15. StacksHaveOneOwner
  <2>1. Alive = ToSet(ready)
    BY <1>5, <1>7 DEF Alive
  <2>2. \A f, g \in Alive : stack[f] = stack[g] => f = g
    BY <1>5, <1>6, <2>1
  <2>3. ToSet(freed) = {} /\ IsInjective(freed) /\ Len(freed) = 0
    BY <1>1 DEF ToSet, IsInjective
  <2>4. allocated = Cardinality(Alive) + Len(freed)
    <3>1. ready \in Seq(Fibers) /\ IsInjective(ready) /\ Len(ready) \in Nat
      BY <1>5
    <3>2. Cardinality(ToSet(ready)) = Len(ready)
      BY ONLY <3>1, SizeOfInjective
    <3> QED
      <4>1. Cardinality(Alive) = Len(ready) /\ allocated = Len(ready)
        BY ONLY <1>5, <2>1, <3>2
      <4> QED
        BY ONLY <2>3, <3>1, <4>1
  <2> QED
    BY <2>2, <2>3, <2>4 DEF StacksHaveOneOwner
<1>16. Busy
  BY <1>1 DEF Busy, BusyAt
<1>17. Waiters
  <2>1. ASSUME NEW f \in Fibers, NEW x PROVE ~ At(f, "unpark", x)
    <3>1. todo[f] # <<>> => Head(todo[f]) \in Calls
      BY <1>4
    <3> QED
      BY ONLY <1>9, <3>1 DEF At
  <2>2. \A f \in Fibers, x \in Futexes : f \notin ToSet(queue[x])
    BY <1>3 DEF ToSet
  <2>3. \A f, g \in Fibers : ~ Here("waker", g, f)
    BY <1>12 DEF Here, Holds
  <2> QED
    BY ONLY <2>1, <2>2, <2>3 DEF Waiters
<1>18. GoOnce
  <2>1. SUFFICES ASSUME NEW f \in Fibers, NEW h \in Fibers, NEW i \in 1 .. Len(todo[f]), NEW j \in 1 .. Len(todo[h])
                 PROVE  GoAt(f, i, h, j)
    BY DEF GoOnce
  <2>2. i \in DOMAIN todo[f] /\ j \in DOMAIN todo[h]
    BY <1>4
  <2>3. todo[f][i][1] = "go" => /\ todo[f][i][2] \notin ToSet(ready)
                                /\ todo[h][j] = todo[f][i] => f = h /\ i = j
    BY ONLY <1>1, <1>2, <2>2, f \in Fibers, h \in Fibers
  <2>4. todo[f][i][1] = "go" => todo[f][i][2] \in Fibers
    BY <1>4, OperationsAre
  <2> QED
    BY ONLY <1>7, <2>3, <2>4 DEF GoAt
<1>19. Locking
  BY <1>1, <1>2 DEF Locking, MutualExclusion, Inside
<1>20. NoFiberForgotten
  <2>1. queue["mutex"] = <<>> /\ queue["group"] = <<>>
    BY <1>3, FutexesAre
  <2> QED
    BY <2>1 DEF NoFiberForgotten
<1> QED
  BY <1>8, <1>11, <1>13, <1>14, <1>15, <1>16, <1>17, <1>18, <1>19, <1>20 DEF IInv, Core

LEMMA Stutter == IInv /\ UNCHANGED vars => IInv'
<1> SUFFICES ASSUME IInv, UNCHANGED vars PROVE IInv'
  OBVIOUS
<1>0. CoreTypes /\ SyncTypes /\ Placed /\ QueuesOnce /\ Busy /\ StacksHaveOneOwner
  BY DEF IInv, Core
<1>1. /\ stops' = stops /\ closed' = closed /\ ready' = ready /\ current' = current /\ at' = at
      /\ todo' = todo /\ awaiter' = awaiter /\ stack' = stack /\ freed' = freed /\ allocated' = allocated
      /\ queue' = queue /\ spin' = spin /\ old' = old /\ access' = access /\ val' = val /\ tokens' = tokens
      /\ tasks' = tasks /\ isDone' = isDone /\ using' = using /\ owed' = owed /\ joined' = joined
  BY DEF vars, fiberVars, poolVars, schedulerVars, stackVars, futexVars, syncVars, condVars, groupVars
<1>2. CoreTypes' /\ SyncTypes' /\ QueuesOnce' /\ StacksHaveOneOwner'
  BY <1>0, <1>1 DEF CoreTypes, SyncTypes, QueuesOnce, StacksHaveOneOwner, Alive
<1>3. Placed'
  <2>1. \A g \in Fibers : Stays(g)
    BY ONLY <1>1 DEF Stays, Holds
  <2> QED
    BY <1>0, <2>1, PlacedEach
<1>4. Busy'
  BY ONLY <1>0, <1>1 DEF Busy, BusyAt, At
<1> QED
  BY ONLY <1>1, <1>2, <1>3, <1>4, SchedulerStep, IInv DEF QueuesOnce

LEMMA Inductive == IInv /\ [Next]_vars => IInv'
<1> SUFFICES ASSUME IInv, [Next]_vars PROVE IInv'
  OBVIOUS
<1>1. CASE UNCHANGED vars
  BY <1>1, Stutter
<1>2. ASSUME NEW w \in Workers, FiberStep(w), UNCHANGED <<futexVars, syncVars>>, UNCHANGED poolVars PROVE IInv'
  <2>1. CASE Run(w)
    BY <1>2, <2>1, RunStep
  <2>2. CASE AwaitYield(w) \/ Delete(w)
    BY <1>2, <2>2, WorkersSteps
  <2>3. ASSUME NEW f \in Fibers, Yield(w, f) PROVE IInv'
    BY <1>2, <2>3, YieldStep
  <2>4. ASSUME NEW f \in Fibers, Go(w, f) PROVE IInv'
    BY <1>2, <2>4, GoStep
  <2>5. ASSUME NEW f \in Fibers, Finish(w, f) PROVE IInv'
    BY <1>2, <2>5, WorkersSteps
  <2>6. ASSUME NEW f \in Fibers, Throw(w, f) PROVE IInv'
    BY <1>2, <2>6, ThrowStep
  <2> QED
    BY <1>2, <2>1, <2>2, <2>3, <2>4, <2>5, <2>6 DEF FiberStep
<1>3. ASSUME NEW w \in Workers, FutexStep(w, Cell), UNCHANGED syncVars, UNCHANGED poolVars PROVE IInv'
  <2>1. CASE AwaitSuspend(w, Cell)
    BY <1>3, <2>1, AwaitSuspendStep
  <2>2. CASE AwaitSchedule(w) \/ AwaitUnlock(w)
    BY <1>3, <2>2, WorkersSteps
  <2>3. ASSUME NEW f \in Fibers, Park(w, f) PROVE IInv'
    BY <1>3, <2>3, ParkStep
  <2>4. ASSUME NEW f \in Fibers, Unpark(w, f) PROVE IInv'
    BY <1>3, <2>4, UnparkStep
  <2>5. ASSUME NEW f \in Fibers, Wake(w, f) PROVE IInv'
    BY <1>3, <2>5, WakeNobody, WakeSomebody
  <2>6. ASSUME NEW f \in Fibers, Awake(w, f) PROVE IInv'
    BY <1>3, <2>6, AwakeStep
  <2>7. ASSUME NEW f \in Fibers, Release(w, f) PROVE IInv'
    BY <1>3, <2>7, ReleaseStep
  <2> QED
    BY <1>3, <2>1, <2>2, <2>3, <2>4, <2>5, <2>6, <2>7 DEF FutexStep
<1>4. ASSUME NEW w \in Workers, SyncStep(w), UNCHANGED poolVars PROVE IInv'
  <2>1. PICK f \in Fibers :
      \/ Exchange(w, f) \/ Unlock(w, f) \/ Take(w, f) \/ Give(w, f) \/ Notify(w, f)
      \/ BeginAdd(w, f) \/ LoadTasks(w, f) \/ Clear(w, f) \/ AddTasks(w, f) \/ Leave(w, f)
      \/ Work(w, f) \/ BeginDone(w, f) \/ SubTasks(w, f) \/ Store(w, f) \/ Join(w, f) \/ Settle(w, f)
    BY <1>4 DEF SyncStep
  <2>2. /\ Exchange(w, f) => IInv'
        /\ Unlock(w, f) => IInv'
        /\ Take(w, f) => IInv'
        /\ Store(w, f) => IInv'
    BY <1>4, ExchangeStep, UnlockStep, TakeStep, StoreStep
  <2>3. /\ Give(w, f) \/ Notify(w, f) \/ Work(w, f) \/ Leave(w, f) \/ Settle(w, f) => IInv'
        /\ BeginAdd(w, f) \/ LoadTasks(w, f) \/ Clear(w, f) \/ AddTasks(w, f) => IInv'
        /\ BeginDone(w, f) \/ SubTasks(w, f) \/ Join(w, f) => IInv'
    BY <1>4, QuietCalls
  <2> QED
    BY ONLY <2>1, <2>2, <2>3
<1>5. CASE Stop /\ UNCHANGED <<futexVars, syncVars>>
  BY <1>5, StopStep
<1> QED
  BY <1>1, <1>2, <1>3, <1>4, <1>5 DEF Next, Step

LEMMA Always == Spec => []IInv
<1> QED
  BY Initially, Inductive, PTL DEF Spec

\* Where a fiber is, and that it is whole, as the runs check it.
LEMMA WholeFibers == IInv => FibersAreWhole
<1> SUFFICES ASSUME IInv PROVE FibersAreWhole
  OBVIOUS
<1>0. CoreTypes /\ SyncTypes /\ Placed /\ QueuesOnce /\ StacksHaveOneOwner
  BY DEF IInv, Core
<1>1. TypeOK
  BY <1>0 DEF TypeOK, CoreTypes, SyncTypes
<1>2. ASSUME NEW f \in Fibers
      PROVE  IF f \in Alive THEN \E p \in Places(f) : Places(f) = {p} ELSE Places(f) = {}
  <2>1. \A k, l, x, y : Here(k, x, f) /\ Here(l, y, f) => k = l /\ x = y
    BY <1>0 DEF Placed
  <2>2. stack[f] # 0 <=> \E k, x : Here(k, x, f)
    BY <1>0 DEF Placed
  <2>3. \A p : p \in Places(f) <=> \/ p = <<"ready">> /\ Here("ready", Null, f)
                                   \/ \E w \in Workers : p = <<"worker", w>> /\ Here("worker", w, f)
                                   \/ \E x \in Futexes : p = <<"queue", x>> /\ Here("queue", x, f)
                                   \/ \E g \in Fibers : p = <<"waker", g>> /\ Here("waker", g, f)
    BY DEF Places, Here
  <2>4. CASE f \in Alive
    <3>1. PICK k, x : Here(k, x, f)
      BY <2>2, <2>4 DEF Alive
    <3>2. \/ k = "ready" /\ x = Null
          \/ k = "worker" /\ x \in Workers
          \/ k = "queue" /\ x \in Futexes
          \/ k = "waker" /\ x \in Fibers
      BY ONLY <3>1 DEF Here
    <3>3. CASE k = "ready" /\ x = Null
      <4>1. \A p : p \in Places(f) <=> p = <<"ready">>
        BY ONLY <2>1, <2>3, <3>1, <3>3
      <4> QED
        <5>1. Places(f) = {<<"ready">>}
          BY ONLY <4>1
        <5> QED
          BY ONLY <2>4, <5>1
    <3>4. CASE k = "worker" /\ x \in Workers
      <4>1. \A p : p \in Places(f) <=> p = <<"worker", x>>
        BY ONLY <2>1, <2>3, <3>1, <3>4
      <4> QED
        <5>1. Places(f) = {<<"worker", x>>}
          BY ONLY <4>1
        <5> QED
          BY ONLY <2>4, <5>1
    <3>5. CASE k = "queue" /\ x \in Futexes
      <4>1. \A p : p \in Places(f) <=> p = <<"queue", x>>
        BY ONLY <2>1, <2>3, <3>1, <3>5
      <4> QED
        <5>1. Places(f) = {<<"queue", x>>}
          BY ONLY <4>1
        <5> QED
          BY ONLY <2>4, <5>1
    <3>6. CASE k = "waker" /\ x \in Fibers
      <4>1. \A p : p \in Places(f) <=> p = <<"waker", x>>
        BY ONLY <2>1, <2>3, <3>1, <3>6
      <4> QED
        <5>1. Places(f) = {<<"waker", x>>}
          BY ONLY <4>1
        <5> QED
          BY ONLY <2>4, <5>1
    <3> QED
      BY <3>2, <3>3, <3>4, <3>5, <3>6
  <2>5. CASE f \notin Alive
    <3>1. \A p : p \notin Places(f)
      BY <2>2, <2>3, <2>5 DEF Alive
    <3> QED
      BY <2>5, <3>1
  <2> QED
    BY <2>4, <2>5
<1>3. OnePlace
  BY <1>0, <1>2 DEF OnePlace, QueuesOnce
<1> QED
  BY <1>0, <1>1, <1>3 DEF FibersAreWhole

\* Every fiber that exists is in one place - the pool's queue, a worker, a wait
\* queue, or the hands of a fiber that wakes it - and on a stack of its own; and
\* a fiber that was deleted is in none.
THEOREM FibersStayWhole == Spec => []FibersAreWhole
<1> QED
  BY Always, WholeFibers, PTL

\* One fiber at a time is between Lock and Unlock of the mutex.
THEOREM MutexExcludes == Spec => []MutualExclusion
<1>1. IInv => MutualExclusion
  BY DEF IInv, Locking
<1> QED
  BY <1>1, Always, PTL

\* As long as the pool is not stopped, a fiber that waits for the mutex, or for
\* the wait group, that is there already is going to be woken by somebody.
THEOREM WaitersAreRemembered == Spec => []NoFiberForgotten
<1>1. IInv => NoFiberForgotten
  BY DEF IInv
<1> QED
  BY <1>1, Always, PTL

=============================================================================
