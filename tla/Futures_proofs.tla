--------------------------- MODULE Futures_proofs ---------------------------
(***************************************************************************)
(* What holds of futures for any clients, workers, states and programs.    *)
(***************************************************************************)
EXTENDS Futures, FiniteSetTheorems, FunctionTheorems, SequenceTheorems, TLAPS

-----------------------------------------------------------------------------
(* What the proofs use of sequences *)

IsSeq(q) == q \in Seq(ToSet(q))

LEMMA FunctionIsSeq ==
    ASSUME NEW n \in Nat, NEW S, NEW f \in [1 .. n -> S]
    PROVE  f \in Seq(S) /\ Len(f) = n
<1>1. f \in Seq(S)
  BY SeqDef
<1>2. DOMAIN f = 1 .. Len(f) /\ Len(f) \in Nat /\ DOMAIN f = 1 .. n
  BY <1>1, LenProperties
<1> QED
  BY <1>1, <1>2

LEMMA Seqs ==
    ASSUME NEW S, NEW q \in Seq(S)
    PROVE  /\ IsSeq(q) /\ Len(q) \in Nat /\ DOMAIN q = 1 .. Len(q)
           /\ ToSet(q) = {q[i] : i \in 1 .. Len(q)} /\ ToSet(q) \subseteq S
<1>1. Len(q) \in Nat /\ DOMAIN q = 1 .. Len(q) /\ q \in [1 .. Len(q) -> S]
  BY LenProperties
<1>2. ToSet(q) = {q[i] : i \in 1 .. Len(q)}
  BY <1>1 DEF ToSet
<1>3. q \in [1 .. Len(q) -> ToSet(q)]
  BY <1>1, <1>2
<1>4. IsSeq(q)
  BY <1>1, <1>3, FunctionIsSeq DEF IsSeq
<1> QED
  BY <1>1, <1>2, <1>3, <1>4

LEMMA SeqFacts ==
    ASSUME NEW q, IsSeq(q)
    PROVE  /\ Len(q) \in Nat /\ DOMAIN q = 1 .. Len(q)
           /\ ToSet(q) = {q[i] : i \in 1 .. Len(q)} /\ \A i \in 1 .. Len(q) : q[i] \in ToSet(q)
           /\ q # <<>> => Len(q) >= 1
  BY Seqs DEF IsSeq

LEMMA HeadFacts ==
    ASSUME NEW q, IsSeq(q), q # <<>>
    PROVE  /\ Len(q) \in Nat \ {0} /\ 1 \in 1 .. Len(q) /\ Head(q) = q[1] /\ Head(q) \in ToSet(q)
           /\ IsSeq(Tail(q)) /\ Len(Tail(q)) = Len(q) - 1
           /\ \A i \in 1 .. Len(q) - 1 : Tail(q)[i] = q[i + 1]
           /\ ToSet(q) = {Head(q)} \cup ToSet(Tail(q))
<1>1. /\ Len(q) \in Nat \ {0} /\ 1 \in 1 .. Len(q) /\ Head(q) = q[1]
      /\ Tail(q) \in Seq(ToSet(q)) /\ Len(Tail(q)) = Len(q) - 1
      /\ \A i \in 1 .. Len(q) - 1 : Tail(q)[i] = q[i + 1]
  BY DEF IsSeq
<1>2. ToSet(q) = {q[i] : i \in 1 .. Len(q)}
  BY SeqFacts
<1>3. IsSeq(Tail(q)) /\ ToSet(Tail(q)) = {Tail(q)[i] : i \in 1 .. Len(q) - 1}
  BY <1>1, Seqs
<1>4. Head(q) \in ToSet(q)
  BY <1>1, <1>2
<1>5. ASSUME NEW x \in ToSet(q) PROVE x = Head(q) \/ x \in ToSet(Tail(q))
  <2>1. PICK i \in 1 .. Len(q) : x = q[i]
    BY <1>2, <1>5
  <2>2. CASE i = 1
    BY <1>1, <2>1, <2>2
  <2>3. CASE i # 1
    <3>1. i - 1 \in 1 .. Len(q) - 1 /\ Tail(q)[i - 1] = q[i]
      BY <1>1, <2>1, <2>3
    <3> QED
      BY <1>3, <2>1, <3>1
  <2> QED
    BY <2>2, <2>3
<1>6. ASSUME NEW x \in ToSet(Tail(q)) PROVE x \in ToSet(q)
  <2>1. PICK i \in 1 .. Len(q) - 1 : x = Tail(q)[i]
    BY <1>3, <1>6
  <2>2. i + 1 \in 1 .. Len(q) /\ x = q[i + 1]
    BY <1>1, <2>1
  <2> QED
    BY <1>2, <2>2
<1> QED
  BY ONLY <1>1, <1>3, <1>4, <1>5, <1>6

LEMMA JoinFacts ==
    ASSUME NEW p, IsSeq(p), NEW q, IsSeq(q)
    PROVE  /\ IsSeq(p \o q) /\ Len(p \o q) = Len(p) + Len(q) /\ Len(p) \in Nat /\ Len(q) \in Nat
           /\ \A i \in 1 .. Len(p) : i \in 1 .. Len(p \o q) /\ (p \o q)[i] = p[i]
           /\ \A i \in 1 .. Len(q) : Len(p) + i \in 1 .. Len(p \o q) /\ (p \o q)[Len(p) + i] = q[i]
           /\ \A i \in 1 .. Len(p \o q) :
                 \/ i \in 1 .. Len(p) /\ (p \o q)[i] = p[i]
                 \/ i - Len(p) \in 1 .. Len(q) /\ (p \o q)[i] = q[i - Len(p)] /\ i = Len(p) + (i - Len(p))
           /\ ToSet(p \o q) = ToSet(p) \cup ToSet(q)
<1> DEFINE S == ToSet(p) \cup ToSet(q)
<1>1. p \in Seq(S) /\ q \in Seq(S)
  BY SeqMonotonic DEF IsSeq
<1> HIDE DEF S
<1>2. /\ p \o q \in Seq(S) /\ Len(p \o q) = Len(p) + Len(q) /\ Len(p) \in Nat /\ Len(q) \in Nat
      /\ \A i \in 1 .. Len(p) + Len(q) : (p \o q)[i] = IF i <= Len(p) THEN p[i] ELSE q[i - Len(p)]
  BY <1>1, ConcatProperties, LenProperties
<1>3. IsSeq(p \o q) /\ ToSet(p \o q) = {(p \o q)[i] : i \in 1 .. Len(p \o q)}
  BY <1>2, Seqs
<1>4. ToSet(p) = {p[i] : i \in 1 .. Len(p)} /\ ToSet(q) = {q[i] : i \in 1 .. Len(q)}
  BY <1>1, Seqs
<1>5. \A i \in 1 .. Len(p) : i \in 1 .. Len(p \o q) /\ (p \o q)[i] = p[i]
  BY ONLY <1>2
<1>6. \A i \in 1 .. Len(q) : Len(p) + i \in 1 .. Len(p \o q) /\ (p \o q)[Len(p) + i] = q[i]
  BY ONLY <1>2
<1>7. \A i \in 1 .. Len(p \o q) :
         \/ i \in 1 .. Len(p) /\ (p \o q)[i] = p[i]
         \/ i - Len(p) \in 1 .. Len(q) /\ (p \o q)[i] = q[i - Len(p)] /\ i = Len(p) + (i - Len(p))
  BY ONLY <1>2
<1>8. ToSet(p \o q) = ToSet(p) \cup ToSet(q)
  BY ONLY SMTT(60), <1>3, <1>4, <1>5, <1>6, <1>7
<1> QED
  BY ONLY <1>2, <1>3, <1>5, <1>6, <1>7, <1>8

LEMMA Literals ==
    \A a, b, c : /\ IsSeq(<<>>) /\ IsSeq(<<a>>) /\ IsSeq(<<a, b>>) /\ IsSeq(<<a, b, c>>)
                 /\ Len(<<>>) = 0 /\ Len(<<a>>) = 1 /\ Len(<<a, b>>) = 2 /\ Len(<<a, b, c>>) = 3
                 /\ <<a>>[1] = a /\ <<a, b>>[1] = a /\ <<a, b>>[2] = b
                 /\ <<a, b, c>>[1] = a /\ <<a, b, c>>[2] = b /\ <<a, b, c>>[3] = c
                 /\ ToSet(<<>>) = {} /\ ToSet(<<a>>) = {a} /\ ToSet(<<a, b>>) = {a, b}
                 /\ ToSet(<<a, b, c>>) = {a, b, c}
                 /\ Head(<<a>>) = a /\ Tail(<<a>>) = <<>>
<1>1. ASSUME NEW a, NEW b, NEW c
      PROVE  /\ <<>> \in Seq({a, b, c}) /\ <<a>> \in Seq({a, b, c}) /\ <<a, b>> \in Seq({a, b, c})
             /\ <<a, b, c>> \in Seq({a, b, c})
             /\ Len(<<>>) = 0 /\ Len(<<a>>) = 1 /\ Len(<<a, b>>) = 2 /\ Len(<<a, b, c>>) = 3
             /\ <<a>>[1] = a /\ <<a, b>>[1] = a /\ <<a, b>>[2] = b
             /\ <<a, b, c>>[1] = a /\ <<a, b, c>>[2] = b /\ <<a, b, c>>[3] = c
             /\ Head(<<a>>) = a /\ Tail(<<a>>) = <<>>
  OBVIOUS
<1>2. \A S : \A q \in Seq(S) : IsSeq(q) /\ ToSet(q) = {q[i] : i \in 1 .. Len(q)}
  BY Seqs
<1>3. 1 .. 0 = {} /\ 1 .. 1 = {1} /\ 1 .. 2 = {1, 2} /\ 1 .. 3 = {1, 2, 3}
  OBVIOUS
<1>4. ASSUME NEW a, NEW b, NEW c
      PROVE  /\ IsSeq(<<>>) /\ ToSet(<<>>) = {} /\ IsSeq(<<a>>) /\ ToSet(<<a>>) = {a}
             /\ IsSeq(<<a, b>>) /\ ToSet(<<a, b>>) = {a, b}
             /\ IsSeq(<<a, b, c>>) /\ ToSet(<<a, b, c>>) = {a, b, c}
  <2>0. /\ <<>> \in Seq({a, b, c}) /\ <<a>> \in Seq({a, b, c}) /\ <<a, b>> \in Seq({a, b, c})
        /\ <<a, b, c>> \in Seq({a, b, c})
    BY <1>1
  <2>1. IsSeq(<<>>) /\ ToSet(<<>>) = {<<>>[i] : i \in 1 .. Len(<<>>)}
    BY ONLY <2>0, <1>2
  <2>2. IsSeq(<<a>>) /\ ToSet(<<a>>) = {<<a>>[i] : i \in 1 .. Len(<<a>>)}
    BY ONLY <2>0, <1>2
  <2>3. IsSeq(<<a, b>>) /\ ToSet(<<a, b>>) = {<<a, b>>[i] : i \in 1 .. Len(<<a, b>>)}
    BY ONLY <2>0, <1>2
  <2>4. IsSeq(<<a, b, c>>) /\ ToSet(<<a, b, c>>) = {<<a, b, c>>[i] : i \in 1 .. Len(<<a, b, c>>)}
    BY ONLY <2>0, <1>2
  <2>5. ToSet(<<>>) = {} /\ ToSet(<<a>>) = {a}
    BY ONLY <1>1, <1>3, <2>1, <2>2
  <2>6. ToSet(<<a, b>>) = {a, b}
    BY ONLY <1>1, <1>3, <2>3
  <2>7. ToSet(<<a, b, c>>) = {a, b, c}
    BY ONLY <1>1, <1>3, <2>4
  <2> QED
    BY ONLY <2>1, <2>2, <2>3, <2>4, <2>5, <2>6, <2>7
<1> TAKE a, b, c
<1>5. /\ IsSeq(<<>>) /\ IsSeq(<<a>>) /\ IsSeq(<<a, b>>) /\ IsSeq(<<a, b, c>>)
      /\ ToSet(<<>>) = {} /\ ToSet(<<a>>) = {a} /\ ToSet(<<a, b>>) = {a, b}
      /\ ToSet(<<a, b, c>>) = {a, b, c}
  BY ONLY <1>4
<1>6. Head(<<a>>) = a /\ Tail(<<a>>) = <<>>
  BY ONLY <1>1
<1> QED
  BY ONLY <1>5, <1>6

LEMMA AppendIsJoin == ASSUME NEW q, IsSeq(q), NEW o PROVE Append(q, o) = q \o <<o>>
<1> DEFINE S == ToSet(q) \cup {o}
<1>1. q \in Seq(S) /\ o \in S
  BY SeqMonotonic DEF IsSeq
<1> QED
  BY <1>1, AppendIsConcat

-----------------------------------------------------------------------------
(* What operations hold.  A promise and a future are held by the operation   *)
(* that is to use them, or by the callback that it stored; an input of a     *)
(* combinator by its callback, and the frame of GetResult by the callback    *)
(* that writes to it.                                                        *)

Promise(s) == <<"promise", s, 0>>
Future(s) == <<"future", s, 0>>
Frame(u) == <<"frame", u, 0>>
Combinator(kind) == <<"combinator", kind, 0>>

CallTokens(c) ==
    CASE c[1] \in {"then", "recover", "compute", "forward"} -> {Promise(c[2])}
      [] c[1] = "flatMap" -> {Promise(c[2]), Future(c[3])}
      [] c[1] \in {"all", "firstOf"} -> {<<c[1], c[2], c[3]>>}
      [] c[1] = "get" -> {Frame(c[2])}
      [] OTHER -> {}

Tokens(op) ==
    CASE op[1] = "subscribe" -> {Future(op[2])} \cup CallTokens(op[3])
      [] op[1] = "publish" -> {Future(op[2])}
      [] op[1] = "call" -> CallTokens(op[2])
      [] op[1] = "finish" -> {<<"all", op[2], op[3]>>}
      [] op[1] = "awake" -> {Frame(op[2])}
      [] OTHER -> Uses(op)

LEMMA TokensOf ==
    \A op :
      /\ op[1] \in {"set", "ready", "try", "notify", "check", "via", "run", "pop", "wake", "sleep"}
            => Tokens(op) = {}
      /\ op[1] = "subscribe" => Tokens(op) = {Future(op[2])} \cup CallTokens(op[3])
      /\ op[1] = "publish" => Tokens(op) = {Future(op[2])}
      /\ op[1] = "call" => Tokens(op) = CallTokens(op[2])
      /\ op[1] = "finish" => Tokens(op) = {<<"all", op[2], op[3]>>}
      /\ op[1] = "awake" => Tokens(op) = {Frame(op[2])}
      /\ op[1] = "produce" => Tokens(op) = {Promise(op[2])}
      /\ op[1] = "execute" => Tokens(op) = {Promise(op[3])}
      /\ op[1] \in {"then", "recover"} => Tokens(op) = {Future(op[2]), Promise(op[3])}
      /\ op[1] = "flatMap" => Tokens(op) = {Future(op[2]), Promise(op[3]), Future(op[4])}
      /\ op[1] \in {"all", "firstOf"} =>
            Tokens(op) = {Future(op[2][i]) : i \in DOMAIN op[2]} \cup {Promise(op[3]), Combinator(op[1])}
      /\ op[1] \in {"get", "getReady"} => Tokens(op) = {Future(op[2])}
  BY DEF Tokens, Uses, Promise, Future, Combinator

LEMMA CallTokensOf ==
    \A c :
      /\ c[1] \in {"then", "recover", "compute", "forward"} => CallTokens(c) = {Promise(c[2])}
      /\ c[1] = "flatMap" => CallTokens(c) = {Promise(c[2]), Future(c[3])}
      /\ c[1] \in {"all", "firstOf"} => CallTokens(c) = {<<c[1], c[2], c[3]>>}
      /\ c[1] = "get" => CallTokens(c) = {Frame(c[2])}
  BY DEF CallTokens

LEMMA Kinds ==
    \A s, t, i : /\ Promise(s)[1] = "promise" /\ Future(s)[1] = "future" /\ Frame(s)[1] = "frame"
                 /\ Combinator(s)[1] = "combinator" /\ <<"all", s, i>>[1] = "all"
                 /\ <<"firstOf", s, i>>[1] = "firstOf"
                 /\ Promise(s)[2] = s /\ Future(s)[2] = s /\ Frame(s)[2] = s /\ Combinator(s)[2] = s
                 /\ <<t, s, i>>[1] = t /\ <<t, s, i>>[2] = s
  BY DEF Promise, Future, Frame, Combinator

\* What a line of operations holds, and that it holds nothing twice.
Has(q) == UNION {Tokens(q[i]) : i \in 1 .. Len(q)}
HeldOnce(q) == \A i, j \in 1 .. Len(q) : Tokens(q[i]) \cap Tokens(q[j]) # {} => i = j

LEMMA HasLiterals ==
    \A a, b, c : /\ Has(<<>>) = {} /\ Has(<<a>>) = Tokens(a)
                 /\ Has(<<a, b>>) = Tokens(a) \cup Tokens(b)
                 /\ Has(<<a, b, c>>) = Tokens(a) \cup Tokens(b) \cup Tokens(c)
                 /\ HeldOnce(<<>>) /\ HeldOnce(<<a>>)
                 /\ Tokens(a) \cap Tokens(b) = {} => HeldOnce(<<a, b>>)
                 /\ (Tokens(a) \cap Tokens(b) = {} /\ Tokens(a) \cap Tokens(c) = {}
                       /\ Tokens(b) \cap Tokens(c) = {}) => HeldOnce(<<a, b, c>>)
<1> TAKE a, b, c
<1>1. /\ Len(<<>>) = 0 /\ Len(<<a>>) = 1 /\ Len(<<a, b>>) = 2 /\ Len(<<a, b, c>>) = 3
      /\ <<a>>[1] = a /\ <<a, b>>[1] = a /\ <<a, b>>[2] = b
      /\ <<a, b, c>>[1] = a /\ <<a, b, c>>[2] = b /\ <<a, b, c>>[3] = c
  BY ONLY Literals
<1>2. 1 .. 0 = {} /\ 1 .. 1 = {1} /\ 1 .. 2 = {1, 2} /\ 1 .. 3 = {1, 2, 3}
  OBVIOUS
<1>3. Has(<<>>) = {} /\ HeldOnce(<<>>)
  BY ONLY <1>1, <1>2 DEF Has, HeldOnce
<1>4. Has(<<a>>) = Tokens(a) /\ HeldOnce(<<a>>)
  BY ONLY <1>1, <1>2 DEF Has, HeldOnce
<1>5. Has(<<a, b>>) = Tokens(a) \cup Tokens(b)
  BY ONLY <1>1, <1>2 DEF Has
<1>6. Has(<<a, b, c>>) = Tokens(a) \cup Tokens(b) \cup Tokens(c)
  BY ONLY <1>1, <1>2 DEF Has
<1>7. Tokens(a) \cap Tokens(b) = {} => HeldOnce(<<a, b>>)
  BY ONLY <1>1, <1>2 DEF HeldOnce
<1>8. (Tokens(a) \cap Tokens(b) = {} /\ Tokens(a) \cap Tokens(c) = {} /\ Tokens(b) \cap Tokens(c) = {})
         => HeldOnce(<<a, b, c>>)
  BY ONLY <1>1, <1>2 DEF HeldOnce
<1> QED
  BY ONLY <1>3, <1>4, <1>5, <1>6, <1>7, <1>8

LEMMA HasHead ==
    ASSUME NEW q, IsSeq(q), q # <<>>, HeldOnce(q)
    PROVE  /\ Has(q) = Tokens(Head(q)) \cup Has(Tail(q))
           /\ HeldOnce(Tail(q)) /\ Tokens(Head(q)) \cap Has(Tail(q)) = {}
<1>1. /\ Len(q) \in Nat \ {0} /\ 1 \in 1 .. Len(q) /\ Head(q) = q[1]
      /\ Len(Tail(q)) = Len(q) - 1 /\ \A i \in 1 .. Len(q) - 1 : Tail(q)[i] = q[i + 1]
  BY HeadFacts
<1>2. \A i \in 1 .. Len(q) - 1 : i + 1 \in 1 .. Len(q) /\ i + 1 # 1
  BY ONLY <1>1
<1>3. \A i \in 1 .. Len(q) : i = 1 \/ (i - 1 \in 1 .. Len(q) - 1 /\ i = (i - 1) + 1)
  BY ONLY <1>1
<1>4. \A i, j \in 1 .. Len(q) : Tokens(q[i]) \cap Tokens(q[j]) # {} => i = j
  BY DEF HeldOnce
<1>5. Has(q) = UNION {Tokens(q[i]) : i \in 1 .. Len(q)}
  BY DEF Has
<1>6. Has(Tail(q)) = UNION {Tokens(Tail(q)[i]) : i \in 1 .. Len(q) - 1}
  BY <1>1 DEF Has
<1>7. ASSUME NEW k \in Has(q) PROVE k \in Tokens(Head(q)) \cup Has(Tail(q))
  <2>1. PICK i \in 1 .. Len(q) : k \in Tokens(q[i])
    BY ONLY <1>5, <1>7
  <2>2. CASE i = 1
    BY ONLY <1>1, <2>1, <2>2
  <2>3. CASE i # 1
    <3>1. i - 1 \in 1 .. Len(q) - 1 /\ Tail(q)[i - 1] = q[i]
      BY ONLY <1>1, <1>3, <2>1, <2>3
    <3> QED
      BY ONLY <1>6, <2>1, <3>1
  <2> QED
    BY ONLY <2>2, <2>3
<1>8. Tokens(Head(q)) \cup Has(Tail(q)) \subseteq Has(q)
  BY ONLY <1>1, <1>2, <1>5, <1>6
<1>9. \A i \in 1 .. Len(q) - 1 : Tokens(q[1]) \cap Tokens(q[i + 1]) = {}
  BY ONLY <1>1, <1>2, <1>4
<1>10. Tokens(Head(q)) \cap Has(Tail(q)) = {}
  BY ONLY <1>1, <1>6, <1>9
<1>11. ASSUME NEW i \in 1 .. Len(q) - 1, NEW j \in 1 .. Len(q) - 1, Tokens(Tail(q)[i]) \cap Tokens(Tail(q)[j]) # {}
       PROVE  i = j
  <2>1. i + 1 = j + 1
    BY ONLY <1>1, <1>2, <1>4, <1>11
  <2> QED
    BY ONLY <1>1, <2>1
<1>12. HeldOnce(Tail(q))
  BY ONLY <1>1, <1>11 DEF HeldOnce
<1> QED
  BY ONLY <1>7, <1>8, <1>10, <1>12

LEMMA HasJoin ==
    ASSUME NEW p, IsSeq(p), NEW q, IsSeq(q)
    PROVE  /\ Has(p \o q) = Has(p) \cup Has(q)
           /\ HeldOnce(p) /\ HeldOnce(q) /\ Has(p) \cap Has(q) = {} => HeldOnce(p \o q)
<1>a. /\ Len(p) \in Nat /\ Len(q) \in Nat
      /\ \A i \in 1 .. Len(p) : i \in 1 .. Len(p \o q) /\ (p \o q)[i] = p[i]
  BY JoinFacts
<1>b. \A i \in 1 .. Len(q) : Len(p) + i \in 1 .. Len(p \o q) /\ (p \o q)[Len(p) + i] = q[i]
  BY JoinFacts
<1>c. \A i \in 1 .. Len(p \o q) :
         \/ i \in 1 .. Len(p) /\ (p \o q)[i] = p[i]
         \/ i - Len(p) \in 1 .. Len(q) /\ (p \o q)[i] = q[i - Len(p)] /\ i = Len(p) + (i - Len(p))
  BY JoinFacts
<1>d. PICK r : r = p \o q
  OBVIOUS
<1>1. /\ Len(p) \in Nat /\ Len(q) \in Nat
      /\ \A i \in 1 .. Len(p) : i \in 1 .. Len(r) /\ r[i] = p[i]
      /\ \A i \in 1 .. Len(q) : Len(p) + i \in 1 .. Len(r) /\ r[Len(p) + i] = q[i]
      /\ \A i \in 1 .. Len(r) :
            \/ i \in 1 .. Len(p) /\ r[i] = p[i]
            \/ i - Len(p) \in 1 .. Len(q) /\ r[i] = q[i - Len(p)] /\ i = Len(p) + (i - Len(p))
  BY ONLY <1>a, <1>b, <1>c, <1>d
<1>2. Has(r) = Has(p) \cup Has(q)
  <2>1. Has(r) \subseteq Has(p) \cup Has(q)
    BY ONLY ZenonT(60), <1>1 DEF Has
  <2>2. Has(p) \subseteq Has(r) /\ Has(q) \subseteq Has(r)
    BY ONLY <1>1 DEF Has
  <2> QED
    BY ONLY <2>1, <2>2
<1>3. ASSUME HeldOnce(p), HeldOnce(q), Has(p) \cap Has(q) = {},
             NEW i \in 1 .. Len(r), NEW j \in 1 .. Len(r), Tokens(r[i]) \cap Tokens(r[j]) # {}
      PROVE  i = j
  <2>1. \A k \in 1 .. Len(p) : Tokens(p[k]) \subseteq Has(p)
    BY DEF Has
  <2>2. \A k \in 1 .. Len(q) : Tokens(q[k]) \subseteq Has(q)
    BY DEF Has
  <2>3. \A k, l \in 1 .. Len(p) : Tokens(p[k]) \cap Tokens(p[l]) # {} => k = l
    BY <1>3 DEF HeldOnce
  <2>4. \A k, l \in 1 .. Len(q) : Tokens(q[k]) \cap Tokens(q[l]) # {} => k = l
    BY <1>3 DEF HeldOnce
  <2>5. CASE i \in 1 .. Len(p) /\ r[i] = p[i]
    <3>1. CASE j \in 1 .. Len(p) /\ r[j] = p[j]
      BY ONLY <1>3, <2>3, <2>5, <3>1
    <3>2. CASE j - Len(p) \in 1 .. Len(q) /\ r[j] = q[j - Len(p)]
      BY ONLY <1>3, <2>1, <2>2, <2>5, <3>2
    <3> QED
      BY ONLY <1>1, <1>3, <3>1, <3>2
  <2>6. CASE i - Len(p) \in 1 .. Len(q) /\ r[i] = q[i - Len(p)] /\ i = Len(p) + (i - Len(p))
    <3>1. CASE j \in 1 .. Len(p) /\ r[j] = p[j]
      BY ONLY <1>3, <2>1, <2>2, <2>6, <3>1
    <3>2. CASE j - Len(p) \in 1 .. Len(q) /\ r[j] = q[j - Len(p)] /\ j = Len(p) + (j - Len(p))
      <4>1. i - Len(p) = j - Len(p)
        BY ONLY <1>3, <2>4, <2>6, <3>2
      <4> QED
        BY ONLY <4>1, <2>6, <3>2
    <3> QED
      BY ONLY <1>1, <1>3, <3>1, <3>2
  <2> QED
    BY ONLY <1>1, <1>3, <2>5, <2>6
<1>4. HeldOnce(p) /\ HeldOnce(q) /\ Has(p) \cap Has(q) = {} => HeldOnce(r)
  BY <1>3 DEF HeldOnce
<1> QED
  BY ONLY <1>2, <1>4, <1>d

-----------------------------------------------------------------------------
(* Lines of operations, a function L, and how one of them changes *)

Tidy(L) == /\ \A x \in DOMAIN L : IsSeq(L[x]) /\ HeldOnce(L[x])
           /\ \A x, y \in DOMAIN L : Has(L[x]) \cap Has(L[y]) # {} => x = y
Held(L) == UNION {Has(L[x]) : x \in DOMAIN L}
In(L) == UNION {ToSet(L[x]) : x \in DOMAIN L}

Becomes(L, M, x, q) == /\ x \in DOMAIN L /\ DOMAIN M = DOMAIN L /\ M[x] = q
                       /\ \A y \in DOMAIN L : y # x => M[y] = L[y]

LEMMA Put ==
    ASSUME NEW L, NEW M, NEW x, NEW q, Tidy(L), Becomes(L, M, x, q), IsSeq(q), HeldOnce(q),
           \A y \in DOMAIN L : y # x => Has(q) \cap Has(L[y]) = {}
    PROVE  /\ Tidy(M) /\ In(M) \subseteq In(L) \cup ToSet(q)
           /\ \A k \in Held(M) : k \in Has(q) \/ \E y \in DOMAIN L : y # x /\ k \in Has(L[y])
<1>1. /\ x \in DOMAIN L /\ DOMAIN M = DOMAIN L /\ M[x] = q
      /\ \A y \in DOMAIN L : y # x => M[y] = L[y]
  BY DEF Becomes
<1>2. \A y \in DOMAIN L : IsSeq(L[y]) /\ HeldOnce(L[y])
  BY DEF Tidy
<1>3. \A y, z \in DOMAIN L : Has(L[y]) \cap Has(L[z]) # {} => y = z
  BY DEF Tidy
<1>4. \A y \in DOMAIN M : IsSeq(M[y]) /\ HeldOnce(M[y])
  BY ONLY <1>1, <1>2, IsSeq(q), HeldOnce(q)
<1>5. ASSUME NEW y \in DOMAIN M, NEW z \in DOMAIN M, Has(M[y]) \cap Has(M[z]) # {}
      PROVE  y = z
  <2>1. CASE y = x
    BY ONLY <1>1, <1>5, <2>1, \A w \in DOMAIN L : w # x => Has(q) \cap Has(L[w]) = {}
  <2>2. CASE z = x
    BY ONLY <1>1, <1>5, <2>2, \A w \in DOMAIN L : w # x => Has(q) \cap Has(L[w]) = {}
  <2>3. CASE y # x /\ z # x
    BY ONLY <1>1, <1>3, <1>5, <2>3
  <2> QED
    BY ONLY <2>1, <2>2, <2>3
<1>6. Tidy(M)
  BY ONLY <1>4, <1>5 DEF Tidy
<1>7. In(M) \subseteq In(L) \cup ToSet(q)
  BY ONLY <1>1 DEF In
<1>8. ASSUME NEW k \in Held(M)
      PROVE  k \in Has(q) \/ \E y \in DOMAIN L : y # x /\ k \in Has(L[y])
  BY ONLY <1>1, <1>8 DEF Held
<1> QED
  BY ONLY <1>6, <1>7, <1>8

LEMMA LineIn ==
    ASSUME NEW L, Tidy(L), NEW x \in DOMAIN L
    PROVE  /\ IsSeq(L[x]) /\ HeldOnce(L[x]) /\ Has(L[x]) \subseteq Held(L) /\ ToSet(L[x]) \subseteq In(L)
           /\ \A y \in DOMAIN L : y # x => Has(L[x]) \cap Has(L[y]) = {}
<1>1. IsSeq(L[x]) /\ HeldOnce(L[x]) /\ \A y \in DOMAIN L : y # x => Has(L[x]) \cap Has(L[y]) = {}
  BY DEF Tidy
<1>2. Has(L[x]) \subseteq Held(L) /\ ToSet(L[x]) \subseteq In(L)
  BY DEF Held, In
<1> QED
  BY <1>1, <1>2

\* The first operation of a line gives way to others, which hold what it held
\* or what nobody holds.
LEMMA HeadReplaced ==
    ASSUME NEW L, NEW M, NEW x, NEW ops, Tidy(L), Becomes(L, M, x, ops \o Tail(L[x])), L[x] # <<>>,
           IsSeq(ops), HeldOnce(ops), Has(ops) \cap Held(L) \subseteq Tokens(Head(L[x]))
    PROVE  /\ Tidy(M) /\ In(M) \subseteq In(L) \cup ToSet(ops)
           /\ Held(M) \subseteq (Held(L) \ Tokens(Head(L[x]))) \cup Has(ops)
<1> DEFINE h == Head(L[x])  r == Tail(L[x])  q == ops \o r
<1>1. x \in DOMAIN L
  BY DEF Becomes
<1>2. /\ IsSeq(L[x]) /\ HeldOnce(L[x]) /\ Has(L[x]) \subseteq Held(L) /\ ToSet(L[x]) \subseteq In(L)
      /\ \A y \in DOMAIN L : y # x => Has(L[x]) \cap Has(L[y]) = {}
  BY <1>1, LineIn
<1>3. Has(L[x]) = Tokens(h) \cup Has(r) /\ HeldOnce(r) /\ Tokens(h) \cap Has(r) = {}
  BY <1>2, HasHead
<1>4. IsSeq(r) /\ ToSet(L[x]) = {h} \cup ToSet(r)
  BY <1>2, HeadFacts
<1>5. IsSeq(q) /\ ToSet(q) = ToSet(ops) \cup ToSet(r)
  BY <1>4, JoinFacts
<1>6. Has(q) = Has(ops) \cup Has(r)
  BY <1>4, HasJoin
<1>7. Has(ops) \cap Has(r) = {}
  BY ONLY <1>2, <1>3, Has(ops) \cap Held(L) \subseteq Tokens(Head(L[x]))
<1>8. HeldOnce(q)
  BY <1>3, <1>4, <1>7, HasJoin
<1>9. ASSUME NEW y \in DOMAIN L, y # x PROVE Has(q) \cap Has(L[y]) = {}
  <2>1. Has(L[y]) \subseteq Held(L)
    BY LineIn
  <2> QED
    BY ONLY <1>2, <1>3, <1>6, <1>9, <2>1, Has(ops) \cap Held(L) \subseteq Tokens(Head(L[x]))
<1>10. Becomes(L, M, x, q)
  OBVIOUS
<1> HIDE DEF q, h, r
<1>11. /\ Tidy(M) /\ In(M) \subseteq In(L) \cup ToSet(q)
       /\ \A k \in Held(M) : k \in Has(q) \/ \E y \in DOMAIN L : y # x /\ k \in Has(L[y])
  BY <1>5, <1>8, <1>9, <1>10, Put
<1>12. In(M) \subseteq In(L) \cup ToSet(ops)
  BY ONLY <1>2, <1>4, <1>5, <1>11
<1>13. ASSUME NEW k \in Held(M) PROVE k \in (Held(L) \ Tokens(h)) \cup Has(ops)
  <2>1. CASE k \in Has(q)
    BY ONLY <1>2, <1>3, <1>6, <2>1
  <2>2. CASE \E y \in DOMAIN L : y # x /\ k \in Has(L[y])
    <3>1. PICK y \in DOMAIN L : y # x /\ k \in Has(L[y])
      BY <2>2
    <3>2. Has(L[y]) \subseteq Held(L)
      BY LineIn
    <3> QED
      BY ONLY <1>2, <1>3, <3>1, <3>2
  <2> QED
    BY ONLY <1>11, <1>13, <2>1, <2>2
<1>14. Held(M) \subseteq (Held(L) \ Tokens(h)) \cup Has(ops)
  BY ONLY <1>13
<1> QED
  BY ONLY <1>11, <1>12, <1>14 DEF h

LEMMA HeadRemoved ==
    ASSUME NEW L, NEW M, NEW x, Tidy(L), Becomes(L, M, x, Tail(L[x])), L[x] # <<>>
    PROVE  /\ Tidy(M) /\ In(M) \subseteq In(L)
           /\ Held(M) \subseteq Held(L) \ Tokens(Head(L[x]))
<1>1. x \in DOMAIN L
  BY DEF Becomes
<1>2. IsSeq(L[x])
  BY <1>1, LineIn
<1>3. IsSeq(Tail(L[x]))
  BY <1>2, HeadFacts
<1>4. <<>> \o Tail(L[x]) = Tail(L[x])
  BY <1>3, ConcatEmptySeq DEF IsSeq
<1>5. IsSeq(<<>>) /\ HeldOnce(<<>>) /\ Has(<<>>) = {} /\ ToSet(<<>>) = {}
  BY ONLY Literals, HasLiterals
<1>6. Becomes(L, M, x, <<>> \o Tail(L[x]))
  BY ONLY <1>4, Becomes(L, M, x, Tail(L[x]))
<1>7. Has(<<>>) \cap Held(L) \subseteq Tokens(Head(L[x]))
  BY ONLY <1>5
<1>8. /\ Tidy(M) /\ In(M) \subseteq In(L) \cup ToSet(<<>>)
      /\ Held(M) \subseteq (Held(L) \ Tokens(Head(L[x]))) \cup Has(<<>>)
  BY <1>5, <1>6, <1>7, HeadReplaced
<1> QED
  BY ONLY <1>5, <1>8

LEMMA LastAdded ==
    ASSUME NEW L, NEW M, NEW x, NEW op, Tidy(L), Becomes(L, M, x, Append(L[x], op)),
           Tokens(op) \cap Held(L) = {}
    PROVE  /\ Tidy(M) /\ In(M) \subseteq In(L) \cup {op} /\ Held(M) \subseteq Held(L) \cup Tokens(op)
<1> DEFINE q == L[x] \o <<op>>
<1>1. x \in DOMAIN L
  BY DEF Becomes
<1>2. /\ IsSeq(L[x]) /\ HeldOnce(L[x]) /\ Has(L[x]) \subseteq Held(L) /\ ToSet(L[x]) \subseteq In(L)
      /\ \A y \in DOMAIN L : y # x => Has(L[x]) \cap Has(L[y]) = {}
  BY <1>1, LineIn
<1>3. IsSeq(<<op>>) /\ HeldOnce(<<op>>) /\ Has(<<op>>) = Tokens(op) /\ ToSet(<<op>>) = {op}
  BY ONLY Literals, HasLiterals
<1>4. Append(L[x], op) = q
  BY <1>2, AppendIsJoin
<1>5. IsSeq(q) /\ ToSet(q) = ToSet(L[x]) \cup ToSet(<<op>>)
  BY <1>2, <1>3, JoinFacts
<1>6. Has(q) = Has(L[x]) \cup Has(<<op>>)
  BY <1>2, <1>3, HasJoin
<1>7. Has(L[x]) \cap Has(<<op>>) = {}
  BY ONLY <1>2, <1>3, Tokens(op) \cap Held(L) = {}
<1>8. HeldOnce(q)
  BY <1>2, <1>3, <1>7, HasJoin
<1>9. ASSUME NEW y \in DOMAIN L, y # x PROVE Has(q) \cap Has(L[y]) = {}
  <2>1. Has(L[y]) \subseteq Held(L)
    BY LineIn
  <2> QED
    BY ONLY <1>2, <1>3, <1>6, <1>9, <2>1, Tokens(op) \cap Held(L) = {}
<1>10. Becomes(L, M, x, q)
  BY <1>4
<1> HIDE DEF q
<1>11. /\ Tidy(M) /\ In(M) \subseteq In(L) \cup ToSet(q)
       /\ \A k \in Held(M) : k \in Has(q) \/ \E y \in DOMAIN L : y # x /\ k \in Has(L[y])
  BY <1>5, <1>8, <1>9, <1>10, Put
<1>12. In(M) \subseteq In(L) \cup {op}
  BY ONLY <1>2, <1>3, <1>5, <1>11
<1>13. ASSUME NEW k \in Held(M) PROVE k \in Held(L) \cup Tokens(op)
  <2>1. \A y \in DOMAIN L : Has(L[y]) \subseteq Held(L)
    BY DEF Held
  <2> QED
    BY ONLY <1>2, <1>3, <1>6, <1>11, <1>13, <2>1
<1> QED
  BY ONLY <1>11, <1>12, <1>13

\* A line becomes another, which holds what nobody held.
LEMMA LineFilled ==
    ASSUME NEW L, NEW M, NEW x, NEW q, Tidy(L), Becomes(L, M, x, q), IsSeq(q), HeldOnce(q),
           Has(q) \cap Held(L) = {}
    PROVE  /\ Tidy(M) /\ In(M) \subseteq In(L) \cup ToSet(q)
           /\ Held(M) \subseteq (Held(L) \ Has(L[x])) \cup Has(q)
<1>1. x \in DOMAIN L
  BY DEF Becomes
<1>2. \A y \in DOMAIN L : y # x => Has(L[x]) \cap Has(L[y]) = {}
  BY <1>1, LineIn
<1>3. \A y \in DOMAIN L : Has(L[y]) \subseteq Held(L)
  BY DEF Held
<1>4. \A y \in DOMAIN L : y # x => Has(q) \cap Has(L[y]) = {}
  BY ONLY <1>3, Has(q) \cap Held(L) = {}
<1>5. /\ Tidy(M) /\ In(M) \subseteq In(L) \cup ToSet(q)
      /\ \A k \in Held(M) : k \in Has(q) \/ \E y \in DOMAIN L : y # x /\ k \in Has(L[y])
  BY <1>4, Put
<1>6. Held(M) \subseteq (Held(L) \ Has(L[x])) \cup Has(q)
  BY ONLY <1>2, <1>3, <1>5
<1> QED
  BY ONLY <1>5, <1>6

-----------------------------------------------------------------------------
(* The lines of a state: what every thread has to do, the queues of the      *)
(* executors, and the callback that a shared state stores                    *)

Queue == {"pool", "manual"}
Lines == ({"todo"} \X Threads) \cup ({"queue"} \X Queue) \cup ({"cell"} \X States)

Cell(c) == IF c = <<>> THEN <<>> ELSE <<<<"call", c[1]>>>>
BeltOf(td, qu, cb) == [x \in Lines |-> IF x[1] = "todo" THEN td[x[2]]
                                    ELSE IF x[1] = "queue" THEN qu[x[2]]
                                    ELSE Cell(cb[x[2]])]
Queues == [e \in Queue |-> Waiting(e)]
Belt == BeltOf(todo, Queues, callback)
Carried == Held(Belt)
Ops == In(Belt)

LEMMA LinesAre ==
    /\ \A t \in Threads : <<"todo", t>> \in Lines
    /\ \A e \in Queue : <<"queue", e>> \in Lines
    /\ \A s \in States : <<"cell", s>> \in Lines
    /\ \A x \in Lines : \/ \E t \in Threads : x = <<"todo", t>>
                        \/ \E e \in Queue : x = <<"queue", e>>
                        \/ \E s \in States : x = <<"cell", s>>
  BY DEF Lines

LEMMA BeltIs ==
    \A td, qu, cb :
      /\ DOMAIN BeltOf(td, qu, cb) = Lines
      /\ \A t \in Threads : BeltOf(td, qu, cb)[<<"todo", t>>] = td[t]
      /\ \A e \in Queue : BeltOf(td, qu, cb)[<<"queue", e>>] = qu[e]
      /\ \A s \in States : BeltOf(td, qu, cb)[<<"cell", s>>] = Cell(cb[s])
<1> TAKE td, qu, cb
<1>1. DOMAIN BeltOf(td, qu, cb) = Lines
  BY DEF BeltOf
<1>2. \A x \in Lines : BeltOf(td, qu, cb)[x] = IF x[1] = "todo" THEN td[x[2]]
                                            ELSE IF x[1] = "queue" THEN qu[x[2]]
                                            ELSE Cell(cb[x[2]])
  BY DEF BeltOf
<1>3. \A t : <<"todo", t>>[1] = "todo" /\ <<"todo", t>>[2] = t
  OBVIOUS
<1>4. \A t : <<"queue", t>>[1] = "queue" /\ <<"queue", t>>[2] = t /\ "queue" # "todo"
  OBVIOUS
<1>5. \A t : <<"cell", t>>[1] = "cell" /\ <<"cell", t>>[2] = t /\ "cell" # "todo" /\ "cell" # "queue"
  OBVIOUS
<1>6. \A t \in Threads : BeltOf(td, qu, cb)[<<"todo", t>>] = td[t]
  BY ONLY <1>2, <1>3, LinesAre
<1>7. \A e \in Queue : BeltOf(td, qu, cb)[<<"queue", e>>] = qu[e]
  BY ONLY <1>2, <1>4, LinesAre
<1>8. \A s \in States : BeltOf(td, qu, cb)[<<"cell", s>>] = Cell(cb[s])
  BY ONLY <1>2, <1>5, LinesAre
<1> QED
  BY ONLY <1>1, <1>6, <1>7, <1>8

LEMMA TodoBecomes ==
    ASSUME NEW td, NEW te, NEW qu, NEW cb, NEW t \in Threads, NEW q,
           DOMAIN td = Threads, te = [td EXCEPT ![t] = q]
    PROVE  Becomes(BeltOf(td, qu, cb), BeltOf(te, qu, cb), <<"todo", t>>, q)
<1>1. <<"todo", t>> \in Lines /\ te[t] = q /\ \A u \in Threads : u # t => te[u] = td[u]
  BY LinesAre
<1>2. \A y \in Lines : y # <<"todo", t>> => BeltOf(te, qu, cb)[y] = BeltOf(td, qu, cb)[y]
  BY ONLY <1>1, LinesAre, BeltIs
<1> QED
  BY ONLY <1>1, <1>2, BeltIs, t \in Threads DEF Becomes

LEMMA QueueBecomes ==
    ASSUME NEW td, NEW qu, NEW qv, NEW cb, NEW e \in Queue, NEW q,
           DOMAIN qu = Queue, qv = [qu EXCEPT ![e] = q]
    PROVE  Becomes(BeltOf(td, qu, cb), BeltOf(td, qv, cb), <<"queue", e>>, q)
<1>1. <<"queue", e>> \in Lines /\ qv[e] = q /\ \A u \in Queue : u # e => qv[u] = qu[u]
  BY LinesAre
<1>2. \A y \in Lines : y # <<"queue", e>> => BeltOf(td, qv, cb)[y] = BeltOf(td, qu, cb)[y]
  BY ONLY <1>1, LinesAre, BeltIs
<1> QED
  BY ONLY <1>1, <1>2, BeltIs, e \in Queue DEF Becomes

LEMMA CellBecomes ==
    ASSUME NEW td, NEW qu, NEW cb, NEW cc, NEW s \in States, NEW c,
           DOMAIN cb = States, cc = [cb EXCEPT ![s] = c]
    PROVE  Becomes(BeltOf(td, qu, cb), BeltOf(td, qu, cc), <<"cell", s>>, Cell(c))
<1>1. <<"cell", s>> \in Lines /\ cc[s] = c /\ \A u \in States : u # s => cc[u] = cb[u]
  BY LinesAre
<1>2. \A y \in Lines : y # <<"cell", s>> => BeltOf(td, qu, cc)[y] = BeltOf(td, qu, cb)[y]
  BY ONLY <1>1, LinesAre, BeltIs
<1> QED
  BY ONLY <1>1, <1>2, BeltIs, s \in States DEF Becomes

-----------------------------------------------------------------------------
(* The inductive invariant: the lines *)

IsCallback(c) ==
    \/ c[1] \in {"then", "recover", "compute", "forward"} /\ c[2] \in States
    \/ c[1] = "flatMap" /\ c[2] \in States /\ c[3] \in States
    \/ c[1] \in {"all", "firstOf"} /\ c[2] \in States /\ c[3] \in Nat
    \/ c[1] = "get" /\ c[2] \in Clients

IsOperation(op) ==
    \/ op[1] \in {"set", "ready", "try", "notify", "publish", "check"} /\ op[2] \in States
    \/ op[1] = "subscribe" /\ op[2] \in States /\ IsCallback(op[3]) /\ Future(op[2]) \notin CallTokens(op[3])
    \/ op[1] = "call" /\ IsCallback(op[2])
    \/ op[1] = "finish" /\ op[2] \in States /\ op[3] \in Nat
    \/ op[1] \in {"awake", "wake"} /\ op[2] \in Clients
    \/ op = <<"sleep">>
    \/ op = <<"pop">>
    \/ IsScriptOperation(op)

\* Who sets the flag of the result tries the callback next, and who sets that
\* of the callback checks the result.
Paired(q) == \A i \in 1 .. Len(q) :
    /\ q[i][1] = "ready" => i + 1 \in 1 .. Len(q) /\ q[i + 1] = <<"try", q[i][2]>>
    /\ q[i][1] = "publish" => i + 1 \in 1 .. Len(q) /\ q[i + 1] = <<"check", q[i][2]>>

\* A thread sleeps in one Get at a time, and takes one task of the manual
\* executor at a time.
Ordered(q) == \A i, j \in 1 .. Len(q) :
    i < j => /\ ~ (q[i][1] = "get" /\ q[j][1] = "sleep")
             /\ ~ (q[i][1] \in {"run", "pop"} /\ q[j][1] = "pop")

ThreadsInv ==
    /\ DOMAIN todo = Threads
    /\ \A t \in Threads : IsSeq(todo[t]) /\ Paired(todo[t]) /\ Ordered(todo[t])
    /\ \A t \in Threads : \A op \in ToSet(todo[t]) :
          op[1] \in {"get", "getReady", "sleep"} => t \in Clients
    /\ \A t, u \in Threads : \A a \in ToSet(todo[t]), b \in ToSet(todo[u]) :
          a[1] \in {"run", "pop"} /\ b[1] \in {"run", "pop"} => t = u

QueuesInv ==
    /\ DOMAIN tasks = Queue
    /\ \A e \in Queue : IsSeq(tasks[e]) /\ \A op \in ToSet(tasks[e]) : op[1] = "call"
    /\ RunByHand => tasks["manual"] # <<>>

LinesInv ==
    /\ DOMAIN callback = States
    /\ ThreadsInv
    /\ QueuesInv
    /\ Tidy(Belt)
    /\ \A op \in Ops : IsOperation(op)

-----------------------------------------------------------------------------
(* A thread goes on: its first operation gives way to others *)

LEMMA GoesOn ==
    ASSUME NEW q, IsSeq(q), q # <<>>, NEW ops, IsSeq(ops)
    PROVE  /\ IsSeq(ops \o Tail(q)) /\ Len(ops) \in Nat /\ Len(q) \in Nat \ {0}
           /\ Len(ops \o Tail(q)) = Len(ops) + (Len(q) - 1)
           /\ 1 \in 1 .. Len(q) /\ Head(q) = q[1] /\ Head(q) \in ToSet(q)
           /\ \A i \in 1 .. Len(ops) : i \in 1 .. Len(ops \o Tail(q)) /\ (ops \o Tail(q))[i] = ops[i]
           /\ \A i \in 1 .. Len(ops \o Tail(q)) :
                 \/ i \in 1 .. Len(ops) /\ (ops \o Tail(q))[i] = ops[i]
                 \/ /\ i > Len(ops) /\ i - Len(ops) + 1 \in 2 .. Len(q)
                    /\ (ops \o Tail(q))[i] = q[i - Len(ops) + 1]
           /\ ToSet(ops \o Tail(q)) = ToSet(ops) \cup ToSet(Tail(q))
           /\ ToSet(q) = {Head(q)} \cup ToSet(Tail(q))
<1>1. /\ Len(q) \in Nat \ {0} /\ 1 \in 1 .. Len(q) /\ Head(q) = q[1] /\ Head(q) \in ToSet(q)
      /\ IsSeq(Tail(q)) /\ Len(Tail(q)) = Len(q) - 1
      /\ \A i \in 1 .. Len(q) - 1 : Tail(q)[i] = q[i + 1]
      /\ ToSet(q) = {Head(q)} \cup ToSet(Tail(q))
  BY HeadFacts
<1>2. /\ IsSeq(ops \o Tail(q)) /\ Len(ops \o Tail(q)) = Len(ops) + Len(Tail(q)) /\ Len(ops) \in Nat
      /\ \A i \in 1 .. Len(ops) : i \in 1 .. Len(ops \o Tail(q)) /\ (ops \o Tail(q))[i] = ops[i]
  BY <1>1, JoinFacts
<1>3. /\ \A i \in 1 .. Len(ops \o Tail(q)) :
           \/ i \in 1 .. Len(ops) /\ (ops \o Tail(q))[i] = ops[i]
           \/ /\ i - Len(ops) \in 1 .. Len(Tail(q)) /\ (ops \o Tail(q))[i] = Tail(q)[i - Len(ops)]
              /\ i = Len(ops) + (i - Len(ops))
      /\ ToSet(ops \o Tail(q)) = ToSet(ops) \cup ToSet(Tail(q))
  BY <1>1, JoinFacts
<1>4. ASSUME NEW i \in 1 .. Len(ops \o Tail(q))
      PROVE  \/ i \in 1 .. Len(ops) /\ (ops \o Tail(q))[i] = ops[i]
             \/ /\ i > Len(ops) /\ i - Len(ops) + 1 \in 2 .. Len(q)
                /\ (ops \o Tail(q))[i] = q[i - Len(ops) + 1]
  <2>1. CASE i \in 1 .. Len(ops) /\ (ops \o Tail(q))[i] = ops[i]
    BY <2>1
  <2>2. CASE i - Len(ops) \in 1 .. Len(Tail(q)) /\ (ops \o Tail(q))[i] = Tail(q)[i - Len(ops)]
    <3>1. PICK k \in 1 .. Len(q) - 1 : k = i - Len(ops)
      BY ONLY <1>1, <2>2
    <3>2. i > Len(ops) /\ i - Len(ops) + 1 = k + 1 /\ k + 1 \in 2 .. Len(q)
      BY ONLY <1>1, <1>2, <3>1, i \in 1 .. Len(ops \o Tail(q))
    <3>3. (ops \o Tail(q))[i] = q[k + 1]
      BY ONLY <1>1, <2>2, <3>1
    <3> QED
      BY ONLY <3>2, <3>3
  <2> QED
    BY ONLY <1>3, <2>1, <2>2, i \in 1 .. Len(ops \o Tail(q))
<1> QED
  BY ONLY <1>1, <1>2, <1>3, <1>4

\* What a step puts before the rest: parts of the first operation's work.
Fit(first, ops) ==
    /\ IsSeq(ops) /\ Paired(ops) /\ Ordered(ops)
    /\ \A op \in ToSet(ops) : /\ op[1] \notin {"get", "getReady"}
                              /\ op[1] \in {"run", "pop"} => first[1] = "run"
                              /\ op[1] = "sleep" => first[1] = "get"

LEMMA PairedOn ==
    ASSUME NEW q, IsSeq(q), q # <<>>, NEW ops, IsSeq(ops), Paired(q), Paired(ops)
    PROVE  Paired(ops \o Tail(q))
<1>1. PICK r : r = ops \o Tail(q)
  OBVIOUS
<1>2. /\ Len(ops) \in Nat /\ Len(q) \in Nat \ {0} /\ Len(r) = Len(ops) + (Len(q) - 1)
      /\ \A i \in 1 .. Len(ops) : i \in 1 .. Len(r) /\ r[i] = ops[i]
      /\ \A i \in 1 .. Len(r) :
            \/ i \in 1 .. Len(ops) /\ r[i] = ops[i]
            \/ i > Len(ops) /\ i - Len(ops) + 1 \in 2 .. Len(q) /\ r[i] = q[i - Len(ops) + 1]
  BY <1>1, GoesOn
<1> DEFINE Next2(s, i) == /\ s[i][1] = "ready" => i + 1 \in 1 .. Len(s) /\ s[i + 1] = <<"try", s[i][2]>>
                          /\ s[i][1] = "publish" => i + 1 \in 1 .. Len(s) /\ s[i + 1] = <<"check", s[i][2]>>
<1>3. \A i \in 1 .. Len(q) : Next2(q, i)
  BY DEF Paired
<1>4. \A i \in 1 .. Len(ops) : Next2(ops, i)
  BY DEF Paired
<1>5. ASSUME NEW i \in 1 .. Len(r) PROVE Next2(r, i)
  <2>1. CASE i \in 1 .. Len(ops) /\ r[i] = ops[i]
    <3>1. i + 1 \in 1 .. Len(ops) => i + 1 \in 1 .. Len(r) /\ r[i + 1] = ops[i + 1]
      BY ONLY <1>2
    <3> QED
      BY ONLY <1>4, <2>1, <3>1
  <2>2. CASE i > Len(ops) /\ i - Len(ops) + 1 \in 2 .. Len(q) /\ r[i] = q[i - Len(ops) + 1]
    <3>1. PICK k \in 2 .. Len(q) : k = i - Len(ops) + 1 /\ k \in 1 .. Len(q)
      BY ONLY <1>2, <2>2
    <3>2. ASSUME k + 1 \in 1 .. Len(q) PROVE i + 1 \in 1 .. Len(r) /\ r[i + 1] = q[k + 1]
      <4>1. i + 1 \in 1 .. Len(r) /\ i + 1 \notin 1 .. Len(ops)
        BY ONLY <1>2, <2>2, <3>1, <3>2, i \in 1 .. Len(r)
      <4>2. (i + 1) - Len(ops) + 1 = k + 1
        BY ONLY <1>2, <3>1, i \in 1 .. Len(r)
      <4> QED
        BY ONLY <1>2, <4>1, <4>2
    <3>3. r[i] = q[k]
      BY ONLY <2>2, <3>1
    <3> QED
      BY ONLY <1>3, <3>1, <3>2, <3>3
  <2> QED
    BY ONLY <1>2, <2>1, <2>2, i \in 1 .. Len(r)
<1>6. Paired(r)
  BY <1>5 DEF Paired
<1> QED
  BY ONLY <1>1, <1>6

LEMMA OrderedOn ==
    ASSUME NEW q, IsSeq(q), q # <<>>, NEW ops, Fit(Head(q), ops), Ordered(q)
    PROVE  Ordered(ops \o Tail(q))
<1>1. PICK r : r = ops \o Tail(q)
  OBVIOUS
<1>0. IsSeq(ops) /\ Ordered(ops)
  BY DEF Fit
<1>2. /\ Len(ops) \in Nat /\ Len(q) \in Nat \ {0} /\ Len(r) = Len(ops) + (Len(q) - 1)
      /\ 1 \in 1 .. Len(q) /\ Head(q) = q[1]
      /\ \A i \in 1 .. Len(r) :
            \/ i \in 1 .. Len(ops) /\ r[i] = ops[i]
            \/ i > Len(ops) /\ i - Len(ops) + 1 \in 2 .. Len(q) /\ r[i] = q[i - Len(ops) + 1]
  BY <1>0, <1>1, GoesOn
<1> DEFINE Right(a, b) == /\ ~ (a[1] = "get" /\ b[1] = "sleep")
                          /\ ~ (a[1] \in {"run", "pop"} /\ b[1] = "pop")
<1>3. \A i, j \in 1 .. Len(q) : i < j => Right(q[i], q[j])
  BY DEF Ordered
<1>4. \A i, j \in 1 .. Len(ops) : i < j => Right(ops[i], ops[j])
  BY <1>0 DEF Ordered
<1>5. \A i \in 1 .. Len(ops) : ops[i][1] # "get" /\ (ops[i][1] \in {"run", "pop"} => q[1][1] = "run")
  BY <1>0, <1>2, SeqFacts DEF Fit
<1>6. \A j \in 2 .. Len(q) : j \in 1 .. Len(q) /\ 1 < j
  BY ONLY <1>2
<1>7. ASSUME NEW i \in 1 .. Len(r), NEW j \in 1 .. Len(r), i < j PROVE Right(r[i], r[j])
  <2>1. CASE i \in 1 .. Len(ops) /\ r[i] = ops[i]
    <3>1. CASE j \in 1 .. Len(ops) /\ r[j] = ops[j]
      BY ONLY <1>4, <1>7, <2>1, <3>1
    <3>2. CASE j - Len(ops) + 1 \in 2 .. Len(q) /\ r[j] = q[j - Len(ops) + 1]
      <4>1. Right(q[1], r[j])
        BY ONLY <1>2, <1>3, <1>6, <3>2
      <4> QED
        BY ONLY <1>5, <2>1, <4>1
    <3> QED
      BY ONLY <1>2, <3>1, <3>2, j \in 1 .. Len(r)
  <2>2. CASE i > Len(ops) /\ i - Len(ops) + 1 \in 2 .. Len(q) /\ r[i] = q[i - Len(ops) + 1]
    <3>1. j - Len(ops) + 1 \in 2 .. Len(q) /\ r[j] = q[j - Len(ops) + 1]
      BY ONLY <1>2, <1>7, <2>2
    <3>2. PICK k, l \in 1 .. Len(q) : k = i - Len(ops) + 1 /\ l = j - Len(ops) + 1
      BY ONLY <1>6, <2>2, <3>1
    <3>3. k < l
      BY ONLY <1>2, <1>7, <3>2
    <3> QED
      BY ONLY <1>3, <2>2, <3>1, <3>2, <3>3
  <2> QED
    BY ONLY <1>2, <2>1, <2>2, i \in 1 .. Len(r)
<1>8. Ordered(r)
  BY <1>7 DEF Ordered
<1> QED
  BY ONLY <1>1, <1>8

\* Only the first operation is gone.
Keeps(t) == \A u \in Threads : \A op \in ToSet(todo[u]) :
                op \in ToSet(todo'[u]) \/ (u = t /\ op = Head(todo[t]))

LEMMA TodoStep ==
    ASSUME ThreadsInv, NEW t \in Threads, todo[t] # <<>>, NEW ops, Fit(Head(todo[t]), ops), Continue(t, ops)
    PROVE  /\ ThreadsInv' /\ Keeps(t)
           /\ Head(todo[t]) # <<"pop">> /\ <<"pop">> \notin ToSet(ops) => RunByHand' = RunByHand
<1> DEFINE q == todo[t]  r == ops \o Tail(q)
<1>1. /\ DOMAIN todo = Threads
      /\ \A u \in Threads : IsSeq(todo[u]) /\ Paired(todo[u]) /\ Ordered(todo[u])
  BY DEF ThreadsInv
<1>2. DOMAIN todo' = Threads /\ todo'[t] = r /\ \A u \in Threads : u # t => todo'[u] = todo[u]
  BY <1>1 DEF Continue
<1>3. IsSeq(ops) /\ Paired(ops)
  BY DEF Fit
<1>4. /\ IsSeq(r) /\ ToSet(r) = ToSet(ops) \cup ToSet(Tail(q)) /\ Head(q) \in ToSet(q)
      /\ ToSet(q) = {Head(q)} \cup ToSet(Tail(q))
  BY <1>1, <1>3, GoesOn
<1>5. Paired(r)
  BY <1>1, <1>3, PairedOn
<1>6. Ordered(r)
  BY <1>1, OrderedOn
<1> HIDE DEF q, r
<1>7. Keeps(t)
  BY ONLY <1>2, <1>4, t \in Threads DEF Keeps, q
<1>8. \A u \in Threads : IsSeq(todo'[u]) /\ Paired(todo'[u]) /\ Ordered(todo'[u])
  BY ONLY <1>1, <1>2, <1>4, <1>5, <1>6
<1>9. /\ \A op \in ToSet(ops) : /\ op[1] \notin {"get", "getReady"}
                                /\ op[1] \in {"run", "pop"} => Head(q)[1] = "run"
                                /\ op[1] = "sleep" => Head(q)[1] = "get"
  BY DEF Fit, q
<1>10. \A u \in Threads : \A op \in ToSet(todo[u]) : op[1] \in {"get", "getReady", "sleep"} => u \in Clients
  BY DEF ThreadsInv
<1>11. \A u \in Threads : \A op \in ToSet(todo'[u]) : op[1] \in {"get", "getReady", "sleep"} => u \in Clients
  BY ONLY <1>2, <1>4, <1>9, <1>10, t \in Threads DEF q
<1>12. \A u, v \in Threads : \A a \in ToSet(todo[u]), b \in ToSet(todo[v]) :
          a[1] \in {"run", "pop"} /\ b[1] \in {"run", "pop"} => u = v
  BY DEF ThreadsInv
<1>13. ASSUME NEW u \in Threads, NEW a \in ToSet(todo'[u]), a[1] \in {"run", "pop"}
       PROVE  \E b \in ToSet(todo[u]) : b[1] \in {"run", "pop"}
  BY ONLY <1>2, <1>4, <1>9, <1>13, t \in Threads DEF q
<1>14. \A u, v \in Threads : \A a \in ToSet(todo'[u]), b \in ToSet(todo'[v]) :
          a[1] \in {"run", "pop"} /\ b[1] \in {"run", "pop"} => u = v
  BY ONLY <1>12, <1>13
<1>15. ThreadsInv'
  BY ONLY <1>2, <1>8, <1>11, <1>14 DEF ThreadsInv
<1>16. ASSUME Head(todo[t]) # <<"pop">>, <<"pop">> \notin ToSet(ops) PROVE RunByHand' = RunByHand
  <2>1. \A u \in Threads : <<"pop">> \in ToSet(todo'[u]) <=> <<"pop">> \in ToSet(todo[u])
    BY ONLY <1>2, <1>4, <1>16, t \in Threads DEF q
  <2> QED
    BY ONLY <2>1 DEF RunByHand
<1> QED
  BY ONLY <1>7, <1>15, <1>16

-----------------------------------------------------------------------------
(* The lines after a step.  The callbacks are those of the next state.       *)

Between == BeltOf(todo, Queues, callback')

LEMMA QueuesAre ==
    ASSUME QueuesInv
    PROVE  /\ DOMAIN Queues = Queue /\ tasks["pool"] = Queues["pool"]
           /\ ~ RunByHand => \A e \in Queue : Queues[e] = tasks[e]
           /\ RunByHand => Queues["manual"] = Tail(tasks["manual"]) /\ tasks["manual"] # <<>>
           /\ \A e \in Queue : IsSeq(tasks[e]) /\ IsSeq(Queues[e]) /\ ToSet(Queues[e]) \subseteq ToSet(tasks[e])
<1>1. /\ \A e \in Queue : IsSeq(tasks[e])
      /\ RunByHand => tasks["manual"] # <<>>
  BY DEF QueuesInv
<1>2. "pool" \in Queue /\ "manual" \in Queue /\ "pool" # "manual" /\ \A e \in Queue : e = "pool" \/ e = "manual"
  BY DEF Queue
<1>3. DOMAIN Queues = Queue /\ \A e \in Queue : Queues[e] = Waiting(e)
  BY DEF Queues
<1>4. \A e : Waiting(e) = IF e = "manual" /\ RunByHand THEN Tail(tasks[e]) ELSE tasks[e]
  BY DEF Waiting
<1>5. RunByHand => IsSeq(Tail(tasks["manual"])) /\ ToSet(Tail(tasks["manual"])) \subseteq ToSet(tasks["manual"])
  BY <1>1, <1>2, HeadFacts
<1>6. \A e \in Queue : IsSeq(Queues[e]) /\ ToSet(Queues[e]) \subseteq ToSet(tasks[e])
  BY ONLY <1>1, <1>2, <1>3, <1>4, <1>5
<1> QED
  BY ONLY <1>1, <1>2, <1>3, <1>4, <1>6

LEMMA BeltGoes ==
    ASSUME NEW qu, NEW cb, Tidy(BeltOf(todo, qu, cb)), DOMAIN todo = Threads,
           NEW t \in Threads, todo[t] # <<>>, NEW ops, IsSeq(ops), HeldOnce(ops), Continue(t, ops),
           Has(ops) \cap Held(BeltOf(todo, qu, cb)) \subseteq Tokens(Head(todo[t]))
    PROVE  LET L == BeltOf(todo, qu, cb)  M == BeltOf(todo', qu, cb)
           IN  /\ Tidy(M) /\ In(M) \subseteq In(L) \cup ToSet(ops)
               /\ Held(M) \subseteq (Held(L) \ Tokens(Head(todo[t]))) \cup Has(ops)
<1> DEFINE L == BeltOf(todo, qu, cb)  M == BeltOf(todo', qu, cb)  x == <<"todo", t>>
<1>1. L[x] = todo[t]
  BY BeltIs
<1>2. todo' = [todo EXCEPT ![t] = ops \o Tail(todo[t])]
  BY DEF Continue
<1>3. Becomes(L, M, x, ops \o Tail(todo[t]))
  BY <1>2, TodoBecomes
<1>4. Tidy(L) /\ Has(ops) \cap Held(L) \subseteq Tokens(Head(todo[t]))
  OBVIOUS
<1> HIDE DEF L, M, x
<1>5. Becomes(L, M, x, ops \o Tail(L[x])) /\ L[x] # <<>> /\ Has(ops) \cap Held(L) \subseteq Tokens(Head(L[x]))
  BY ONLY <1>1, <1>3, <1>4, todo[t] # <<>>
<1>6. /\ Tidy(M) /\ In(M) \subseteq In(L) \cup ToSet(ops)
      /\ Held(M) \subseteq (Held(L) \ Tokens(Head(L[x]))) \cup Has(ops)
  BY <1>4, <1>5, HeadReplaced
<1> QED
  BY ONLY <1>1, <1>6 DEF L, M

\* The operation is done, and leaves a task for a queue.
LEMMA BeltSends ==
    ASSUME NEW cb, Tidy(BeltOf(todo, Queues, cb)), DOMAIN todo = Threads, QueuesInv,
           NEW t \in Threads, todo[t] # <<>>, NEW task, NEW e \in Queue, Continue(t, <<>>),
           tasks' = [tasks EXCEPT ![e] = Append(@, task)], RunByHand' = RunByHand,
           Tokens(task) \cap Held(BeltOf(todo, Queues, cb)) \subseteq Tokens(Head(todo[t]))
    PROVE  LET L == BeltOf(todo, Queues, cb)  M == BeltOf(todo', Queues', cb)
           IN  /\ Tidy(M) /\ In(M) \subseteq In(L) \cup {task}
               /\ Held(M) \subseteq (Held(L) \ Tokens(Head(todo[t]))) \cup Tokens(task)
<1> DEFINE L == BeltOf(todo, Queues, cb)  N == BeltOf(todo', Queues, cb)  M == BeltOf(todo', Queues', cb)
           x == <<"queue", e>>
<1>1. IsSeq(<<>>) /\ HeldOnce(<<>>) /\ Has(<<>>) = {} /\ ToSet(<<>>) = {}
  BY ONLY Literals, HasLiterals
<1>2. Has(<<>>) \cap Held(L) \subseteq Tokens(Head(todo[t]))
  BY ONLY <1>1
<1>3. /\ Tidy(N) /\ In(N) \subseteq In(L) \cup ToSet(<<>>)
      /\ Held(N) \subseteq (Held(L) \ Tokens(Head(todo[t]))) \cup Has(<<>>)
  BY <1>1, <1>2, BeltGoes
<1>4. /\ DOMAIN Queues = Queue /\ tasks["pool"] = Queues["pool"]
      /\ ~ RunByHand => \A f \in Queue : Queues[f] = tasks[f]
      /\ RunByHand => Queues["manual"] = Tail(tasks["manual"]) /\ tasks["manual"] # <<>>
      /\ \A f \in Queue : IsSeq(tasks[f])
  BY QueuesAre
<1>5. RunByHand => Tail(Append(tasks["manual"], task)) = Append(Tail(tasks["manual"]), task)
  <2>1. ASSUME RunByHand PROVE Tail(Append(tasks["manual"], task)) = Append(Tail(tasks["manual"]), task)
    <3> DEFINE S == ToSet(tasks["manual"]) \cup {task}
    <3>1. tasks["manual"] \in Seq(S) /\ task \in S /\ tasks["manual"] # <<>>
      BY <1>4, <2>1, SeqMonotonic DEF IsSeq, Queue
    <3> HIDE DEF S
    <3> QED
      BY ONLY <3>1
  <2> QED
    BY <2>1
<1>6. Queues' = [Queues EXCEPT ![e] = Append(Queues[e], task)]
  <2>1. "pool" \in Queue /\ "manual" \in Queue /\ "pool" # "manual" /\ \A f \in Queue : f = "pool" \/ f = "manual"
    BY DEF Queue
  <2>2. DOMAIN tasks = Queue
    BY DEF QueuesInv
  <2>3. Queues' = [f \in Queue |-> IF f = "manual" /\ RunByHand THEN Tail(tasks'[f]) ELSE tasks'[f]]
    BY DEF Queues, Waiting
  <2>4. \A f \in Queue : tasks'[f] = IF f = e THEN Append(tasks[e], task) ELSE tasks[f]
    BY ONLY <2>2, e \in Queue, tasks' = [tasks EXCEPT ![e] = Append(@, task)]
  <2>5. ASSUME NEW f \in Queue PROVE Queues'[f] = IF f = e THEN Append(Queues[e], task) ELSE Queues[f]
    BY ONLY <1>4, <1>5, <2>1, <2>3, <2>4, e \in Queue, f \in Queue
  <2> QED
    BY ONLY <1>4, <2>3, <2>5, e \in Queue
<1>7. Becomes(N, M, x, Append(Queues[e], task))
  BY <1>4, <1>6, QueueBecomes
<1>8. N[x] = Queues[e]
  BY BeltIs
<1> HIDE DEF L, N, M, x
<1>9. Tokens(task) \cap Held(N) = {}
  BY ONLY <1>1, <1>3, Tokens(task) \cap Held(BeltOf(todo, Queues, cb)) \subseteq Tokens(Head(todo[t])) DEF L
<1>10. Becomes(N, M, x, Append(N[x], task))
  BY ONLY <1>7, <1>8
<1>11. Tidy(M) /\ In(M) \subseteq In(N) \cup {task} /\ Held(M) \subseteq Held(N) \cup Tokens(task)
  BY <1>3, <1>9, <1>10, LastAdded
<1>12. Tidy(M) /\ In(M) \subseteq In(L) \cup {task}
  BY ONLY <1>1, <1>3, <1>11
<1>13. Held(M) \subseteq (Held(L) \ Tokens(Head(todo[t]))) \cup Tokens(task)
  BY ONLY <1>1, <1>3, <1>11
<1> QED
  BY ONLY <1>12, <1>13 DEF L, M

-----------------------------------------------------------------------------
(* What a step of t does to what is held and what is to be done *)

Moved(t, gone, made, new) ==
    /\ LinesInv' /\ Keeps(t)
    /\ Carried' \subseteq (Carried \ gone) \cup made
    /\ Ops' \subseteq Ops \cup new

LEMMA HeadIs ==
    ASSUME LinesInv, NEW t \in Threads, todo[t] # <<>>
    PROVE  /\ Head(todo[t]) \in ToSet(todo[t]) /\ Head(todo[t]) \in Ops /\ IsOperation(Head(todo[t]))
           /\ Tokens(Head(todo[t])) \subseteq Carried
           /\ DOMAIN todo = Threads /\ IsSeq(todo[t])
<1>1. DOMAIN todo = Threads /\ IsSeq(todo[t]) /\ Tidy(Belt) /\ \A op \in Ops : IsOperation(op)
  BY DEF LinesInv, ThreadsInv
<1>2. Head(todo[t]) \in ToSet(todo[t])
  BY <1>1, HeadFacts
<1>3. <<"todo", t>> \in DOMAIN Belt /\ Belt[<<"todo", t>>] = todo[t]
  BY BeltIs, LinesAre DEF Belt
<1>4. /\ IsSeq(Belt[<<"todo", t>>]) /\ HeldOnce(Belt[<<"todo", t>>])
      /\ Has(Belt[<<"todo", t>>]) \subseteq Held(Belt) /\ ToSet(Belt[<<"todo", t>>]) \subseteq In(Belt)
  BY <1>1, <1>3, LineIn
<1>5. Has(todo[t]) = Tokens(Head(todo[t])) \cup Has(Tail(todo[t]))
  BY <1>1, <1>3, <1>4, HasHead
<1> QED
  BY ONLY <1>1, <1>2, <1>3, <1>4, <1>5 DEF Carried, Ops

LEMMA TodoIn == ASSUME NEW t \in Threads PROVE ToSet(todo[t]) \subseteq Ops
<1>1. <<"todo", t>> \in DOMAIN Belt /\ Belt[<<"todo", t>>] = todo[t]
  BY BeltIs, LinesAre DEF Belt
<1> QED
  BY ONLY <1>1 DEF Ops, In

LEMMA QueueIn == ASSUME NEW e \in Queue PROVE ToSet(Queues[e]) \subseteq Ops
<1>1. <<"queue", e>> \in DOMAIN Belt /\ Belt[<<"queue", e>>] = Queues[e]
  BY BeltIs, LinesAre DEF Belt
<1> QED
  BY ONLY <1>1 DEF Ops, In

LEMMA Local ==
    ASSUME LinesInv, NEW t \in Threads, todo[t] # <<>>, Head(todo[t])[1] # "pop",
           NEW ops, Fit(Head(todo[t]), ops), HeldOnce(ops), Continue(t, ops),
           tasks' = tasks, callback' = callback,
           \A op \in ToSet(ops) : IsOperation(op) /\ op[1] # "pop",
           Has(ops) \cap Carried \subseteq Tokens(Head(todo[t]))
    PROVE  Moved(t, Tokens(Head(todo[t])), Has(ops), ToSet(ops))
<1>1. /\ DOMAIN callback = States /\ ThreadsInv /\ QueuesInv /\ Tidy(Belt)
      /\ \A op \in Ops : IsOperation(op)
  BY DEF LinesInv
<1>2. <<"pop">> \notin ToSet(ops) /\ Head(todo[t]) # <<"pop">>
  OBVIOUS
<1>3. ThreadsInv' /\ Keeps(t) /\ RunByHand' = RunByHand
  BY <1>1, <1>2, TodoStep
<1>4. QueuesInv'
  <2>1. /\ DOMAIN tasks = Queue
        /\ \A e \in Queue : IsSeq(tasks[e]) /\ \A op \in ToSet(tasks[e]) : op[1] = "call"
        /\ RunByHand => tasks["manual"] # <<>>
    BY <1>1 DEF QueuesInv
  <2>2. /\ DOMAIN tasks' = Queue
        /\ \A e \in Queue : IsSeq(tasks'[e]) /\ \A op \in ToSet(tasks'[e]) : op[1] = "call"
        /\ RunByHand' => tasks'["manual"] # <<>>
    BY ONLY <1>3, <2>1, tasks' = tasks
  <2> QED
    BY ONLY <2>2 DEF QueuesInv
<1>5. Belt' = BeltOf(todo', Queues, callback)
  <2>1. Queues' = Queues
    BY ONLY <1>3, tasks' = tasks DEF Queues, Waiting
  <2>2. Belt' = BeltOf(todo', Queues', callback')
    BY DEF Belt
  <2> QED
    BY ONLY <2>1, <2>2, callback' = callback
<1>6. IsSeq(ops) /\ DOMAIN todo = Threads
  BY <1>1 DEF Fit, ThreadsInv
<1>7. Tidy(BeltOf(todo, Queues, callback)) /\ Has(ops) \cap Held(BeltOf(todo, Queues, callback)) \subseteq Tokens(Head(todo[t]))
  BY <1>1 DEF Carried, Belt
<1>8. /\ Tidy(BeltOf(todo', Queues, callback))
      /\ In(BeltOf(todo', Queues, callback)) \subseteq In(BeltOf(todo, Queues, callback)) \cup ToSet(ops)
      /\ Held(BeltOf(todo', Queues, callback)) \subseteq
            (Held(BeltOf(todo, Queues, callback)) \ Tokens(Head(todo[t]))) \cup Has(ops)
  BY <1>6, <1>7, BeltGoes
<1>9. /\ Tidy(Belt') /\ In(Belt') \subseteq Ops \cup ToSet(ops)
      /\ Held(Belt') \subseteq (Carried \ Tokens(Head(todo[t]))) \cup Has(ops)
  BY ONLY <1>5, <1>8 DEF Ops, Carried, Belt
<1>10. \A op \in Ops' : IsOperation(op)
  <2>1. Ops' = In(Belt')
    BY DEF Ops
  <2> QED
    BY ONLY <1>1, <1>9, <2>1, \A op \in ToSet(ops) : IsOperation(op) /\ op[1] # "pop"
<1>11. LinesInv'
  BY ONLY <1>1, <1>3, <1>4, <1>9, <1>10, callback' = callback DEF LinesInv
<1>12. Carried' = Held(Belt') /\ Ops' = In(Belt')
  BY DEF Carried, Ops
<1> QED
  BY ONLY <1>3, <1>9, <1>11, <1>12 DEF Moved

\* Operations that come without a companion.
Single(op) == op[1] \notin {"ready", "publish", "get", "getReady", "sleep", "run", "pop"}

LEMMA SinglesFit ==
    ASSUME NEW ops, IsSeq(ops), \A op \in ToSet(ops) : Single(op), NEW first
    PROVE  Fit(first, ops) /\ \A op \in ToSet(ops) : op[1] # "pop"
<1>1. \A i \in 1 .. Len(ops) : Single(ops[i])
  BY SeqFacts
<1>2. Paired(ops) /\ Ordered(ops)
  BY ONLY <1>1 DEF Single, Paired, Ordered
<1>3. \A op \in ToSet(ops) : op[1] \notin {"get", "getReady", "sleep", "run", "pop"}
  BY ONLY \A op \in ToSet(ops) : Single(op) DEF Single
<1> QED
  BY ONLY <1>2, <1>3, IsSeq(ops) DEF Fit

LEMMA Done ==
    ASSUME LinesInv, NEW t \in Threads, todo[t] # <<>>, Head(todo[t])[1] # "pop", Continue(t, <<>>),
           tasks' = tasks, callback' = callback
    PROVE  Moved(t, Tokens(Head(todo[t])), {}, {})
<1>1. IsSeq(<<>>) /\ ToSet(<<>>) = {} /\ HeldOnce(<<>>) /\ Has(<<>>) = {}
  BY ONLY Literals, HasLiterals
<1>2. \A op \in ToSet(<<>>) : Single(op) /\ IsOperation(op) /\ op[1] # "pop"
  BY ONLY <1>1
<1>3. Fit(Head(todo[t]), <<>>)
  BY <1>1, <1>2, SinglesFit
<1>4. Has(<<>>) \cap Carried \subseteq Tokens(Head(todo[t]))
  BY ONLY <1>1
<1>5. Moved(t, Tokens(Head(todo[t])), Has(<<>>), ToSet(<<>>))
  BY <1>1, <1>2, <1>3, <1>4, Local
<1> QED
  BY ONLY <1>1, <1>5

LEMMA OneMore ==
    ASSUME LinesInv, NEW t \in Threads, todo[t] # <<>>, Head(todo[t])[1] # "pop", NEW op,
           Continue(t, <<op>>), tasks' = tasks, callback' = callback,
           Single(op), IsOperation(op), Tokens(op) \cap Carried \subseteq Tokens(Head(todo[t]))
    PROVE  Moved(t, Tokens(Head(todo[t])), Tokens(op), {op})
<1>1. IsSeq(<<op>>) /\ ToSet(<<op>>) = {op} /\ HeldOnce(<<op>>) /\ Has(<<op>>) = Tokens(op)
  BY ONLY Literals, HasLiterals
<1>2. \A o \in ToSet(<<op>>) : Single(o) /\ IsOperation(o) /\ o[1] # "pop"
  BY <1>1 DEF Single
<1>3. Fit(Head(todo[t]), <<op>>)
  BY <1>1, <1>2, SinglesFit
<1>4. Has(<<op>>) \cap Carried \subseteq Tokens(Head(todo[t]))
  BY <1>1
<1>5. Moved(t, Tokens(Head(todo[t])), Has(<<op>>), ToSet(<<op>>))
  BY <1>1, <1>2, <1>3, <1>4, Local
<1> QED
  BY ONLY <1>1, <1>5

LEMMA Submits ==
    ASSUME LinesInv, NEW t \in Threads, todo[t] # <<>>, Head(todo[t])[1] # "pop",
           NEW e \in Executors, NEW task, Submit(t, e, task), task[1] = "call", IsOperation(task),
           DOMAIN callback' = States, Tidy(Between), Held(Between) \subseteq Carried,
           In(Between) \subseteq Ops, Tokens(task) \cap Held(Between) \subseteq Tokens(Head(todo[t]))
    PROVE  Moved(t, Tokens(Head(todo[t])), Tokens(task), {task})
<1>1. /\ ThreadsInv /\ QueuesInv /\ DOMAIN todo = Threads /\ \A op \in Ops : IsOperation(op)
  BY DEF LinesInv, ThreadsInv
<1>2. PICK ops : /\ ops = IF e = "inline" THEN <<task>> ELSE <<>>
                 /\ Continue(t, ops)
  BY DEF Submit
<1>3. /\ IsSeq(ops) /\ ToSet(ops) \subseteq {task} /\ HeldOnce(ops) /\ Has(ops) \subseteq Tokens(task)
  BY ONLY <1>2, Literals, HasLiterals
<1>4. \A op \in ToSet(ops) : Single(op) /\ IsOperation(op)
  BY <1>3 DEF Single
<1>5. Fit(Head(todo[t]), ops) /\ \A op \in ToSet(ops) : op[1] # "pop"
  BY <1>3, <1>4, SinglesFit
<1>6. <<"pop">> \notin ToSet(ops) /\ Head(todo[t]) # <<"pop">>
  BY <1>5
<1>7. ThreadsInv' /\ Keeps(t) /\ RunByHand' = RunByHand
  BY <1>1, <1>2, <1>5, <1>6, TodoStep
<1>8. Between = BeltOf(todo, Queues, callback') /\ Belt' = BeltOf(todo', Queues', callback')
  BY DEF Between, Belt
<1>9. /\ DOMAIN tasks = Queue
      /\ \A f \in Queue : IsSeq(tasks[f]) /\ \A op \in ToSet(tasks[f]) : op[1] = "call"
      /\ RunByHand => tasks["manual"] # <<>>
  BY <1>1 DEF QueuesInv
<1>10. ASSUME e = "inline"
       PROVE /\ Tidy(Belt') /\ In(Belt') \subseteq Ops \cup {task} /\ QueuesInv'
             /\ Held(Belt') \subseteq (Carried \ Tokens(Head(todo[t]))) \cup Tokens(task)
  <2>1. Continue(t, <<task>>) /\ tasks' = tasks /\ ops = <<task>>
    BY ONLY <1>2, <1>10, Submit(t, e, task) DEF Submit
  <2>2. Queues' = Queues
    BY ONLY <1>7, <2>1 DEF Queues, Waiting
  <2>3. QueuesInv'
    <3>1. /\ DOMAIN tasks' = Queue
          /\ \A f \in Queue : IsSeq(tasks'[f]) /\ \A op \in ToSet(tasks'[f]) : op[1] = "call"
          /\ RunByHand' => tasks'["manual"] # <<>>
      BY ONLY <1>7, <1>9, <2>1
    <3> QED
      BY ONLY <3>1 DEF QueuesInv
  <2>4. Has(ops) \cap Held(BeltOf(todo, Queues, callback')) \subseteq Tokens(Head(todo[t]))
    BY ONLY <1>3, <1>8, Tokens(task) \cap Held(Between) \subseteq Tokens(Head(todo[t]))
  <2>5. Tidy(BeltOf(todo, Queues, callback'))
    BY ONLY <1>8, Tidy(Between)
  <2>6. /\ Tidy(BeltOf(todo', Queues, callback'))
        /\ In(BeltOf(todo', Queues, callback')) \subseteq In(BeltOf(todo, Queues, callback')) \cup ToSet(ops)
        /\ Held(BeltOf(todo', Queues, callback')) \subseteq
              (Held(BeltOf(todo, Queues, callback')) \ Tokens(Head(todo[t]))) \cup Has(ops)
    BY <1>1, <1>2, <1>3, <2>4, <2>5, BeltGoes
  <2>7. /\ Tidy(Belt') /\ In(Belt') \subseteq Ops \cup {task}
        /\ Held(Belt') \subseteq (Carried \ Tokens(Head(todo[t]))) \cup Tokens(task)
    BY ONLY <1>3, <1>8, <2>2, <2>6, Held(Between) \subseteq Carried, In(Between) \subseteq Ops
  <2> QED
    BY ONLY <2>3, <2>7
<1>11. ASSUME e # "inline"
       PROVE /\ Tidy(Belt') /\ In(Belt') \subseteq Ops \cup {task} /\ QueuesInv'
             /\ Held(Belt') \subseteq (Carried \ Tokens(Head(todo[t]))) \cup Tokens(task)
  <2>1. Continue(t, <<>>) /\ tasks' = [tasks EXCEPT ![e] = Append(@, task)]
    BY ONLY <1>11, Submit(t, e, task) DEF Submit
  <2>2. e \in Queue
    BY ONLY <1>11, e \in Executors DEF Queue, Executors
  <2>3. QueuesInv'
    <3>1. /\ DOMAIN tasks' = Queue
          /\ \A f \in Queue : tasks'[f] = IF f = e THEN Append(tasks[e], task) ELSE tasks[f]
      BY ONLY <1>9, <2>1, <2>2
    <3>2. IsSeq(tasks[e]) /\ IsSeq(<<task>>) /\ ToSet(<<task>>) = {task} /\ Len(<<task>>) = 1
      BY ONLY <1>9, <2>2, Literals
    <3>3. Append(tasks[e], task) = tasks[e] \o <<task>>
      BY <3>2, AppendIsJoin
    <3>a. /\ IsSeq(tasks[e] \o <<task>>) /\ Len(tasks[e]) \in Nat
          /\ ToSet(tasks[e] \o <<task>>) = ToSet(tasks[e]) \cup ToSet(<<task>>)
          /\ Len(tasks[e] \o <<task>>) = Len(tasks[e]) + Len(<<task>>)
      BY <3>2, JoinFacts
    <3>4. /\ IsSeq(Append(tasks[e], task)) /\ ToSet(Append(tasks[e], task)) = ToSet(tasks[e]) \cup {task}
          /\ Len(Append(tasks[e], task)) = Len(tasks[e]) + 1 /\ Len(tasks[e]) \in Nat
      BY ONLY <3>2, <3>3, <3>a
    <3>5. Append(tasks[e], task) # <<>>
      BY ONLY <3>4, Literals
    <3>6. \A f \in Queue : IsSeq(tasks'[f]) /\ \A op \in ToSet(tasks'[f]) : op[1] = "call"
      BY ONLY <1>9, <2>2, <3>1, <3>4, task[1] = "call"
    <3>7. "manual" \in Queue
      BY DEF Queue
    <3>8. RunByHand' => tasks'["manual"] # <<>>
      BY ONLY <1>7, <1>9, <3>1, <3>5, <3>7
    <3> QED
      BY ONLY <3>1, <3>6, <3>8 DEF QueuesInv
  <2>4. Tokens(task) \cap Held(BeltOf(todo, Queues, callback')) \subseteq Tokens(Head(todo[t]))
    BY ONLY <1>8, Tokens(task) \cap Held(Between) \subseteq Tokens(Head(todo[t]))
  <2>5. Tidy(BeltOf(todo, Queues, callback'))
    BY ONLY <1>8, Tidy(Between)
  <2>6. RunByHand' = RunByHand
    BY ONLY <1>7
  <2>7. /\ Tidy(BeltOf(todo', Queues', callback'))
        /\ In(BeltOf(todo', Queues', callback')) \subseteq In(BeltOf(todo, Queues, callback')) \cup {task}
        /\ Held(BeltOf(todo', Queues', callback')) \subseteq
              (Held(BeltOf(todo, Queues, callback')) \ Tokens(Head(todo[t]))) \cup Tokens(task)
    BY <1>1, <2>1, <2>2, <2>4, <2>5, <2>6, BeltSends
  <2>8. /\ Tidy(Belt') /\ In(Belt') \subseteq Ops \cup {task}
        /\ Held(Belt') \subseteq (Carried \ Tokens(Head(todo[t]))) \cup Tokens(task)
    BY ONLY <1>8, <2>7, Held(Between) \subseteq Carried, In(Between) \subseteq Ops
  <2> QED
    BY ONLY <2>3, <2>8
<1>12. /\ Tidy(Belt') /\ In(Belt') \subseteq Ops \cup {task} /\ QueuesInv'
       /\ Held(Belt') \subseteq (Carried \ Tokens(Head(todo[t]))) \cup Tokens(task)
  BY ONLY <1>10, <1>11
<1>13. Carried' = Held(Belt') /\ Ops' = In(Belt')
  BY DEF Carried, Ops
<1>14. \A op \in Ops' : IsOperation(op)
  BY ONLY <1>1, <1>12, <1>13, IsOperation(task)
<1>15. LinesInv'
  BY ONLY <1>7, <1>12, <1>14, DOMAIN callback' = States DEF LinesInv
<1> QED
  BY ONLY <1>7, <1>12, <1>13, <1>15 DEF Moved

-----------------------------------------------------------------------------
(* Steps that move what a line holds to another line *)

LEMMA Stores ==
    ASSUME LinesInv, NEW t \in Threads, StoreCallback(t)
    PROVE  LET op == Head(todo[t])
           IN  Moved(t, {}, {}, {<<"publish", op[2]>>, <<"check", op[2]>>, <<"call", op[3]>>})
<1> DEFINE op == Head(todo[t])  s == op[2]  ops == <<<<"publish", s>>, <<"check", s>>>>
           N == BeltOf(todo', Queues, callback)  x == <<"cell", s>>  q == <<<<"call", op[3]>>>>
<1>1. /\ todo[t] # <<>> /\ op[1] = "subscribe" /\ Continue(t, ops) /\ tasks' = tasks
      /\ callback' = [callback EXCEPT ![s] = <<op[3]>>]
  BY DEF StoreCallback, Doing, Arg
<1>2. /\ DOMAIN callback = States /\ ThreadsInv /\ QueuesInv /\ Tidy(Belt)
      /\ \A o \in Ops : IsOperation(o)
  BY DEF LinesInv
<1>3. IsOperation(op) /\ Tokens(op) \subseteq Carried /\ DOMAIN todo = Threads
  BY <1>1, HeadIs
<1> HIDE DEF op
<1>4. s \in States /\ IsCallback(op[3]) /\ Future(s) \notin CallTokens(op[3])
  BY ONLY <1>1, <1>3 DEF IsOperation, IsScriptOperation
<1>5. Tokens(op) = {Future(s)} \cup CallTokens(op[3])
  BY ONLY <1>1, TokensOf
<1>6. /\ Tokens(<<"publish", s>>) = {Future(s)} /\ Tokens(<<"check", s>>) = {}
      /\ Tokens(<<"call", op[3]>>) = CallTokens(op[3])
  <2>1. <<"publish", s>>[1] = "publish" /\ <<"publish", s>>[2] = s /\ <<"check", s>>[1] = "check"
        /\ <<"call", op[3]>>[1] = "call" /\ <<"call", op[3]>>[2] = op[3]
    OBVIOUS
  <2> QED
    BY ONLY <2>1, TokensOf
<1>7. /\ IsSeq(ops) /\ ToSet(ops) = {<<"publish", s>>, <<"check", s>>} /\ Len(ops) = 2
      /\ ops[1] = <<"publish", s>> /\ ops[2] = <<"check", s>>
      /\ Has(ops) = Tokens(<<"publish", s>>) \cup Tokens(<<"check", s>>)
      /\ Tokens(<<"publish", s>>) \cap Tokens(<<"check", s>>) = {} => HeldOnce(ops)
  BY ONLY Literals, HasLiterals
<1>8. HeldOnce(ops) /\ Has(ops) = {Future(s)}
  BY ONLY <1>6, <1>7
<1> HIDE DEF ops
<1>9. Paired(ops) /\ Ordered(ops)
  <2>1. 1 .. 2 = {1, 2} /\ 1 + 1 = 2 /\ ~ (2 < 1) /\ ~ (1 < 1) /\ ~ (2 < 2)
    OBVIOUS
  <2>2. ops[1][1] = "publish" /\ ops[1][2] = s /\ ops[2][1] = "check"
    BY ONLY <1>7
  <2>3. Paired(ops)
    BY ONLY <1>7, <2>1, <2>2 DEF Paired
  <2>4. Ordered(ops)
    BY ONLY <1>7, <2>1, <2>2 DEF Ordered
  <2> QED
    BY ONLY <2>3, <2>4
<1>10. \A o \in ToSet(ops) : o[1] \notin {"get", "getReady", "run", "pop", "sleep"} /\ IsOperation(o)
  <2>1. <<"publish", s>>[1] = "publish" /\ <<"publish", s>>[2] = s /\ <<"check", s>>[1] = "check" /\ <<"check", s>>[2] = s
    OBVIOUS
  <2> QED
    BY ONLY <1>4, <1>7, <2>1 DEF IsOperation
<1>11. Fit(op, ops)
  BY ONLY <1>7, <1>9, <1>10 DEF Fit
<1>12. <<"pop">> \notin ToSet(ops) /\ op # <<"pop">>
  <2>1. <<"pop">>[1] = "pop"
    OBVIOUS
  <2> QED
    BY ONLY <1>1, <1>10, <2>1
<1>13. ThreadsInv' /\ Keeps(t) /\ RunByHand' = RunByHand
  BY <1>1, <1>2, <1>11, <1>12, TodoStep DEF op
<1>14. QueuesInv' /\ Queues' = Queues
  <2>1. Queues' = Queues
    BY ONLY <1>1, <1>13 DEF Queues, Waiting
  <2>2. /\ DOMAIN tasks = Queue
        /\ \A e \in Queue : IsSeq(tasks[e]) /\ \A o \in ToSet(tasks[e]) : o[1] = "call"
        /\ RunByHand => tasks["manual"] # <<>>
    BY <1>2 DEF QueuesInv
  <2>3. /\ DOMAIN tasks' = Queue
        /\ \A e \in Queue : IsSeq(tasks'[e]) /\ \A o \in ToSet(tasks'[e]) : o[1] = "call"
        /\ RunByHand' => tasks'["manual"] # <<>>
    BY ONLY <1>1, <1>13, <2>2
  <2> QED
    BY ONLY <2>1, <2>3 DEF QueuesInv
<1>15. Belt = BeltOf(todo, Queues, callback) /\ Carried = Held(Belt) /\ Ops = In(Belt)
  BY DEF Belt, Carried, Ops
<1>16. /\ Tidy(BeltOf(todo, Queues, callback))
       /\ Has(ops) \cap Held(BeltOf(todo, Queues, callback)) \subseteq Tokens(Head(todo[t]))
  BY ONLY <1>2, <1>5, <1>8, <1>15 DEF op
<1>17. /\ Tidy(N) /\ In(N) \subseteq In(BeltOf(todo, Queues, callback)) \cup ToSet(ops)
       /\ Held(N) \subseteq (Held(BeltOf(todo, Queues, callback)) \ Tokens(Head(todo[t]))) \cup Has(ops)
  BY <1>1, <1>3, <1>7, <1>8, <1>16, BeltGoes
<1>18. Belt' = BeltOf(todo', Queues, callback')
  <2>1. Belt' = BeltOf(todo', Queues', callback')
    BY DEF Belt
  <2> QED
    BY ONLY <1>14, <2>1
<1>19. Cell(<<op[3]>>) = q
  <2>1. <<op[3]>> # <<>> /\ <<op[3]>>[1] = op[3]
    OBVIOUS
  <2> QED
    BY ONLY <2>1 DEF Cell
<1>20. Becomes(N, Belt', x, q)
  <2>1. Becomes(BeltOf(todo', Queues, callback), BeltOf(todo', Queues, callback'), <<"cell", s>>, Cell(<<op[3]>>))
    BY <1>1, <1>2, <1>4, CellBecomes
  <2> QED
    BY ONLY <1>18, <1>19, <2>1
<1> HIDE DEF N, x
<1>21. IsSeq(q) /\ HeldOnce(q) /\ ToSet(q) = {<<"call", op[3]>>} /\ Has(q) = CallTokens(op[3])
  BY ONLY <1>6, Literals, HasLiterals
<1>22. Has(q) \cap Held(N) = {}
  BY ONLY <1>4, <1>5, <1>8, <1>17, <1>21 DEF op
<1> HIDE DEF q
<1>23. /\ Tidy(Belt') /\ In(Belt') \subseteq In(N) \cup ToSet(q)
       /\ Held(Belt') \subseteq (Held(N) \ Has(N[x])) \cup Has(q)
  BY <1>17, <1>20, <1>21, <1>22, LineFilled
<1>24. Carried' = Held(Belt') /\ Ops' = In(Belt')
  BY DEF Carried, Ops
<1>25. Carried' \subseteq Carried
  BY ONLY <1>3, <1>5, <1>8, <1>15, <1>17, <1>21, <1>23, <1>24
<1>26. Ops' \subseteq Ops \cup {<<"publish", s>>, <<"check", s>>, <<"call", op[3]>>}
  BY ONLY <1>7, <1>15, <1>17, <1>21, <1>23, <1>24
<1>27. \A o \in Ops' : IsOperation(o)
  <2>1. IsOperation(<<"call", op[3]>>)
    BY ONLY <1>4 DEF IsOperation
  <2> QED
    BY ONLY <1>2, <1>7, <1>10, <1>26, <2>1
<1>28. DOMAIN callback' = States
  BY ONLY <1>1, <1>2
<1>29. LinesInv'
  BY ONLY <1>13, <1>14, <1>23, <1>27, <1>28 DEF LinesInv
<1>30. Carried' \subseteq (Carried \ {}) \cup {}
  BY ONLY <1>25
<1> QED
  BY ONLY <1>13, <1>26, <1>29, <1>30 DEF Moved, op

LEMMA TakesCallback ==
    ASSUME LinesInv, NEW t \in Threads, TryCallback(t), NEW s, s = Arg(t, 2),
           callbackReady[s], callback[s] # <<>>, executor \in [States -> Executors]
    PROVE  Moved(t, {}, {}, {<<"call", callback[s][1], result[s][1]>>})
<1> DEFINE c == callback[s][1]  task == <<"call", c, result[s][1]>>  x == <<"cell", s>>
<1>1. /\ todo[t] # <<>> /\ Head(todo[t])[1] = "try" /\ Head(todo[t])[2] = s
      /\ Submit(t, executor[s], task) /\ callback' = [callback EXCEPT ![s] = <<>>]
  BY DEF TryCallback, Doing, Arg
<1>2. DOMAIN callback = States /\ Tidy(Belt) /\ \A o \in Ops : IsOperation(o)
  BY DEF LinesInv
<1>3. IsOperation(Head(todo[t]))
  BY <1>1, HeadIs
<1>4. s \in States
  BY ONLY <1>1, <1>3 DEF IsOperation, IsScriptOperation
<1>5. executor[s] \in Executors /\ DOMAIN callback' = States
  BY <1>1, <1>2, <1>4
<1>6. Belt = BeltOf(todo, Queues, callback) /\ Between = BeltOf(todo, Queues, callback')
  BY DEF Belt, Between
<1>7. Cell(<<>>) = <<>> /\ Cell(callback[s]) = <<<<"call", c>>>>
  BY DEF Cell
<1>8. Becomes(Belt, Between, x, <<>>)
  <2>1. Becomes(BeltOf(todo, Queues, callback), BeltOf(todo, Queues, callback'), <<"cell", s>>, Cell(<<>>))
    BY <1>1, <1>2, <1>4, CellBecomes
  <2> QED
    BY ONLY <1>6, <1>7, <2>1
<1>9. Belt[x] = <<<<"call", c>>>> /\ x \in DOMAIN Belt
  BY ONLY <1>4, <1>6, <1>7, BeltIs, LinesAre
<1> HIDE DEF x, c, task
<1>10. IsSeq(<<>>) /\ HeldOnce(<<>>) /\ ToSet(<<>>) = {} /\ Has(<<>>) = {}
  BY ONLY Literals, HasLiterals
<1>11. Has(<<>>) \cap Held(Belt) = {}
  BY ONLY <1>10
<1>12. /\ Tidy(Between) /\ In(Between) \subseteq In(Belt) \cup ToSet(<<>>)
       /\ Held(Between) \subseteq (Held(Belt) \ Has(Belt[x])) \cup Has(<<>>)
  BY <1>2, <1>8, <1>10, <1>11, LineFilled
<1>13. Has(Belt[x]) = CallTokens(c) /\ ToSet(Belt[x]) = {<<"call", c>>}
  <2>1. <<"call", c>>[1] = "call" /\ <<"call", c>>[2] = c
    OBVIOUS
  <2>2. Tokens(<<"call", c>>) = CallTokens(c)
    BY ONLY <2>1, TokensOf
  <2> QED
    BY ONLY <1>9, <2>2, Literals, HasLiterals
<1>14. Has(Belt[x]) \subseteq Held(Belt) /\ ToSet(Belt[x]) \subseteq In(Belt)
  BY <1>2, <1>9, LineIn
<1>15. task[1] = "call" /\ task[2] = c
  BY DEF task
<1>16. Tokens(task) = CallTokens(c)
  BY ONLY <1>15, TokensOf
<1>17. IsOperation(task)
  <2>1. IsOperation(<<"call", c>>)
    BY ONLY <1>2, <1>13, <1>14 DEF Ops
  <2>2. <<"call", c>>[1] = "call" /\ <<"call", c>>[2] = c /\ <<"sleep">>[1] = "sleep" /\ <<"pop">>[1] = "pop"
    OBVIOUS
  <2>3. <<"call", c>> # <<"sleep">> /\ <<"call", c>> # <<"pop">>
    BY ONLY <2>2
  <2>4. IsCallback(c)
    BY ONLY <2>1, <2>2, <2>3 DEF IsOperation, IsScriptOperation
  <2> QED
    BY ONLY <1>15, <2>4 DEF IsOperation
<1>18. Held(Between) \subseteq Carried /\ In(Between) \subseteq Ops
  BY ONLY <1>10, <1>12 DEF Carried, Ops
<1>19. Tokens(task) \cap Held(Between) \subseteq Tokens(Head(todo[t]))
  BY ONLY <1>10, <1>12, <1>13, <1>16
<1>20. Submit(t, executor[s], task) /\ Head(todo[t])[1] # "pop"
  BY ONLY <1>1 DEF task, c
<1>21. Moved(t, Tokens(Head(todo[t])), Tokens(task), {task})
  BY <1>1, <1>5, <1>12, <1>15, <1>17, <1>18, <1>19, <1>20, Submits
<1>22. Tokens(task) \subseteq Carried
  BY ONLY <1>13, <1>14, <1>16 DEF Carried
<1>23. Moved(t, {}, {}, {task})
  BY ONLY <1>21, <1>22 DEF Moved
<1> QED
  BY ONLY <1>23 DEF task, c

LEMMA PopsByHand ==
    ASSUME LinesInv, NEW t \in Threads, PopManual(t), callback' = callback
    PROVE  Moved(t, {}, {}, {})
<1>1. /\ todo[t] # <<>> /\ Head(todo[t])[1] = "pop" /\ Continue(t, <<>>)
      /\ tasks' = [tasks EXCEPT !["manual"] = Tail(@)]
  BY DEF PopManual, Doing
<1>2. /\ DOMAIN callback = States /\ ThreadsInv /\ QueuesInv /\ Tidy(Belt)
      /\ \A o \in Ops : IsOperation(o)
  BY DEF LinesInv
<1>3. /\ IsOperation(Head(todo[t])) /\ DOMAIN todo = Threads /\ IsSeq(todo[t])
      /\ Head(todo[t]) \in ToSet(todo[t])
  BY <1>1, HeadIs
<1>4. Head(todo[t]) = <<"pop">>
  BY ONLY <1>1, <1>3 DEF IsOperation, IsScriptOperation
<1>5. IsSeq(<<>>) /\ HeldOnce(<<>>) /\ ToSet(<<>>) = {} /\ Has(<<>>) = {}
  BY ONLY Literals, HasLiterals
<1>6. Fit(Head(todo[t]), <<>>)
  <2>1. \A op \in ToSet(<<>>) : Single(op)
    BY ONLY <1>5
  <2> QED
    BY <1>5, <2>1, SinglesFit
<1>7. ThreadsInv' /\ Keeps(t)
  BY <1>1, <1>2, <1>6, TodoStep
<1>8. RunByHand
  BY ONLY <1>3, <1>4, t \in Threads DEF RunByHand
<1>9. ~ RunByHand'
  <2>1. ASSUME NEW u \in Threads, <<"pop">> \in ToSet(todo'[u]) PROVE FALSE
    <3>1. <<>> \o Tail(todo[t]) = Tail(todo[t])
      <4>1. IsSeq(Tail(todo[t]))
        BY <1>1, <1>3, HeadFacts
      <4> QED
        BY <4>1, ConcatEmptySeq DEF IsSeq
    <3>2. todo' = [todo EXCEPT ![t] = Tail(todo[t])]
      BY ONLY <1>1, <3>1 DEF Continue
    <3>3. \A v, w \in Threads : \A a \in ToSet(todo[v]), b \in ToSet(todo[w]) :
             a[1] \in {"run", "pop"} /\ b[1] \in {"run", "pop"} => v = w
      BY <1>2 DEF ThreadsInv
    <3>4. <<"pop">>[1] = "pop"
      OBVIOUS
    <3>5. CASE u # t
      <4>1. <<"pop">> \in ToSet(todo[u])
        BY ONLY <1>3, <2>1, <3>2, <3>5
      <4> QED
        BY ONLY <1>3, <1>4, <3>3, <3>4, <3>5, <4>1, t \in Threads, u \in Threads
    <3>6. CASE u = t
      <4>1. /\ Len(todo[t]) \in Nat \ {0} /\ 1 \in 1 .. Len(todo[t]) /\ Head(todo[t]) = todo[t][1]
            /\ IsSeq(Tail(todo[t])) /\ Len(Tail(todo[t])) = Len(todo[t]) - 1
            /\ \A i \in 1 .. Len(todo[t]) - 1 : Tail(todo[t])[i] = todo[t][i + 1]
        BY <1>1, <1>3, HeadFacts
      <4>2. <<"pop">> \in ToSet(Tail(todo[t]))
        BY ONLY <1>3, <2>1, <3>2, <3>6, t \in Threads
      <4>3. ToSet(Tail(todo[t])) = {Tail(todo[t])[i] : i \in 1 .. Len(Tail(todo[t]))}
        BY <4>1, SeqFacts
      <4>4. PICK i \in 1 .. Len(todo[t]) - 1 : Tail(todo[t])[i] = <<"pop">>
        BY ONLY <4>1, <4>2, <4>3
      <4>5. i + 1 \in 1 .. Len(todo[t]) /\ 1 < i + 1 /\ todo[t][i + 1] = <<"pop">>
        BY ONLY <4>1, <4>4
      <4>6. Ordered(todo[t])
        BY <1>2 DEF ThreadsInv
      <4>7. ~ (todo[t][1][1] \in {"run", "pop"} /\ todo[t][i + 1][1] = "pop")
        BY ONLY <4>1, <4>5, <4>6 DEF Ordered
      <4> QED
        BY ONLY <1>4, <3>4, <4>1, <4>5, <4>7
    <3> QED
      BY ONLY <3>5, <3>6
  <2> QED
    BY ONLY <2>1 DEF RunByHand
<1>10. /\ DOMAIN tasks = Queue /\ tasks["manual"] # <<>>
       /\ \A e \in Queue : IsSeq(tasks[e]) /\ \A o \in ToSet(tasks[e]) : o[1] = "call"
  BY <1>2, <1>8 DEF QueuesInv
<1>11. "manual" \in Queue
  BY DEF Queue
<1>12. IsSeq(Tail(tasks["manual"])) /\ ToSet(Tail(tasks["manual"])) \subseteq ToSet(tasks["manual"])
  BY <1>10, <1>11, HeadFacts
<1>13. \A e \in Queue : tasks'[e] = IF e = "manual" THEN Tail(tasks["manual"]) ELSE tasks[e]
  BY ONLY <1>1, <1>10, <1>11
<1>14. QueuesInv'
  <2>1. DOMAIN tasks' = Queue
    BY ONLY <1>1, <1>10
  <2>2. \A e \in Queue : IsSeq(tasks'[e]) /\ \A o \in ToSet(tasks'[e]) : o[1] = "call"
    BY ONLY <1>10, <1>11, <1>12, <1>13
  <2> QED
    BY ONLY <1>9, <2>1, <2>2 DEF QueuesInv
<1>15. Queues' = Queues
  BY ONLY <1>8, <1>9, <1>11, <1>13 DEF Queues, Waiting
<1>16. Belt = BeltOf(todo, Queues, callback) /\ Belt' = BeltOf(todo', Queues, callback)
  <2>1. Belt' = BeltOf(todo', Queues', callback')
    BY DEF Belt
  <2> QED
    BY ONLY <1>15, <2>1, callback' = callback DEF Belt
<1>17. Tidy(BeltOf(todo, Queues, callback))
  BY ONLY <1>2, <1>16
<1>18. Has(<<>>) \cap Held(BeltOf(todo, Queues, callback)) \subseteq Tokens(Head(todo[t]))
  BY ONLY <1>5
<1>19. /\ Tidy(BeltOf(todo', Queues, callback))
       /\ In(BeltOf(todo', Queues, callback)) \subseteq In(BeltOf(todo, Queues, callback)) \cup ToSet(<<>>)
       /\ Held(BeltOf(todo', Queues, callback)) \subseteq
             (Held(BeltOf(todo, Queues, callback)) \ Tokens(Head(todo[t]))) \cup Has(<<>>)
  BY <1>1, <1>3, <1>5, <1>17, <1>18, BeltGoes
<1>20. Carried = Held(Belt) /\ Ops = In(Belt) /\ Carried' = Held(Belt') /\ Ops' = In(Belt')
  BY DEF Carried, Ops
<1>21. Tidy(Belt') /\ Ops' \subseteq Ops /\ Carried' \subseteq Carried
  BY ONLY <1>5, <1>16, <1>19, <1>20
<1>22. LinesInv'
  BY ONLY <1>2, <1>7, <1>14, <1>21, callback' = callback DEF LinesInv
<1> QED
  BY ONLY <1>7, <1>21, <1>22 DEF Moved

LEMMA RunsByHand ==
    ASSUME LinesInv, NEW t \in Threads, RunManual(t)
    PROVE  \E new : Moved(t, {}, {}, new) /\ \A op \in new : op \in Ops \/ op[1] \in {"pop", "run"}
<1> DEFINE h == Head(todo[t])  task == Head(tasks["manual"])  run == <<"run", h[2] - 1>>
           ops == <<task, <<"pop">>, run>>
<1>1. todo[t] # <<>> /\ h[1] = "run" /\ tasks' = tasks /\ callback' = callback
  BY DEF RunManual, Doing, stateVars, callbackVars
<1>2. /\ DOMAIN callback = States /\ ThreadsInv /\ QueuesInv /\ Tidy(Belt)
      /\ \A o \in Ops : IsOperation(o)
  BY DEF LinesInv
<1>3. IsOperation(h) /\ DOMAIN todo = Threads /\ IsSeq(todo[t]) /\ h \in ToSet(todo[t])
  BY <1>1, HeadIs
<1>4. Tokens(h) = {}
  BY ONLY <1>1, TokensOf
<1>5. CASE ~ (h[2] # 0 /\ tasks["manual"] # <<>>)
  <2>1. Continue(t, <<>>)
    BY ONLY <1>5, RunManual(t) DEF RunManual, Arg
  <2>2. Moved(t, Tokens(Head(todo[t])), {}, {})
    BY <1>1, <2>1, Done
  <2> QED
    BY ONLY <1>4, <2>2
<1>6. CASE h[2] # 0 /\ tasks["manual"] # <<>>
  <2>1. Continue(t, ops)
    BY ONLY <1>6, RunManual(t) DEF RunManual, Arg
  <2>2. /\ DOMAIN tasks = Queue
        /\ \A e \in Queue : IsSeq(tasks[e]) /\ \A o \in ToSet(tasks[e]) : o[1] = "call"
    BY <1>2 DEF QueuesInv
  <2>3. "manual" \in Queue
    BY DEF Queue
  <2>4. task \in ToSet(tasks["manual"]) /\ IsSeq(Tail(tasks["manual"]))
        /\ ToSet(Tail(tasks["manual"])) \subseteq ToSet(tasks["manual"])
    BY <1>6, <2>2, <2>3, HeadFacts
  <2>5. task[1] = "call"
    BY ONLY <2>2, <2>3, <2>4
  <2>6. ~ RunByHand
    <3>1. ASSUME NEW u \in Threads, <<"pop">> \in ToSet(todo[u]) PROVE FALSE
      <4>1. \A v, w \in Threads : \A a \in ToSet(todo[v]), b \in ToSet(todo[w]) :
               a[1] \in {"run", "pop"} /\ b[1] \in {"run", "pop"} => v = w
        BY <1>2 DEF ThreadsInv
      <4>2. <<"pop">>[1] = "pop"
        OBVIOUS
      <4>3. u = t
        BY ONLY <1>1, <1>3, <3>1, <4>1, <4>2, t \in Threads
      <4>4. /\ ToSet(todo[t]) = {todo[t][i] : i \in 1 .. Len(todo[t])} /\ Len(todo[t]) \in Nat
            /\ 1 \in 1 .. Len(todo[t]) /\ h = todo[t][1]
        BY <1>1, <1>3, SeqFacts, HeadFacts
      <4>5. PICK i \in 1 .. Len(todo[t]) : todo[t][i] = <<"pop">>
        BY ONLY <3>1, <4>3, <4>4
      <4>6. 1 < i
        BY ONLY <1>1, <4>2, <4>4, <4>5
      <4>7. Ordered(todo[t])
        BY <1>2 DEF ThreadsInv
      <4>8. ~ (todo[t][1][1] \in {"run", "pop"} /\ todo[t][i][1] = "pop")
        BY ONLY <4>4, <4>6, <4>7 DEF Ordered
      <4> QED
        BY ONLY <1>1, <4>2, <4>4, <4>5, <4>8
    <3> QED
      BY ONLY <3>1 DEF RunByHand
  <2>7. /\ DOMAIN Queues = Queue /\ \A e \in Queue : Queues[e] = tasks[e]
    BY <1>2, <2>6, QueuesAre
  <2>8. task \in Ops
    BY <2>3, <2>4, <2>7, QueueIn
  <2>9. IsOperation(task)
    BY ONLY <1>2, <2>8
  <2>10. run[1] = "run" /\ run[2] = h[2] - 1 /\ <<"pop">>[1] = "pop"
    OBVIOUS
  <2>11. IsOperation(run) /\ IsOperation(<<"pop">>)
    <3>1. h[2] \in Int
      BY ONLY <1>1, <1>3 DEF IsOperation, IsScriptOperation
    <3> QED
      BY ONLY <2>10, <3>1 DEF IsOperation, IsScriptOperation
  <2> HIDE DEF task, run
  <2>a. IsSeq(ops) /\ ToSet(ops) = {task, <<"pop">>, run} /\ Len(ops) = 3
    <3>1. \A a, b, c : IsSeq(<<a, b, c>>) /\ ToSet(<<a, b, c>>) = {a, b, c} /\ Len(<<a, b, c>>) = 3
      BY ONLY ZenonT(60), Literals
    <3> QED
      BY ONLY <3>1
  <2>b. ops[1] = task /\ ops[2] = <<"pop">> /\ ops[3] = run
    OBVIOUS
  <2>c. Has(ops) = Tokens(task) \cup Tokens(<<"pop">>) \cup Tokens(run)
    BY ONLY HasLiterals
  <2>d. (Tokens(task) \cap Tokens(<<"pop">>) = {} /\ Tokens(task) \cap Tokens(run) = {}
            /\ Tokens(<<"pop">>) \cap Tokens(run) = {}) => HeldOnce(ops)
    BY ONLY HasLiterals
  <2>13. Tokens(<<"pop">>) = {} /\ Tokens(run) = {}
    BY ONLY <2>10, TokensOf
  <2>14. HeldOnce(ops) /\ Has(ops) = Tokens(task)
    BY ONLY <2>c, <2>d, <2>13
  <2> HIDE DEF ops
  <2>15. 1 .. 3 = {1, 2, 3} /\ ~ (1 < 1) /\ ~ (2 < 2) /\ ~ (3 < 3) /\ ~ (3 < 2) /\ ~ (3 < 1) /\ ~ (2 < 1)
    OBVIOUS
  <2>16. Paired(ops)
    BY ONLY <2>5, <2>10, <2>a, <2>b, <2>15 DEF Paired
  <2>17. Ordered(ops)
    BY ONLY <2>5, <2>10, <2>a, <2>b, <2>15 DEF Ordered
  <2>18. Fit(h, ops)
    BY ONLY <1>1, <2>5, <2>10, <2>a, <2>16, <2>17 DEF Fit
  <2>19. ThreadsInv' /\ Keeps(t)
    BY <1>1, <1>2, <2>1, <2>18, TodoStep
  <2>20. RunByHand'
    <3>1. todo' = [todo EXCEPT ![t] = ops \o Tail(todo[t])]
      BY ONLY <2>1 DEF Continue
    <3>2. ToSet(ops \o Tail(todo[t])) = ToSet(ops) \cup ToSet(Tail(todo[t]))
      BY <1>1, <1>3, <2>a, GoesOn
    <3>3. <<"pop">> \in ToSet(todo'[t])
      BY ONLY <1>3, <2>a, <3>1, <3>2, t \in Threads
    <3> QED
      BY ONLY <3>3, t \in Threads DEF RunByHand
  <2>21. QueuesInv'
    <3>1. DOMAIN tasks' = Queue /\ tasks'["manual"] # <<>>
          /\ \A e \in Queue : IsSeq(tasks'[e]) /\ \A o \in ToSet(tasks'[e]) : o[1] = "call"
      BY ONLY <1>1, <1>6, <2>2
    <3> QED
      BY ONLY <3>1 DEF QueuesInv
  <2>22. Queues' = [Queues EXCEPT !["manual"] = Tail(tasks["manual"])]
    <3>1. Queues' = [e \in Queue |-> IF e = "manual" /\ RunByHand' THEN Tail(tasks'[e]) ELSE tasks'[e]]
      BY DEF Queues, Waiting
    <3>2. \A e \in Queue : Queues'[e] = IF e = "manual" THEN Tail(tasks["manual"]) ELSE Queues[e]
      BY ONLY <1>1, <2>7, <2>20, <3>1
    <3> QED
      BY ONLY <2>3, <2>7, <3>1, <3>2
  <2> DEFINE N == BeltOf(todo, Queues', callback)  x == <<"queue", "manual">>
  <2>23. Becomes(BeltOf(todo, Queues, callback), N, x, Tail(tasks["manual"]))
    BY <2>3, <2>7, <2>22, QueueBecomes
  <2>24. BeltOf(todo, Queues, callback)[x] = tasks["manual"]
    BY ONLY <2>3, <2>7, BeltIs
  <2>25. Belt = BeltOf(todo, Queues, callback) /\ Belt' = BeltOf(todo', Queues', callback)
    <3>1. Belt' = BeltOf(todo', Queues', callback')
      BY DEF Belt
    <3> QED
      BY ONLY <1>1, <3>1 DEF Belt
  <2> HIDE DEF N, x
  <2>26. Becomes(Belt, N, x, Tail(Belt[x])) /\ Belt[x] # <<>> /\ Head(Belt[x]) = task
    BY ONLY <1>6, <2>23, <2>24, <2>25 DEF task
  <2>27. Tidy(N) /\ In(N) \subseteq In(Belt) /\ Held(N) \subseteq Held(Belt) \ Tokens(Head(Belt[x]))
    BY <1>2, <2>26, HeadRemoved
  <2>28. Tidy(BeltOf(todo, Queues', callback)) /\ Has(ops) \cap Held(BeltOf(todo, Queues', callback)) \subseteq Tokens(Head(todo[t]))
    BY ONLY <2>14, <2>26, <2>27 DEF N
  <2>29. LET L == BeltOf(todo, Queues', callback)  M == BeltOf(todo', Queues', callback)
         IN  /\ Tidy(M) /\ In(M) \subseteq In(L) \cup ToSet(ops)
             /\ Held(M) \subseteq (Held(L) \ Tokens(Head(todo[t]))) \cup Has(ops)
    BY <1>1, <1>3, <2>1, <2>a, <2>14, <2>28, BeltGoes
  <2>30. Carried = Held(Belt) /\ Ops = In(Belt) /\ Carried' = Held(Belt') /\ Ops' = In(Belt')
    BY DEF Carried, Ops
  <2>31. Tokens(task) \subseteq Held(Belt)
    <3>1. x \in DOMAIN Belt
      BY ONLY <2>26 DEF Becomes
    <3>2. IsSeq(Belt[x]) /\ HeldOnce(Belt[x]) /\ Has(Belt[x]) \subseteq Held(Belt)
      BY <1>2, <3>1, LineIn
    <3>3. Has(Belt[x]) = Tokens(Head(Belt[x])) \cup Has(Tail(Belt[x]))
      BY <2>26, <3>2, HasHead
    <3> QED
      BY ONLY <2>26, <3>2, <3>3
  <2>32. Tidy(Belt') /\ Ops' \subseteq Ops \cup ToSet(ops) /\ Carried' \subseteq Carried
    BY ONLY <2>14, <2>25, <2>27, <2>29, <2>30, <2>31 DEF N
  <2>33. \A o \in Ops' : IsOperation(o)
    BY ONLY <1>2, <2>9, <2>11, <2>a, <2>32
  <2>34. LinesInv'
    BY ONLY <1>1, <1>2, <2>19, <2>21, <2>32, <2>33 DEF LinesInv
  <2>35. Moved(t, {}, {}, ToSet(ops))
    BY ONLY <2>19, <2>32, <2>34 DEF Moved
  <2>36. \A op \in ToSet(ops) : op \in Ops \/ op[1] \in {"pop", "run"}
    BY ONLY <2>8, <2>10, <2>a
  <2> QED
    BY ONLY <2>35, <2>36
<1> QED
  BY ONLY <1>5, <1>6

LEMMA TakesTask ==
    ASSUME LinesInv, NEW t \in Threads, Take(t)
    PROVE  Moved(t, {}, {}, {})
<1> DEFINE task == Head(tasks["pool"])  q == <<task>>
<1>1. /\ todo[t] = <<>> /\ tasks["pool"] # <<>> /\ todo' = [todo EXCEPT ![t] = q]
      /\ tasks' = [tasks EXCEPT !["pool"] = Tail(@)] /\ callback' = callback
  BY DEF Take, stateVars, callbackVars
<1>2. /\ DOMAIN callback = States /\ ThreadsInv /\ QueuesInv /\ Tidy(Belt)
      /\ \A o \in Ops : IsOperation(o)
  BY DEF LinesInv
<1>3. /\ DOMAIN tasks = Queue /\ (RunByHand => tasks["manual"] # <<>>)
      /\ \A e \in Queue : IsSeq(tasks[e]) /\ \A o \in ToSet(tasks[e]) : o[1] = "call"
  BY <1>2 DEF QueuesInv
<1>4. "pool" \in Queue /\ "manual" \in Queue /\ "pool" # "manual" /\ \A e \in Queue : e = "pool" \/ e = "manual"
  BY DEF Queue
<1>5. /\ task \in ToSet(tasks["pool"]) /\ IsSeq(Tail(tasks["pool"]))
      /\ ToSet(Tail(tasks["pool"])) \subseteq ToSet(tasks["pool"])
  BY <1>1, <1>3, <1>4, HeadFacts
<1>6. task[1] = "call"
  BY ONLY <1>3, <1>4, <1>5
<1> HIDE DEF task
<1>7. IsSeq(q) /\ HeldOnce(q) /\ ToSet(q) = {task} /\ Has(q) = Tokens(task)
  BY ONLY Literals, HasLiterals
<1>8. Single(task)
  BY ONLY <1>6 DEF Single
<1>9. Fit(task, q)
  <2>1. \A op \in ToSet(q) : Single(op)
    BY ONLY <1>7, <1>8
  <2> QED
    BY <1>7, <2>1, SinglesFit
<1>10. DOMAIN todo = Threads /\ todo'[t] = q /\ \A u \in Threads : u # t => todo'[u] = todo[u]
  BY <1>1, <1>2 DEF ThreadsInv
<1>11. ToSet(todo[t]) = {}
  BY ONLY <1>1, Literals
<1>12. Keeps(t)
  BY ONLY <1>10, <1>11 DEF Keeps
<1>13. \A op \in ToSet(q) : op[1] \notin {"get", "getReady", "sleep", "run", "pop"}
  BY ONLY <1>6, <1>7
<1>14. ThreadsInv'
  <2>1. /\ \A u \in Threads : IsSeq(todo[u]) /\ Paired(todo[u]) /\ Ordered(todo[u])
        /\ \A u \in Threads : \A op \in ToSet(todo[u]) :
              op[1] \in {"get", "getReady", "sleep"} => u \in Clients
    BY <1>2 DEF ThreadsInv
  <2>2. \A u, v \in Threads : \A a \in ToSet(todo[u]), b \in ToSet(todo[v]) :
           a[1] \in {"run", "pop"} /\ b[1] \in {"run", "pop"} => u = v
    BY <1>2 DEF ThreadsInv
  <2>3. IsSeq(q) /\ Paired(q) /\ Ordered(q)
    BY ONLY <1>9 DEF Fit
  <2>4. DOMAIN todo' = Threads
    BY ONLY <1>1, <1>10
  <2>5. \A u \in Threads : IsSeq(todo'[u]) /\ Paired(todo'[u]) /\ Ordered(todo'[u])
    BY ONLY <1>10, <2>1, <2>3
  <2>6. \A u \in Threads : \A op \in ToSet(todo'[u]) : op[1] \in {"get", "getReady", "sleep"} => u \in Clients
    BY ONLY <1>10, <1>13, <2>1
  <2>7. ASSUME NEW u \in Threads, NEW a \in ToSet(todo'[u]), a[1] \in {"run", "pop"}
        PROVE  a \in ToSet(todo[u])
    BY ONLY <1>10, <1>13, <2>7
  <2>8. \A u, v \in Threads : \A a \in ToSet(todo'[u]), b \in ToSet(todo'[v]) :
           a[1] \in {"run", "pop"} /\ b[1] \in {"run", "pop"} => u = v
    BY ONLY <2>2, <2>7
  <2> QED
    BY ONLY <2>4, <2>5, <2>6, <2>8 DEF ThreadsInv
<1>15. RunByHand' = RunByHand
  <2>1. <<"pop">>[1] = "pop"
    OBVIOUS
  <2>2. \A u \in Threads : <<"pop">> \in ToSet(todo'[u]) <=> <<"pop">> \in ToSet(todo[u])
    BY ONLY <1>10, <1>11, <1>13, <2>1
  <2> QED
    BY ONLY <2>2 DEF RunByHand
<1>16. \A e \in Queue : tasks'[e] = IF e = "pool" THEN Tail(tasks["pool"]) ELSE tasks[e]
  BY ONLY <1>1, <1>3, <1>4
<1>17. QueuesInv'
  <2>1. DOMAIN tasks' = Queue
    BY ONLY <1>1, <1>3
  <2>2. \A e \in Queue : IsSeq(tasks'[e]) /\ \A o \in ToSet(tasks'[e]) : o[1] = "call"
    BY ONLY <1>3, <1>4, <1>5, <1>16
  <2>3. RunByHand' => tasks'["manual"] # <<>>
    BY ONLY <1>3, <1>4, <1>15, <1>16
  <2> QED
    BY ONLY <2>1, <2>2, <2>3 DEF QueuesInv
<1>18. DOMAIN Queues = Queue /\ Queues["pool"] = tasks["pool"]
  BY <1>2, QueuesAre
<1>19. Queues' = [Queues EXCEPT !["pool"] = Tail(tasks["pool"])]
  <2>1. Queues' = [e \in Queue |-> IF e = "manual" /\ RunByHand' THEN Tail(tasks'[e]) ELSE tasks'[e]]
    BY DEF Queues, Waiting
  <2>2. Queues = [e \in Queue |-> IF e = "manual" /\ RunByHand THEN Tail(tasks[e]) ELSE tasks[e]]
    BY DEF Queues, Waiting
  <2>3. \A e \in Queue : Queues'[e] = IF e = "pool" THEN Tail(tasks["pool"]) ELSE Queues[e]
    BY ONLY <1>4, <1>15, <1>16, <2>1, <2>2
  <2> QED
    BY ONLY <1>4, <1>18, <2>1, <2>3
<1> DEFINE N == BeltOf(todo, Queues', callback)  x == <<"queue", "pool">>  y == <<"todo", t>>
<1>20. Becomes(BeltOf(todo, Queues, callback), N, x, Tail(tasks["pool"]))
  BY <1>4, <1>18, <1>19, QueueBecomes
<1>21. BeltOf(todo, Queues, callback)[x] = tasks["pool"]
  BY ONLY <1>4, <1>18, BeltIs
<1>22. Belt = BeltOf(todo, Queues, callback) /\ Belt' = BeltOf(todo', Queues', callback)
  <2>1. Belt' = BeltOf(todo', Queues', callback')
    BY DEF Belt
  <2> QED
    BY ONLY <1>1, <2>1 DEF Belt
<1>23. Becomes(N, Belt', y, q)
  <2>1. Becomes(BeltOf(todo, Queues', callback), BeltOf(todo', Queues', callback), <<"todo", t>>, q)
    BY <1>1, <1>10, TodoBecomes
  <2> QED
    BY ONLY <1>22, <2>1
<1> HIDE DEF N, x, y, q
<1>24. Becomes(Belt, N, x, Tail(Belt[x])) /\ Belt[x] # <<>> /\ Head(Belt[x]) = task
  BY ONLY <1>1, <1>20, <1>21, <1>22 DEF task
<1>25. Tidy(N) /\ In(N) \subseteq In(Belt) /\ Held(N) \subseteq Held(Belt) \ Tokens(Head(Belt[x]))
  BY <1>2, <1>24, HeadRemoved
<1>26. Has(q) \cap Held(N) = {}
  BY ONLY <1>7, <1>24, <1>25
<1>27. /\ Tidy(Belt') /\ In(Belt') \subseteq In(N) \cup ToSet(q)
       /\ Held(Belt') \subseteq (Held(N) \ Has(N[y])) \cup Has(q)
  BY <1>7, <1>23, <1>25, <1>26, LineFilled
<1>28. Tokens(task) \subseteq Held(Belt) /\ task \in In(Belt)
  <2>1. x \in DOMAIN Belt
    BY ONLY <1>24 DEF Becomes
  <2>2. IsSeq(Belt[x]) /\ HeldOnce(Belt[x]) /\ Has(Belt[x]) \subseteq Held(Belt) /\ ToSet(Belt[x]) \subseteq In(Belt)
    BY <1>2, <2>1, LineIn
  <2>3. Has(Belt[x]) = Tokens(Head(Belt[x])) \cup Has(Tail(Belt[x]))
    BY <1>24, <2>2, HasHead
  <2>4. Head(Belt[x]) \in ToSet(Belt[x])
    BY <1>24, <2>2, HeadFacts
  <2> QED
    BY ONLY <1>24, <2>2, <2>3, <2>4
<1>29. Carried = Held(Belt) /\ Ops = In(Belt) /\ Carried' = Held(Belt') /\ Ops' = In(Belt')
  BY DEF Carried, Ops
<1>30. Tidy(Belt') /\ Ops' \subseteq Ops /\ Carried' \subseteq Carried
  BY ONLY <1>7, <1>25, <1>27, <1>28, <1>29
<1>31. LinesInv'
  BY ONLY <1>1, <1>2, <1>14, <1>17, <1>30 DEF LinesInv
<1> QED
  BY ONLY <1>12, <1>30, <1>31 DEF Moved

-----------------------------------------------------------------------------
(* What every action moves                                                   *)

\* Nothing is done: a thread falls asleep or wakes up.
LEMMA Idle ==
    ASSUME LinesInv, todo' = todo, tasks' = tasks, callback' = callback
    PROVE  \A t \in Threads : Moved(t, {}, {}, {})
<1>1. RunByHand' = RunByHand
  BY DEF RunByHand
<1>2. Queues' = Queues
  BY <1>1 DEF Queues, Waiting
<1>3. Belt' = Belt
  BY <1>2 DEF Belt
<1>4. Carried' = Carried /\ Ops' = Ops
  BY <1>3 DEF Carried, Ops
<1>5. ThreadsInv' /\ QueuesInv'
  BY <1>1 DEF LinesInv, ThreadsInv, QueuesInv
<1>6. LinesInv'
  BY ONLY LinesInv, <1>3, <1>4, <1>5, callback' = callback DEF LinesInv
<1>7. \A t \in Threads : Keeps(t)
  BY DEF Keeps
<1> QED
  BY ONLY <1>4, <1>6, <1>7 DEF Moved

LEMMA StoresResult ==
    ASSUME LinesInv, NEW t \in Threads, StoreResult(t)
    PROVE  LET s == Head(todo[t])[2]
           IN  s \in States /\ Moved(t, {}, {}, {<<"ready", s>>, <<"try", s>>, <<"notify", s>>})
<1> DEFINE h == Head(todo[t])  s == h[2]  a == <<"ready", s>>  b == <<"try", s>>  c == <<"notify", s>>
           ops == <<a, b, c>>
<1>1. /\ todo[t] # <<>> /\ h[1] = "set" /\ tasks' = tasks /\ callback' = callback /\ Continue(t, ops)
  BY DEF StoreResult, Doing, Arg, callbackVars
<1>2. IsOperation(h)
  BY <1>1, HeadIs
<1>3. s \in States
  BY ONLY <1>1, <1>2 DEF IsOperation, IsScriptOperation
<1>4. a[1] = "ready" /\ a[2] = s /\ b[1] = "try" /\ b[2] = s /\ c[1] = "notify" /\ c[2] = s
  OBVIOUS
<1> HIDE DEF h, s
<1>5. b = <<"try", a[2]>>
  BY ONLY <1>4
<1> HIDE DEF a, b, c
<1>6. Tokens(a) = {} /\ Tokens(b) = {} /\ Tokens(c) = {}
  BY ONLY <1>4, TokensOf
<1>7. IsSeq(ops) /\ ToSet(ops) = {a, b, c} /\ Len(ops) = 3
  <2>1. \A x, y, z : IsSeq(<<x, y, z>>) /\ ToSet(<<x, y, z>>) = {x, y, z} /\ Len(<<x, y, z>>) = 3
    BY ONLY Literals
  <2> QED
    BY ONLY <2>1
<1>8. ops[1] = a /\ ops[2] = b /\ ops[3] = c
  OBVIOUS
<1>9. Has(ops) = {}
  <2>1. Has(ops) = Tokens(a) \cup Tokens(b) \cup Tokens(c)
    BY ONLY HasLiterals
  <2> QED
    BY ONLY <1>6, <2>1
<1>10. HeldOnce(ops)
  <2>1. (Tokens(a) \cap Tokens(b) = {} /\ Tokens(a) \cap Tokens(c) = {} /\ Tokens(b) \cap Tokens(c) = {})
           => HeldOnce(ops)
    BY ONLY HasLiterals
  <2> QED
    BY ONLY <1>6, <2>1
<1> HIDE DEF ops
<1>11. 1 .. 3 = {1, 2, 3} /\ 1 + 1 = 2
  OBVIOUS
<1>12. Paired(ops)
  BY ONLY <1>4, <1>5, <1>7, <1>8, <1>11 DEF Paired
<1>13. Ordered(ops)
  BY ONLY <1>4, <1>7, <1>8, <1>11 DEF Ordered
<1>14. \A op \in ToSet(ops) : IsOperation(op) /\ op[1] \notin {"get", "getReady", "run", "pop", "sleep"}
  BY ONLY <1>3, <1>4, <1>7 DEF IsOperation
<1>15. Fit(h, ops)
  BY ONLY <1>7, <1>12, <1>13, <1>14 DEF Fit
<1>16. /\ Has(ops) \cap Carried \subseteq Tokens(Head(todo[t])) /\ Head(todo[t])[1] # "pop"
       /\ \A op \in ToSet(ops) : IsOperation(op) /\ op[1] # "pop"
  BY ONLY <1>1, <1>9, <1>14 DEF h
<1>17. Moved(t, Tokens(Head(todo[t])), Has(ops), ToSet(ops))
  BY <1>1, <1>10, <1>15, <1>16, Local DEF h
<1>18. Moved(t, {}, {}, {a, b, c})
  BY ONLY <1>7, <1>9, <1>17 DEF Moved
<1> QED
  BY ONLY <1>3, <1>18 DEF a, b, c, s, h

\* An operation that is done, or that leaves one other.
LEMMA Finishes ==
    ASSUME LinesInv, NEW t \in Threads, todo[t] # <<>>, Head(todo[t])[1] # "pop", Continue(t, <<>>),
           tasks' = tasks, callback' = callback
    PROVE  Moved(t, {}, {}, {}) /\ Moved(t, Tokens(Head(todo[t])), {}, {})
<1>1. Moved(t, Tokens(Head(todo[t])), {}, {})
  BY Done
<1> QED
  BY ONLY <1>1 DEF Moved

LEMMA Fulfils ==
    ASSUME LinesInv, NEW t \in Threads, todo[t] # <<>>, Head(todo[t])[1] # "pop",
           NEW p \in States, NEW r, Fulfil(t, p, r, <<>>), tasks' = tasks, callback' = callback
    PROVE  Moved(t, Tokens(Head(todo[t])), {}, {<<"set", p, r>>})
<1> DEFINE op == <<"set", p, r>>
<1>1. op[1] = "set" /\ op[2] = p
  OBVIOUS
<1>2. Continue(t, <<op>> \o <<>>)
  BY DEF Fulfil
<1> HIDE DEF op
<1>3. <<op>> \o <<>> = <<op>>
  <2>1. IsSeq(<<op>>)
    BY ONLY Literals
  <2> QED
    BY <2>1, ConcatEmptySeq DEF IsSeq
<1>4. Tokens(op) = {}
  BY ONLY <1>1, TokensOf
<1>5. Single(op) /\ IsOperation(op)
  BY ONLY <1>1, p \in States DEF Single, IsOperation
<1>6. Continue(t, <<op>>) /\ Tokens(op) \cap Carried \subseteq Tokens(Head(todo[t]))
  BY ONLY <1>2, <1>3, <1>4
<1>7. Moved(t, Tokens(Head(todo[t])), Tokens(op), {op})
  BY <1>5, <1>6, OneMore
<1> QED
  BY ONLY <1>4, <1>7 DEF op

\* The callback that a thread is to run.
LEMMA CallIs ==
    ASSUME LinesInv, NEW t \in Threads, todo[t] # <<>>, Head(todo[t])[1] = "call"
    PROVE  LET c == Head(todo[t])[2]
           IN  /\ IsCallback(c) /\ Tokens(Head(todo[t])) = CallTokens(c) /\ CallTokens(c) \subseteq Carried
               /\ c[1] \in {"then", "recover", "compute", "forward", "flatMap", "all", "firstOf"} => c[2] \in States
               /\ c[1] = "flatMap" => c[3] \in States
               /\ c[1] \in {"all", "firstOf"} => c[3] \in Nat
               /\ c[1] = "get" => c[2] \in Clients
<1> DEFINE h == Head(todo[t])  c == h[2]
<1>1. IsOperation(h) /\ Tokens(h) \subseteq Carried /\ h[1] = "call"
  BY HeadIs
<1> HIDE DEF h
<1>2. <<"sleep">>[1] = "sleep" /\ <<"pop">>[1] = "pop"
  OBVIOUS
<1>3. IsCallback(c)
  BY ONLY <1>1, <1>2 DEF IsOperation, IsScriptOperation
<1>4. Tokens(h) = CallTokens(c)
  BY ONLY <1>1, TokensOf
<1> HIDE DEF c
<1>5. /\ c[1] \in {"then", "recover", "compute", "forward", "flatMap", "all", "firstOf"} => c[2] \in States
      /\ c[1] = "flatMap" => c[3] \in States
      /\ c[1] \in {"all", "firstOf"} => c[3] \in Nat
      /\ c[1] = "get" => c[2] \in Clients
  BY ONLY <1>3 DEF IsCallback
<1> QED
  BY ONLY <1>1, <1>3, <1>4, <1>5 DEF h, c

LEMMA Executes ==
    ASSUME LinesInv, NEW t \in Threads, Execute(t)
    PROVE  \E task : task[1] = "call" /\ Moved(t, {}, {}, {task})
<1> DEFINE h == Head(todo[t])  p == h[3]  c == <<"compute", p>>  task == <<"call", c, Value(<<>>)>>
<1>1. /\ todo[t] # <<>> /\ h[1] = "execute" /\ callback' = callback
      /\ Submit(t, h[2], <<"call", <<"compute", h[3]>>, Value(<<>>)>>)
  BY DEF Execute, Doing, Arg, callbackVars
<1>2. /\ DOMAIN callback = States /\ Tidy(Belt)
  BY DEF LinesInv
<1>3. IsOperation(h) /\ Tokens(h) \subseteq Carried
  BY <1>1, HeadIs
<1> HIDE DEF h
<1>4. p \in States /\ h[2] \in Executors
  BY ONLY <1>1, <1>3 DEF IsOperation, IsScriptOperation
<1>5. Tokens(h) = {Promise(p)}
  BY ONLY <1>1, TokensOf
<1>6. Submit(t, h[2], task)
  BY ONLY <1>1
<1>7. task[1] = "call" /\ task[2] = c /\ c[1] = "compute" /\ c[2] = p
  OBVIOUS
<1> HIDE DEF p, c, task
<1>8. Tokens(task) = {Promise(p)} /\ IsCallback(c)
  BY ONLY <1>4, <1>7, TokensOf, CallTokensOf DEF IsCallback
<1>9. IsOperation(task)
  BY ONLY <1>7, <1>8 DEF IsOperation
<1>10. Between = Belt
  BY ONLY <1>1 DEF Between, Belt
<1>11. Held(Between) \subseteq Carried /\ In(Between) \subseteq Ops /\ Tidy(Between) /\ DOMAIN callback' = States
  BY ONLY <1>1, <1>2, <1>10 DEF Carried, Ops
<1>12. Tokens(task) \cap Held(Between) \subseteq Tokens(Head(todo[t])) /\ Head(todo[t])[1] # "pop"
  BY ONLY <1>1, <1>5, <1>8 DEF h
<1>13. Moved(t, Tokens(Head(todo[t])), Tokens(task), {task})
  BY <1>1, <1>4, <1>6, <1>7, <1>9, <1>11, <1>12, Submits
<1>14. Moved(t, {}, {}, {task})
  BY ONLY <1>3, <1>5, <1>8, <1>13 DEF Moved
<1> QED
  BY ONLY <1>7, <1>14

LEMMA Chains ==
    ASSUME LinesInv, NEW t \in Threads, Chain(t)
    PROVE  \E op : op[1] = "subscribe" /\ Moved(t, {}, {}, {op})
<1> DEFINE h == Head(todo[t])  c == <<h[1], h[3], h[4]>>  op == <<"subscribe", h[2], c>>
<1>1. /\ todo[t] # <<>> /\ h[1] \in {"then", "flatMap", "recover"} /\ callback' = callback /\ tasks' = tasks
      /\ Continue(t, <<op>>)
  BY DEF Chain, Arg, callbackVars
<1>2. IsOperation(h) /\ Tokens(h) \subseteq Carried
  BY <1>1, HeadIs
<1>3. op[1] = "subscribe" /\ op[2] = h[2] /\ op[3] = c /\ c[1] = h[1] /\ c[2] = h[3] /\ c[3] = h[4]
  OBVIOUS
<1> HIDE DEF h, c, op
<1>4. /\ h[2] \in States /\ h[3] \in States
      /\ h[1] = "flatMap" => h[4] \in States /\ h[2] # h[4]
  BY ONLY <1>1, <1>2 DEF IsOperation, IsScriptOperation
<1>5. IsCallback(c)
  BY ONLY <1>1, <1>3, <1>4 DEF IsCallback
<1>6. Tokens(op) = {Future(h[2])} \cup CallTokens(c)
  BY ONLY <1>3, TokensOf
<1>7. /\ h[1] \in {"then", "recover"} => CallTokens(c) = {Promise(h[3])} /\ Tokens(h) = {Future(h[2]), Promise(h[3])}
      /\ h[1] = "flatMap" => /\ CallTokens(c) = {Promise(h[3]), Future(h[4])}
                             /\ Tokens(h) = {Future(h[2]), Promise(h[3]), Future(h[4])}
  BY ONLY <1>3, TokensOf, CallTokensOf
<1>8. Future(h[2]) \notin CallTokens(c)
  <2>1. Future(h[2]) # Promise(h[3])
    BY ONLY Kinds
  <2>2. h[2] # h[4] => Future(h[2]) # Future(h[4])
    BY ONLY Kinds
  <2> QED
    BY ONLY <1>1, <1>4, <1>7, <2>1, <2>2
<1>9. IsOperation(op) /\ Single(op)
  BY ONLY <1>3, <1>4, <1>5, <1>8 DEF IsOperation, Single
<1>10. Tokens(op) = Tokens(h)
  BY ONLY <1>1, <1>6, <1>7
<1>11. Tokens(op) \cap Carried \subseteq Tokens(Head(todo[t])) /\ Head(todo[t])[1] # "pop"
  BY ONLY <1>1, <1>10 DEF h
<1>12. Moved(t, Tokens(Head(todo[t])), Tokens(op), {op})
  BY <1>1, <1>9, <1>11, OneMore
<1>13. Moved(t, {}, {}, {op})
  BY ONLY <1>2, <1>10, <1>12 DEF Moved
<1> QED
  BY ONLY <1>3, <1>13

LEMMA Forwards ==
    ASSUME LinesInv, NEW t \in Threads, Calling(t, "flatMap"), callback' = callback, tasks' = tasks,
           Continue(t, <<<<"subscribe", Arg(t, 2)[3], <<"forward", Arg(t, 2)[2]>>>>>>)
    PROVE  \E op : op[1] = "subscribe" /\ Moved(t, {}, {}, {op})
<1> DEFINE d == Head(todo[t])[2]  c == <<"forward", d[2]>>  op == <<"subscribe", d[3], c>>
<1>1. /\ todo[t] # <<>> /\ Head(todo[t])[1] = "call" /\ d[1] = "flatMap" /\ Continue(t, <<op>>)
  BY DEF Calling, Doing, Arg
<1>2. /\ Tokens(Head(todo[t])) = CallTokens(d) /\ CallTokens(d) \subseteq Carried
      /\ d[2] \in States /\ d[3] \in States
  BY <1>1, CallIs
<1>3. op[1] = "subscribe" /\ op[2] = d[3] /\ op[3] = c /\ c[1] = "forward" /\ c[2] = d[2]
  OBVIOUS
<1> HIDE DEF d, c, op
<1>4. IsCallback(c) /\ Tokens(op) = {Future(d[3])} \cup CallTokens(c) /\ CallTokens(c) = {Promise(d[2])}
  BY ONLY <1>2, <1>3, TokensOf, CallTokensOf DEF IsCallback
<1>5. CallTokens(d) = {Promise(d[2]), Future(d[3])}
  BY ONLY <1>1, CallTokensOf
<1>6. Future(d[3]) # Promise(d[2])
  BY ONLY Kinds
<1>7. IsOperation(op) /\ Single(op)
  BY ONLY <1>2, <1>3, <1>4, <1>6 DEF IsOperation, Single
<1>8. Tokens(op) = Tokens(Head(todo[t]))
  BY ONLY <1>2, <1>4, <1>5
<1>9. Tokens(op) \cap Carried \subseteq Tokens(Head(todo[t])) /\ Head(todo[t])[1] # "pop"
  BY ONLY <1>1, <1>8
<1>10. Moved(t, Tokens(Head(todo[t])), Tokens(op), {op})
  BY <1>1, <1>7, <1>9, OneMore
<1>11. Moved(t, {}, {}, {op})
  BY ONLY <1>2, <1>8, <1>10 DEF Moved
<1> QED
  BY ONLY <1>3, <1>11

LEMMA Answers ==
    ASSUME LinesInv, NEW t \in Threads, StoreAnswer(t)
    PROVE  \E op : op[1] = "finish" /\ Moved(t, {}, {}, {op})
<1> DEFINE d == Head(todo[t])[2]  op == <<"finish", d[2], d[3]>>
<1>1. /\ todo[t] # <<>> /\ Head(todo[t])[1] = "call" /\ d[1] = "all" /\ Continue(t, <<op>>)
      /\ callback' = callback /\ tasks' = tasks
  BY DEF StoreAnswer, Calling, Doing, Arg, stateVars, callbackVars
<1>2. /\ Tokens(Head(todo[t])) = CallTokens(d) /\ CallTokens(d) \subseteq Carried
      /\ d[2] \in States /\ d[3] \in Nat
  BY <1>1, CallIs
<1>3. op[1] = "finish" /\ op[2] = d[2] /\ op[3] = d[3]
  OBVIOUS
<1> HIDE DEF d, op
<1>4. Tokens(op) = {<<"all", d[2], d[3]>>} /\ CallTokens(d) = {<<"all", d[2], d[3]>>}
  BY ONLY <1>1, <1>3, TokensOf, CallTokensOf
<1>5. IsOperation(op) /\ Single(op)
  BY ONLY <1>2, <1>3 DEF IsOperation, Single
<1>6. Tokens(op) \cap Carried \subseteq Tokens(Head(todo[t])) /\ Head(todo[t])[1] # "pop"
  BY ONLY <1>1, <1>2, <1>4
<1>7. Moved(t, Tokens(Head(todo[t])), Tokens(op), {op})
  BY <1>1, <1>5, <1>6, OneMore
<1>8. Moved(t, {}, {}, {op})
  BY ONLY <1>2, <1>4, <1>7 DEF Moved
<1> QED
  BY ONLY <1>3, <1>8

LEMMA StoresGet ==
    ASSUME LinesInv, NEW t \in Threads, StoreGet(t)
    PROVE  \E new : Moved(t, {}, {}, new) /\ \A op \in new : op[1] \in {"awake", "wake"}
<1> DEFINE d == Head(todo[t])[2]  a == <<"awake", d[2]>>  b == <<"wake", d[2]>>  ops == <<a, b>>
<1>1. /\ todo[t] # <<>> /\ Head(todo[t])[1] = "call" /\ d[1] = "get" /\ Continue(t, ops)
      /\ callback' = callback /\ tasks' = tasks
  BY DEF StoreGet, Calling, Doing, Arg, stateVars, callbackVars
<1>2. /\ Tokens(Head(todo[t])) = CallTokens(d) /\ CallTokens(d) \subseteq Carried /\ d[2] \in Clients
  BY <1>1, CallIs
<1>3. a[1] = "awake" /\ a[2] = d[2] /\ b[1] = "wake" /\ b[2] = d[2]
  OBVIOUS
<1> HIDE DEF d, a, b
<1>4. CallTokens(d) = {Frame(d[2])} /\ Tokens(a) = {Frame(d[2])} /\ Tokens(b) = {}
  BY ONLY <1>1, <1>3, TokensOf, CallTokensOf
<1>5. IsSeq(ops) /\ ToSet(ops) = {a, b}
  BY ONLY Literals
<1>6. Has(ops) = Tokens(a) \cup Tokens(b) /\ (Tokens(a) \cap Tokens(b) = {} => HeldOnce(ops))
  BY ONLY HasLiterals
<1> HIDE DEF ops
<1>7. \A op \in ToSet(ops) : Single(op) /\ IsOperation(op)
  BY ONLY <1>2, <1>3, <1>5 DEF Single, IsOperation
<1>8. Fit(Head(todo[t]), ops) /\ \A op \in ToSet(ops) : op[1] # "pop"
  BY <1>5, <1>7, SinglesFit
<1>9. /\ HeldOnce(ops) /\ Has(ops) \cap Carried \subseteq Tokens(Head(todo[t])) /\ Head(todo[t])[1] # "pop"
      /\ \A op \in ToSet(ops) : IsOperation(op) /\ op[1] # "pop"
  BY ONLY <1>1, <1>2, <1>4, <1>6, <1>7, <1>8
<1>10. Moved(t, Tokens(Head(todo[t])), Has(ops), ToSet(ops))
  BY <1>1, <1>8, <1>9, Local
<1>11. Moved(t, {}, {}, ToSet(ops))
  BY ONLY <1>2, <1>4, <1>6, <1>10 DEF Moved
<1> QED
  BY ONLY <1>3, <1>5, <1>11

LEMMA Gets ==
    ASSUME LinesInv, NEW t \in Threads, GetResult(t), Frame(t) \notin Carried
    PROVE  \E new : /\ Moved(t, {}, {Frame(t)}, new) /\ <<"sleep">> \in ToSet(todo'[t]) /\ t \in Clients
                    /\ \A op \in new : op[1] \in {"via", "subscribe", "sleep"}
<1> DEFINE h == Head(todo[t])  s == h[2]  g == <<"get", t>>
           a == <<"via", s, "inline">>  b == <<"subscribe", s, g>>  c == <<"sleep">>  ops == <<a, b, c>>
<1>1. /\ todo[t] # <<>> /\ h[1] = "get" /\ tasks' = tasks /\ callback' = callback /\ Continue(t, ops)
  BY DEF GetResult, Doing, Arg, stateVars, callbackVars
<1>2. /\ IsOperation(h) /\ Tokens(h) \subseteq Carried /\ h \in ToSet(todo[t])
      /\ IsSeq(todo[t]) /\ DOMAIN todo = Threads
  BY <1>1, HeadIs
<1>3. \A op \in ToSet(todo[t]) : op[1] = "get" => t \in Clients
  BY DEF LinesInv, ThreadsInv
<1> HIDE DEF h
<1>4. s \in States /\ t \in Clients
  BY ONLY <1>1, <1>2, <1>3 DEF IsOperation, IsScriptOperation
<1>5. /\ a[1] = "via" /\ a[2] = s /\ a[3] = "inline" /\ b[1] = "subscribe" /\ b[2] = s /\ b[3] = g
      /\ c[1] = "sleep" /\ g[1] = "get" /\ g[2] = t
  OBVIOUS
<1>6. IsOperation(c)
  BY DEF IsOperation
<1> HIDE DEF s, g, a, b
<1>7. CallTokens(g) = {Frame(t)} /\ IsCallback(g) /\ Tokens(a) = {} /\ Tokens(b) = {Future(s), Frame(t)}
      /\ Tokens(c) = {} /\ Tokens(h) = {Future(s)}
  <2>1. CallTokens(g) = {Frame(t)} /\ IsCallback(g)
    BY ONLY <1>4, <1>5, CallTokensOf DEF IsCallback
  <2>2. Tokens(a) = {} /\ Tokens(b) = {Future(s)} \cup CallTokens(g) /\ Tokens(c) = {}
    BY ONLY <1>5, TokensOf
  <2>3. Tokens(h) = {Future(s)}
    BY ONLY <1>1, TokensOf DEF s
  <2> QED
    BY ONLY <2>1, <2>2, <2>3
<1>8. IsOperation(a) /\ IsOperation(b)
  <2>1. Future(s) # Frame(t)
    BY ONLY Kinds
  <2>2. "inline" \in Executors
    BY DEF Executors
  <2> QED
    BY ONLY <1>4, <1>5, <1>7, <2>1, <2>2 DEF IsOperation, IsScriptOperation
<1>9. IsSeq(ops) /\ ToSet(ops) = {a, b, c} /\ Len(ops) = 3
  <2>1. \A x, y, z : IsSeq(<<x, y, z>>) /\ ToSet(<<x, y, z>>) = {x, y, z} /\ Len(<<x, y, z>>) = 3
    BY ONLY Literals
  <2> QED
    BY ONLY <2>1
<1>10. ops[1] = a /\ ops[2] = b /\ ops[3] = c
  OBVIOUS
<1>11. Has(ops) = {Future(s), Frame(t)}
  <2>1. Has(ops) = Tokens(a) \cup Tokens(b) \cup Tokens(c)
    BY ONLY HasLiterals
  <2> QED
    BY ONLY <1>7, <2>1
<1>12. HeldOnce(ops)
  <2>1. (Tokens(a) \cap Tokens(b) = {} /\ Tokens(a) \cap Tokens(c) = {} /\ Tokens(b) \cap Tokens(c) = {})
           => HeldOnce(ops)
    BY ONLY HasLiterals
  <2> QED
    BY ONLY <1>7, <2>1
<1> HIDE DEF ops, c
<1>13. 1 .. 3 = {1, 2, 3}
  OBVIOUS
<1>14. Paired(ops)
  BY ONLY <1>5, <1>9, <1>10, <1>13 DEF Paired
<1>15. Ordered(ops)
  BY ONLY <1>5, <1>9, <1>10, <1>13 DEF Ordered
<1>16. \A op \in ToSet(ops) : IsOperation(op) /\ op[1] \notin {"get", "getReady", "run", "pop"}
  BY ONLY <1>5, <1>6, <1>8, <1>9
<1>17. Fit(h, ops)
  BY ONLY <1>1, <1>9, <1>14, <1>15, <1>16 DEF Fit
<1>18. /\ Has(ops) \cap Carried \subseteq Tokens(Head(todo[t])) /\ Head(todo[t])[1] # "pop"
       /\ \A op \in ToSet(ops) : IsOperation(op) /\ op[1] # "pop"
  BY ONLY <1>1, <1>7, <1>11, <1>16, Frame(t) \notin Carried DEF h
<1>19. Moved(t, Tokens(Head(todo[t])), Has(ops), ToSet(ops))
  BY <1>1, <1>12, <1>17, <1>18, Local DEF h
<1>20. Moved(t, {}, {Frame(t)}, ToSet(ops))
  BY ONLY <1>2, <1>7, <1>11, <1>19 DEF Moved, h
<1>21. c \in ToSet(todo'[t])
  <2>1. todo' = [todo EXCEPT ![t] = ops \o Tail(todo[t])]
    BY ONLY <1>1 DEF Continue
  <2>2. ToSet(ops \o Tail(todo[t])) = ToSet(ops) \cup ToSet(Tail(todo[t]))
    BY <1>1, <1>2, <1>9, GoesOn
  <2> QED
    BY ONLY <1>2, <1>9, <2>1, <2>2, t \in Threads
<1>22. \A op \in ToSet(ops) : op[1] \in {"via", "subscribe", "sleep"}
  BY ONLY <1>5, <1>9
<1> QED
  BY ONLY <1>4, <1>20, <1>21, <1>22 DEF c

Combining(t, kind, inputs, p) ==
    /\ todo[t] # <<>> /\ Head(todo[t])[1] = kind /\ inputs = Arg(t, 2) /\ p = Arg(t, 3)
    /\ Continue(t, Subscriptions(inputs, [i \in DOMAIN inputs |-> <<kind, p, i>>]))

LEMMA Combines ==
    ASSUME NEW t, NEW kind, NEW inputs, NEW p, LinesInv, t \in Threads, kind \in {"all", "firstOf"},
           Combining(t, kind, inputs, p), tasks' = tasks, callback' = callback, \A k \in Carried : k[1] # kind
    PROVE  /\ p \in States /\ Len(inputs) \in Nat /\ DOMAIN inputs = 1 .. Len(inputs)
           /\ Promise(p) \in Carried /\ Combinator(kind) \in Carried
           /\ \E new : /\ Moved(t, {Promise(p), Combinator(kind)}, {<<kind, p, i>> : i \in 1 .. Len(inputs)}, new)
                       /\ \A op \in new : op[1] = "subscribe"
<1> DEFINE h == Head(todo[t])  n == Len(inputs)  back(i) == <<kind, p, i>>
           sub(i) == <<"subscribe", inputs[i], back(i)>>
           ops == Subscriptions(inputs, [i \in DOMAIN inputs |-> <<kind, p, i>>])
<1>0. todo[t] # <<>> /\ Continue(t, ops)
  BY DEF Combining
<1>1. IsOperation(h) /\ Tokens(h) \subseteq Carried
  BY <1>0, HeadIs
<1>2. h[1] = kind /\ h[2] = inputs /\ h[3] = p
  BY DEF Combining, Arg
<1> HIDE DEF h
<1>3. inputs \in Seq(States) /\ IsInjective(inputs) /\ p \in States
  BY ONLY <1>1, <1>2, kind \in {"all", "firstOf"} DEF IsOperation, IsScriptOperation
<1>4. n \in Nat /\ DOMAIN inputs = 1 .. n /\ \A i \in 1 .. n : inputs[i] \in States
  BY ONLY <1>3, LenProperties, ElementOfSeq
<1>5. \A i, j \in 1 .. n : inputs[i] = inputs[j] => i = j
  BY ONLY <1>3, <1>4 DEF IsInjective
<1>6. Tokens(h) = {Future(inputs[i]) : i \in 1 .. n} \cup {Promise(p), Combinator(kind)}
  BY ONLY <1>2, <1>4, TokensOf, kind \in {"all", "firstOf"}
<1>7. \A i : /\ back(i)[1] = kind /\ back(i)[2] = p /\ back(i)[3] = i
             /\ sub(i)[1] = "subscribe" /\ sub(i)[2] = inputs[i] /\ sub(i)[3] = back(i)
  OBVIOUS
<1>8. ops = [i \in 1 .. n |-> sub(i)]
  <2>1. \A i \in 1 .. n : [j \in 1 .. n |-> <<kind, p, j>>][i] = back(i)
    OBVIOUS
  <2>2. ops = [i \in 1 .. n |-> <<"subscribe", inputs[i], [j \in 1 .. n |-> <<kind, p, j>>][i]>>]
    BY ONLY <1>4 DEF Subscriptions
  <2> QED
    BY ONLY <2>1, <2>2
<1> HIDE DEF n, sub, back
<1>9. \A i : CallTokens(back(i)) = {<<kind, p, i>>} /\ Tokens(sub(i)) = {Future(inputs[i]), <<kind, p, i>>}
  BY ONLY <1>7, TokensOf, CallTokensOf, kind \in {"all", "firstOf"} DEF back
<1>10. \A i, j : Future(inputs[i]) # <<kind, p, j>>
  BY ONLY Kinds, kind \in {"all", "firstOf"}
<1>11. ASSUME NEW i \in 1 .. n PROVE IsOperation(sub(i)) /\ Single(sub(i))
  <2>1. IsCallback(back(i))
    BY ONLY <1>3, <1>4, <1>7, <1>11, kind \in {"all", "firstOf"} DEF IsCallback
  <2> QED
    BY ONLY <1>4, <1>7, <1>9, <1>10, <1>11, <2>1 DEF IsOperation, Single
<1>12. IsSeq(ops) /\ Len(ops) = n /\ ToSet(ops) = {sub(i) : i \in 1 .. n}
  <2> DEFINE S == {sub(i) : i \in 1 .. n}
  <2>1. ops \in [1 .. n -> S]
    BY ONLY <1>8
  <2> HIDE DEF S, ops
  <2>2. ops \in Seq(S) /\ Len(ops) = n
    BY ONLY <1>4, <2>1, FunctionIsSeq
  <2>3. IsSeq(ops) /\ ToSet(ops) = {ops[i] : i \in 1 .. Len(ops)}
    BY ONLY <2>2, Seqs
  <2>4. \A i \in 1 .. n : ops[i] = sub(i)
    BY ONLY <1>8
  <2> QED
    BY ONLY <2>2, <2>3, <2>4
<1>13. \A i \in 1 .. n : ops[i] = sub(i)
  BY ONLY <1>8
<1> HIDE DEF ops
<1>14. \A op \in ToSet(ops) : Single(op) /\ IsOperation(op) /\ op[1] = "subscribe"
  BY ONLY <1>7, <1>11, <1>12
<1>15. Fit(Head(todo[t]), ops) /\ \A op \in ToSet(ops) : op[1] # "pop"
  BY <1>12, <1>14, SinglesFit
<1>16. HeldOnce(ops)
  <2>1. ASSUME NEW i \in 1 .. n, NEW j \in 1 .. n, i # j PROVE Tokens(sub(i)) \cap Tokens(sub(j)) = {}
    <3>1. Future(inputs[i]) # Future(inputs[j])
      BY ONLY <1>5, <2>1, Kinds
    <3>2. <<kind, p, i>> # <<kind, p, j>>
      BY ONLY <2>1
    <3> QED
      BY ONLY <1>9, <1>10, <3>1, <3>2
  <2> QED
    BY ONLY <1>12, <1>13, <2>1 DEF HeldOnce
<1>17. Has(ops) = {Future(inputs[i]) : i \in 1 .. n} \cup {<<kind, p, i>> : i \in 1 .. n}
  <2>1. Has(ops) = UNION {Tokens(sub(i)) : i \in 1 .. n}
    BY ONLY <1>12, <1>13 DEF Has
  <2> QED
    BY ONLY <1>9, <2>1
<1>18. Has(ops) \cap Carried \subseteq Tokens(Head(todo[t]))
  <2>1. \A i : <<kind, p, i>>[1] = kind
    BY ONLY Kinds
  <2>2. \A i \in 1 .. n : <<kind, p, i>> \notin Carried
    BY ONLY <2>1, \A k \in Carried : k[1] # kind
  <2> QED
    BY ONLY <1>6, <1>17, <2>2 DEF h
<1>19. Head(todo[t])[1] # "pop" /\ \A op \in ToSet(ops) : IsOperation(op) /\ op[1] # "pop"
  BY ONLY <1>2, <1>14, kind \in {"all", "firstOf"} DEF h
<1>20. Continue(t, ops) /\ todo[t] # <<>>
  BY ONLY <1>0 DEF ops
<1>21. Moved(t, Tokens(Head(todo[t])), Has(ops), ToSet(ops))
  BY <1>15, <1>16, <1>18, <1>19, <1>20, Local
<1>22. \A i : Future(inputs[i]) # Promise(p) /\ Future(inputs[i]) # Combinator(kind)
  BY ONLY Kinds
<1>23. Moved(t, {Promise(p), Combinator(kind)}, {<<kind, p, i>> : i \in 1 .. n}, ToSet(ops))
  BY ONLY <1>1, <1>6, <1>17, <1>21, <1>22 DEF Moved, h
<1>24. Promise(p) \in Carried /\ Combinator(kind) \in Carried
  BY ONLY <1>1, <1>6
<1> QED
  BY ONLY <1>3, <1>4, <1>14, <1>23, <1>24 DEF n
-----------------------------------------------------------------------------
(* A combinator.  Of what is held, its inputs are the callbacks <<kind, p, i>>; *)
(* it has room for that many results, and closes with the first of a kind.   *)

Inputs(held, kind, p) == {k \in held : k[1] = kind /\ k[2] = p}
One(b) == IF b THEN 1 ELSE 0

Combination(held, times, kind, other, room, closed) ==
    /\ Combinator(kind) \in held => ~ closed /\ \A k \in held : k[1] # kind
    /\ \A p \in States : Inputs(held, kind, p) # {} =>
         /\ Promise(p) \notin held /\ Inputs(held, other, p) = {}
         /\ \A k \in held : k[1] = kind => k[2] = p
         /\ IsFiniteSet(Inputs(held, kind, p))
         /\ Cardinality(Inputs(held, kind, p)) + One(closed) <= room
         /\ ~ closed => times[p] = 0

LEMMA Fewer ==
    ASSUME NEW S, IsFiniteSet(S), NEW T, T \subseteq S, NEW b, NEW room \in Int, Cardinality(S) + One(b) <= room
    PROVE  IsFiniteSet(T) /\ Cardinality(T) + One(b) <= room
<1>1. IsFiniteSet(T) /\ Cardinality(T) <= Cardinality(S)
  BY FS_Subset
<1>2. Cardinality(T) \in Nat /\ Cardinality(S) \in Nat /\ One(b) \in Nat
  BY <1>1, FS_CardinalityType DEF One
<1> QED
  BY ONLY <1>1, <1>2, room \in Int, Cardinality(S) + One(b) <= room

\* Less is held, and no promise of the combinator's is fulfilled.
LEMMA CombinationKept ==
    ASSUME NEW held, NEW held2, NEW times, NEW times2, NEW kind, NEW other, NEW room, NEW closed,
           kind \in {"all", "firstOf"}, other \in {"all", "firstOf"}, room \in Int,
           Combination(held, times, kind, other, room, closed),
           \A j \in held2 : j[1] # "frame" => j \in held,
           \A q \in States : \/ times2[q] = times[q] \/ Promise(q) \in held
                             \/ Inputs(held, other, q) # {}
    PROVE  Combination(held2, times2, kind, other, room, closed)
<1>1. Combinator(kind) \in held => ~ closed /\ \A k \in held : k[1] # kind
  BY DEF Combination
<1>2. ASSUME NEW p \in States, Inputs(held2, kind, p) # {}
      PROVE  /\ Promise(p) \notin held2 /\ Inputs(held2, other, p) = {}
             /\ \A k \in held2 : k[1] = kind => k[2] = p
             /\ IsFiniteSet(Inputs(held2, kind, p))
             /\ Cardinality(Inputs(held2, kind, p)) + One(closed) <= room
             /\ ~ closed => times2[p] = 0
  <2>0. \A k \in held2 : k[1] # "frame" => k \in held
    OBVIOUS
  <2>1. Inputs(held2, kind, p) \subseteq Inputs(held, kind, p) /\ Inputs(held2, other, p) \subseteq Inputs(held, other, p)
    BY ONLY <2>0, kind \in {"all", "firstOf"}, other \in {"all", "firstOf"} DEF Inputs
  <2>2. Inputs(held, kind, p) # {}
    BY ONLY <1>2, <2>1
  <2>3. /\ Promise(p) \notin held /\ Inputs(held, other, p) = {}
        /\ \A k \in held : k[1] = kind => k[2] = p
        /\ IsFiniteSet(Inputs(held, kind, p))
        /\ Cardinality(Inputs(held, kind, p)) + One(closed) <= room
        /\ ~ closed => times[p] = 0
    BY <2>2 DEF Combination
  <2>4. IsFiniteSet(Inputs(held2, kind, p)) /\ Cardinality(Inputs(held2, kind, p)) + One(closed) <= room
    BY <2>1, <2>3, Fewer
  <2>7. times2[p] = times[p]
    BY ONLY <2>3, p \in States, \A q \in States : \/ times2[q] = times[q] \/ Promise(q) \in held
                                                  \/ Inputs(held, other, q) # {}
  <2>8. Promise(p) \notin held2
    BY ONLY <2>0, <2>3, Kinds
  <2>9. \A k \in held2 : k[1] = kind => k[2] = p
    BY ONLY <2>0, <2>3, kind \in {"all", "firstOf"}
  <2> QED
    BY ONLY <2>1, <2>3, <2>4, <2>7, <2>8, <2>9
<1>3. Combinator(kind) \in held2 => ~ closed /\ \A k \in held2 : k[1] # kind
  BY ONLY <1>1, Kinds, kind \in {"all", "firstOf"}, \A k \in held2 : k[1] # "frame" => k \in held
<1> QED
  BY ONLY <1>2, <1>3 DEF Combination

\* The inputs of a combinator are subscribed.
Marks(kind, p, n) == {<<kind, p, i>> : i \in 1 .. n}
Started(held, held2, kind, p, n) == held2 \subseteq (held \ {Promise(p), Combinator(kind)}) \cup Marks(kind, p, n)

LEMMA CombinationStarts ==
    ASSUME NEW held, NEW held2, NEW times, NEW kind, NEW other, NEW closed, NEW before, NEW p, NEW n,
           kind \in {"all", "firstOf"}, other \in {"all", "firstOf"}, kind # other, p \in States, n \in Nat,
           Combination(held, times, kind, other, before, closed), Inputs(held, other, p) = {},
           Combinator(kind) \in held, times[p] = 0, Started(held, held2, kind, p, n)
    PROVE  Combination(held2, times, kind, other, n, closed)
<1> DEFINE new == Marks(kind, p, n)
<1>1. \A k \in new : k[1] = kind /\ k[2] = p
  BY Kinds DEF Marks
<1>2. IsFiniteSet(new) /\ Cardinality(new) <= n
  <2> DEFINE token(i) == <<kind, p, i>>
  <2>1. IsFiniteSet(1 .. n) /\ Cardinality(1 .. n) = n
    BY FS_Interval
  <2>2. new = {token(i) : i \in 1 .. n}
    BY DEF Marks
  <2> DEFINE f == [i \in 1 .. n |-> token(i)]
  <2>3. f \in Surjection(1 .. n, new)
    BY <2>2 DEF Surjection
  <2> HIDE DEF f, new
  <2>4. IsFiniteSet(new) /\ Cardinality(new) <= Cardinality(1 .. n)
    BY ONLY <2>1, <2>3, FS_Surjection
  <2> QED
    BY ONLY <2>1, <2>4
<1> HIDE DEF new
<1>3. held2 \subseteq (held \ {Promise(p), Combinator(kind)}) \cup new
  BY DEF new, Started
<1>4. ~ closed /\ \A k \in held : k[1] # kind
  BY DEF Combination
<1>5. \A q : Promise(q)[1] \notin {"all", "firstOf"} /\ Combinator(q)[1] \notin {"all", "firstOf"}
  BY ONLY Kinds
<1>6. Promise(p) \notin held2 /\ Combinator(kind) \notin held2
  BY ONLY <1>1, <1>3, <1>5, kind \in {"all", "firstOf"}
<1>7. /\ Inputs(held2, kind, p) \subseteq new /\ Inputs(held2, other, p) \subseteq Inputs(held, other, p)
      /\ \A q \in States : q # p => Inputs(held2, kind, q) = {}
      /\ \A k \in held2 : k[1] = kind => k[2] = p
  BY ONLY <1>1, <1>3, <1>4, kind # other, p \in States DEF Inputs
<1>8. IsFiniteSet(Inputs(held2, kind, p)) /\ Cardinality(Inputs(held2, kind, p)) <= Cardinality(new)
  BY <1>2, <1>7, FS_Subset
<1>9. Cardinality(Inputs(held2, kind, p)) \in Nat /\ Cardinality(new) \in Nat /\ One(closed) = 0
  BY <1>2, <1>4, <1>8, FS_CardinalityType DEF One
<1>10. Cardinality(Inputs(held2, kind, p)) + One(closed) <= n
  BY ONLY <1>2, <1>8, <1>9, n \in Nat
<1> QED
  BY ONLY <1>6, <1>7, <1>8, <1>10, times[p] = 0, Inputs(held, other, p) = {} DEF Combination

\* The inputs of the other combinator stay as they were.
LEMMA CombinationElsewhere ==
    ASSUME NEW held, NEW held2, NEW times, NEW kind, NEW other, NEW elsewhere, NEW gone, NEW p, NEW n,
           kind \in {"all", "firstOf"}, other \in {"all", "firstOf"}, kind # other, p \in States,
           elsewhere \in Int, Combination(held, times, other, kind, elsewhere, gone),
           Promise(p) \in held, Started(held, held2, kind, p, n)
    PROVE  Combination(held2, times, other, kind, elsewhere, gone)
<1> DEFINE new == Marks(kind, p, n)
<1>1. \A k \in new : k[1] = kind /\ k[2] = p
  BY Kinds DEF Marks
<1> HIDE DEF new
<1>2. held2 \subseteq (held \ {Promise(p), Combinator(kind)}) \cup new
  BY DEF new, Started
<1>3. \A q : Promise(q)[1] \notin {"all", "firstOf"} /\ Combinator(q)[1] \notin {"all", "firstOf"}
  BY ONLY Kinds
<1>4. /\ \A q \in States : Inputs(held2, other, q) \subseteq Inputs(held, other, q)
      /\ \A q \in States : q # p => Inputs(held2, kind, q) \subseteq Inputs(held, kind, q)
  BY ONLY <1>1, <1>2, kind # other, p \in States DEF Inputs
<1>5. \A q \in States : Inputs(held, other, q) # {} =>
         /\ Promise(q) \notin held /\ Inputs(held, kind, q) = {}
         /\ \A k \in held : k[1] = other => k[2] = q
         /\ IsFiniteSet(Inputs(held, other, q))
         /\ Cardinality(Inputs(held, other, q)) + One(gone) <= elsewhere
         /\ ~ gone => times[q] = 0
  BY DEF Combination
<1>6. Inputs(held, other, p) = {}
  BY ONLY <1>5, p \in States, Promise(p) \in held
<1>7. Combinator(other) \in held2 => ~ gone /\ \A k \in held2 : k[1] # other
  <2>1. Combinator(other) \in held => ~ gone /\ \A k \in held : k[1] # other
    BY DEF Combination
  <2>2. Combinator(other) \notin new
    BY ONLY <1>1, <1>3, kind \in {"all", "firstOf"}
  <2> QED
    BY ONLY <1>1, <1>2, <2>1, <2>2, kind # other
<1>8. ASSUME NEW q \in States, Inputs(held2, other, q) # {}
      PROVE  /\ Promise(q) \notin held2 /\ Inputs(held2, kind, q) = {}
             /\ \A k \in held2 : k[1] = other => k[2] = q
             /\ IsFiniteSet(Inputs(held2, other, q))
             /\ Cardinality(Inputs(held2, other, q)) + One(gone) <= elsewhere
             /\ ~ gone => times[q] = 0
  <2>1. Inputs(held, other, q) # {} /\ q # p
    BY ONLY <1>4, <1>6, <1>8
  <2>2. Inputs(held2, kind, q) = {}
    BY ONLY <1>4, <1>5, <2>1, q \in States
  <2>3. Promise(q) \notin held2
    BY ONLY <1>1, <1>2, <1>3, <1>5, <2>1, kind \in {"all", "firstOf"}, q \in States
  <2>4. \A k \in held2 : k[1] = other => k[2] = q
    BY ONLY <1>1, <1>2, <1>5, <2>1, kind # other, q \in States
  <2>5. /\ IsFiniteSet(Inputs(held, other, q)) /\ Cardinality(Inputs(held, other, q)) + One(gone) <= elsewhere
        /\ Inputs(held2, other, q) \subseteq Inputs(held, other, q) /\ (~ gone => times[q] = 0)
    BY ONLY <1>4, <1>5, <2>1, q \in States
  <2>6. IsFiniteSet(Inputs(held2, other, q)) /\ Cardinality(Inputs(held2, other, q)) + One(gone) <= elsewhere
    BY <2>5, Fewer
  <2> QED
    BY ONLY <2>2, <2>3, <2>4, <2>5, <2>6
<1> QED
  BY ONLY <1>7, <1>8 DEF Combination

\* An input gives its result: there is room for one less, or the combinator is
\* closed.  Its promise is fulfilled only by the last result, or by the first
\* that closes it.
Advances(before, after, room, closed, room2, closed2) ==
    \/ room2 = room /\ closed2 /\ (after = before \/ ~ closed)
    \/ room2 = room - 1 /\ closed2 = closed /\ (after = before \/ room = 1)

LEMMA CombinationAdvances ==
    ASSUME NEW held, NEW held2, NEW times, NEW times2, NEW kind, NEW other, NEW room, NEW closed,
           NEW room2, NEW closed2, NEW k, NEW p,
           kind \in {"all", "firstOf"}, other \in {"all", "firstOf"}, room \in Int,
           Combination(held, times, kind, other, room, closed),
           p \in States, k \in Inputs(held, kind, p), held2 \subseteq held \ {k},
           Advances(times[p], times2[p], room, closed, room2, closed2),
           \A q \in States : q # p => times2[q] = times[q]
    PROVE  Combination(held2, times2, kind, other, room2, closed2)
<1>0. \/ room2 = room /\ closed2 /\ (times2[p] = times[p] \/ ~ closed)
      \/ room2 = room - 1 /\ closed2 = closed /\ (times2[p] = times[p] \/ room = 1)
  BY DEF Advances
<1>1. Inputs(held, kind, p) # {} /\ k \in held /\ k[1] = kind /\ k[2] = p
  BY DEF Inputs
<1>2. /\ Promise(p) \notin held /\ Inputs(held, other, p) = {}
      /\ \A j \in held : j[1] = kind => j[2] = p
      /\ IsFiniteSet(Inputs(held, kind, p))
      /\ Cardinality(Inputs(held, kind, p)) + One(closed) <= room
      /\ ~ closed => times[p] = 0
  BY <1>1 DEF Combination
<1> DEFINE S == Inputs(held, kind, p)  T == Inputs(held2, kind, p)
<1>3. IsFiniteSet(S \ {k}) /\ Cardinality(S \ {k}) = Cardinality(S) - 1
  BY <1>1, <1>2, FS_RemoveElement
<1>4. T \subseteq S \ {k}
  BY DEF Inputs
<1>5. IsFiniteSet(T) /\ Cardinality(T) <= Cardinality(S \ {k})
  BY <1>3, <1>4, FS_Subset
<1>6. /\ Cardinality(T) \in Nat /\ Cardinality(S \ {k}) \in Nat /\ Cardinality(S) \in Nat
      /\ One(closed) \in {0, 1} /\ One(closed2) \in {0, 1}
      /\ (closed => One(closed) = 1) /\ (closed2 = closed => One(closed2) = One(closed))
  BY <1>2, <1>3, <1>5, FS_CardinalityType DEF One
<1>7. T # {} => Cardinality(T) # 0
  BY <1>5, FS_EmptySet
<1> HIDE DEF S, T
<1>8. Cardinality(S) >= 1 /\ room >= 1 /\ (room = 1 => ~ closed)
  BY ONLY <1>2, <1>3, <1>6, room \in Int DEF S
<1>10. Cardinality(T) + One(closed2) <= room2
  BY ONLY <1>0, <1>2, <1>3, <1>5, <1>6, room \in Int DEF S
<1>11. ASSUME T # {}, ~ closed2 PROVE times2[p] = 0
  <2>1. room2 = room - 1 /\ closed2 = closed /\ (times2[p] = times[p] \/ room = 1)
    BY ONLY <1>0, <1>11
  <2>2. room2 # 0
    BY ONLY <1>6, <1>7, <1>10, <1>11, <2>1, room \in Int
  <2>3. room # 1
    BY ONLY <2>1, <2>2
  <2> QED
    BY ONLY <1>2, <1>11, <2>1, <2>3
<1>12. Combination(held2, times2, kind, other, room2, closed2)
  <2>1. Combinator(kind) \notin held2
    BY ONLY <1>1, Combination(held, times, kind, other, room, closed), held2 \subseteq held \ {k} DEF Combination
  <2>2. \A q \in States : Inputs(held2, kind, q) # {} => q = p
    BY ONLY <1>2, held2 \subseteq held \ {k} DEF Inputs
  <2>3. Promise(p) \notin held2 /\ Inputs(held2, other, p) = {} /\ \A j \in held2 : j[1] = kind => j[2] = p
    BY ONLY <1>2, held2 \subseteq held \ {k} DEF Inputs
  <2> QED
    BY ONLY <1>5, <1>10, <1>11, <2>1, <2>2, <2>3 DEF Combination, T
<1> QED
  BY ONLY <1>12

LEMMA CombinationGives ==
    ASSUME NEW held, NEW times, NEW kind, NEW other, NEW room, NEW closed,
           NEW after, NEW room2, NEW closed2, NEW k, NEW p,
           room \in Int, Combination(held, times, kind, other, room, closed),
           p \in States, k \in Inputs(held, kind, p),
           Advances(times[p], after, room, closed, room2, closed2)
    PROVE  (after # times[p] => times[p] = 0) /\ Promise(p) \notin held /\ room > 0
<1>0. \/ room2 = room /\ closed2 /\ (after = times[p] \/ ~ closed)
      \/ room2 = room - 1 /\ closed2 = closed /\ (after = times[p] \/ room = 1)
  BY DEF Advances
<1>1. Inputs(held, kind, p) # {}
  OBVIOUS
<1>2. /\ Promise(p) \notin held /\ IsFiniteSet(Inputs(held, kind, p))
      /\ Cardinality(Inputs(held, kind, p)) + One(closed) <= room
      /\ ~ closed => times[p] = 0
  BY <1>1 DEF Combination
<1> DEFINE S == Inputs(held, kind, p)
<1>3. Cardinality(S) \in Nat /\ Cardinality(S) # 0 /\ One(closed) \in {0, 1} /\ (closed => One(closed) = 1)
  BY <1>1, <1>2, FS_CardinalityType, FS_EmptySet DEF One
<1> HIDE DEF S
<1>4. room >= 1 /\ (room = 1 => ~ closed)
  BY ONLY <1>2, <1>3, room \in Int DEF S
<1> QED
  BY ONLY <1>0, <1>2, <1>4, room \in Int

-----------------------------------------------------------------------------
(* The inductive invariant: the shared states, and what is done once         *)

TypesInv ==
    /\ ready \in [States -> BOOLEAN] /\ callbackReady \in [States -> BOOLEAN]
    /\ executor \in [States -> Executors]
    /\ asleep \in [Threads -> States \cup {"sleeper", Null}]
    /\ finished \in Nat /\ errorsLeft \in Nat
    /\ {exited, nobodyIsReady} \subseteq BOOLEAN
    /\ sleeper \in [Clients -> 0 .. 1]
    /\ sets \in [States -> Nat]
    /\ DOMAIN result = States /\ IsSeq(answers)

\* The callback that is published is there, and its future has been used.
TakenInv == \A s \in States : callbackReady[s] => callback[s] # <<>> /\ Future(s) \notin Carried

\* A result stays until the callback takes it, or GetReadyResult.
HasResult(s) == result[s] # <<>> \/ (~ callbackReady[s] /\ Future(s) \notin Carried)
ResultInv == /\ \A s \in States : ready[s] => HasResult(s)
             /\ \A op \in Ops : op[1] \in {"ready", "try"} => HasResult(op[2])
PublishInv == \A op \in Ops : op[1] = "publish" => callback[op[2]] # <<>>

\* Somebody has still to look.
SomeoneLooks(s) == \E t \in Threads : <<"try", s>> \in ToSet(todo[t]) \/ <<"check", s>> \in ToSet(todo[t])
ForgetInv == \A s \in States : ready[s] /\ callbackReady[s] => SomeoneLooks(s)

StateInv == TakenInv /\ ResultInv /\ PublishInv /\ ForgetInv

\* The frame of GetResult is there while a callback may write to it.
GetInv == \A u \in Clients : Frame(u) \in Carried => <<"sleep">> \in ToSet(todo[u]) /\ sleeper[u] = 0

SetsInv == \A s \in States : sets[s] <= 1 /\ (Promise(s) \in Carried => sets[s] = 0)

AllInv == /\ Combination(Carried, sets, "all", "firstOf", Len(answers) - finished, exited)
          /\ finished <= Len(answers)
          /\ Combinator("all") \in Carried => finished = 0
FirstInv == Combination(Carried, sets, "firstOf", "all", errorsLeft, ~ nobodyIsReady)
OnceInv == SetsInv /\ AllInv /\ FirstInv

IInv == TypesInv /\ LinesInv /\ StateInv /\ GetInv /\ OnceInv

-----------------------------------------------------------------------------
(* What a step leaves as it was                                              *)

\* The operation op does not get lost.
Stays(op) == \A u \in Threads : op \in ToSet(todo[u]) => op \in ToSet(todo'[u])

LEMMA StaysUnlessHead ==
    ASSUME NEW t \in Threads, Keeps(t), NEW op, todo[t] = <<>> \/ Head(todo[t]) # op
    PROVE  Stays(op)
<1>1. ASSUME NEW u \in Threads, op \in ToSet(todo[u]) PROVE op \in ToSet(todo'[u])
  <2>1. op \in ToSet(todo'[u]) \/ (u = t /\ op = Head(todo[t]))
    BY ONLY <1>1, Keeps(t) DEF Keeps
  <2>2. todo[t] = <<>> => ToSet(todo[t]) = {}
    BY ONLY Literals
  <2> QED
    BY ONLY <1>1, <2>1, <2>2, todo[t] = <<>> \/ Head(todo[t]) # op
<1> QED
  BY ONLY <1>1 DEF Stays

LEMMA OpsHold == ASSUME LinesInv, NEW op \in Ops PROVE Tokens(op) \subseteq Carried
<1>1. Tidy(Belt)
  BY DEF LinesInv
<1>2. PICK x \in DOMAIN Belt : op \in ToSet(Belt[x])
  BY DEF Ops, In
<1>3. IsSeq(Belt[x]) /\ Has(Belt[x]) \subseteq Held(Belt)
  BY <1>1, LineIn
<1>4. ToSet(Belt[x]) = {Belt[x][i] : i \in 1 .. Len(Belt[x])}
  BY <1>3, SeqFacts
<1>5. PICK i \in 1 .. Len(Belt[x]) : op = Belt[x][i]
  BY ONLY <1>2, <1>4
<1>6. Tokens(op) \subseteq Has(Belt[x])
  BY ONLY <1>5 DEF Has
<1> QED
  BY ONLY <1>3, <1>6 DEF Carried

\* The shared state that an operation is about.
LEMMA StepTargets ==
    ASSUME LinesInv
    PROVE  \A op \in Ops : op[1] \in {"set", "ready", "try", "notify", "publish", "check", "subscribe"} =>
              op[2] \in States
<1>1. \A op \in Ops : IsOperation(op)
  BY DEF LinesInv
<1>2. <<"sleep">>[1] = "sleep" /\ <<"pop">>[1] = "pop"
  OBVIOUS
<1> QED
  BY ONLY <1>1, <1>2 DEF IsOperation, IsScriptOperation

LEMMA StateKept ==
    ASSUME LinesInv, StateInv, NEW t \in Threads, NEW gone, NEW made, NEW new, Moved(t, gone, made, new),
           result' = result, ready' = ready, callback' = callback, callbackReady' = callbackReady,
           \A s \in States : /\ Future(s) \notin made /\ Stays(<<"try", s>>) /\ Stays(<<"check", s>>),
           \A op \in new : op \in Ops \/ op[1] \notin {"ready", "try", "publish"}
    PROVE  StateInv'
<1>1. \A s \in States : Future(s) \in Carried' => Future(s) \in Carried
  BY ONLY Moved(t, gone, made, new), \A s \in States : Future(s) \notin made /\ Stays(<<"try", s>>) /\ Stays(<<"check", s>>) DEF Moved
<1>3. \A op \in Ops' : op[1] \in {"ready", "try", "publish"} => op \in Ops
  BY ONLY Moved(t, gone, made, new), \A op \in new : op \in Ops \/ op[1] \notin {"ready", "try", "publish"} DEF Moved
<1>2. \A op \in Ops : op[1] \in {"ready", "try", "publish"} => op[2] \in States
  BY StepTargets
<1>4. \A s \in States : SomeoneLooks(s) => SomeoneLooks(s)'
  <2>1. \A s \in States : Stays(<<"try", s>>) /\ Stays(<<"check", s>>)
    OBVIOUS
  <2> QED
    BY ONLY <2>1 DEF SomeoneLooks, Stays
<1>5. TakenInv'
  <2>1. \A s \in States : callbackReady[s] => callback[s] # <<>> /\ Future(s) \notin Carried
    BY DEF StateInv, TakenInv
  <2>2. \A s \in States : callbackReady'[s] => callback'[s] # <<>> /\ Future(s) \notin Carried'
    BY ONLY <1>1, <2>1, callback' = callback, callbackReady' = callbackReady
  <2> QED
    BY ONLY <2>2 DEF TakenInv
<1>6. ResultInv'
  <2>1. /\ \A s \in States : ready[s] => result[s] # <<>> \/ (~ callbackReady[s] /\ Future(s) \notin Carried)
        /\ \A op \in Ops : op[1] \in {"ready", "try"} =>
              result[op[2]] # <<>> \/ (~ callbackReady[op[2]] /\ Future(op[2]) \notin Carried)
    BY DEF StateInv, ResultInv, HasResult
  <2>2. \A s \in States : ready'[s] => result'[s] # <<>> \/ (~ callbackReady'[s] /\ Future(s) \notin Carried')
    BY ONLY <1>1, <2>1, result' = result, ready' = ready, callbackReady' = callbackReady
  <2>3. \A op \in Ops' : op[1] \in {"ready", "try"} =>
              result'[op[2]] # <<>> \/ (~ callbackReady'[op[2]] /\ Future(op[2]) \notin Carried')
    BY ONLY <1>1, <1>2, <1>3, <2>1, result' = result, ready' = ready, callbackReady' = callbackReady
  <2> QED
    BY ONLY <2>2, <2>3 DEF ResultInv, HasResult
<1>7. PublishInv'
  <2>1. \A op \in Ops : op[1] = "publish" => callback[op[2]] # <<>>
    BY DEF StateInv, PublishInv
  <2>2. \A op \in Ops' : op[1] = "publish" => callback'[op[2]] # <<>>
    BY ONLY <1>3, <2>1, callback' = callback
  <2> QED
    BY ONLY <2>2 DEF PublishInv
<1>8. ForgetInv'
  <2>1. \A s \in States : ready[s] /\ callbackReady[s] => SomeoneLooks(s)
    BY DEF StateInv, ForgetInv
  <2>2. \A s \in States : ready'[s] /\ callbackReady'[s] => SomeoneLooks(s)'
    BY ONLY <1>4, <2>1, ready' = ready, callbackReady' = callbackReady
  <2> QED
    BY ONLY <2>2 DEF ForgetInv
<1> QED
  BY ONLY <1>5, <1>6, <1>7, <1>8 DEF StateInv

LEMMA GetKept ==
    ASSUME GetInv, NEW t \in Threads, NEW gone, NEW made, NEW new, Moved(t, gone, made, new),
           sleeper' = sleeper, \A u \in Clients : Frame(u) \notin made, Stays(<<"sleep">>)
    PROVE  GetInv'
<1>1. \A u \in Clients : Frame(u) \in Carried' => Frame(u) \in Carried
  BY ONLY Moved(t, gone, made, new), \A u \in Clients : Frame(u) \notin made DEF Moved
<1>2. \A u \in Clients : Frame(u) \in Carried => <<"sleep">> \in ToSet(todo[u]) /\ sleeper[u] = 0
  BY DEF GetInv
<1>3. \A u \in Clients : u \in Threads
  BY DEF Threads
<1>4. \A u \in Clients : Frame(u) \in Carried' => <<"sleep">> \in ToSet(todo'[u]) /\ sleeper'[u] = 0
  BY ONLY <1>1, <1>2, <1>3, sleeper' = sleeper, Stays(<<"sleep">>) DEF Stays
<1> QED
  BY ONLY <1>4 DEF GetInv

\* Nothing is made but a frame, and only a promise that is held is fulfilled.
LEMMA OnceKept ==
    ASSUME OnceInv, TypesInv, \A k \in Carried' : k[1] # "frame" => k \in Carried,
           allVars' = allVars, firstVars' = firstVars,
           \/ sets' = sets
           \/ \E p \in States : /\ sets' = [sets EXCEPT ![p] = @ + 1]
                                /\ Promise(p) \in Carried /\ Promise(p) \notin Carried'
    PROVE  OnceInv'
<1>1. \A s \in States : sets[s] <= 1 /\ (Promise(s) \in Carried => sets[s] = 0)
  BY DEF OnceInv, SetsInv
<1>2. sets \in [States -> Nat] /\ errorsLeft \in Nat /\ IsSeq(answers) /\ finished \in Nat
  BY DEF TypesInv
<1>3. answers' = answers /\ finished' = finished /\ exited' = exited
      /\ errorsLeft' = errorsLeft /\ nobodyIsReady' = nobodyIsReady
  BY DEF allVars, firstVars
<1>4. \A s \in States : \/ sets'[s] = sets[s]
                        \/ Promise(s) \in Carried /\ Promise(s) \notin Carried' /\ sets'[s] = sets[s] + 1
  BY <1>2
<1>5. SetsInv'
  <2>1. \A s \in States : Promise(s) \in Carried' => Promise(s) \in Carried
    BY ONLY Kinds, \A k \in Carried' : k[1] # "frame" => k \in Carried
  <2>2. \A s \in States : sets'[s] <= 1 /\ (Promise(s) \in Carried' => sets'[s] = 0)
    BY ONLY <1>1, <1>4, <2>1
  <2> QED
    BY ONLY <2>2 DEF SetsInv
<1>6. Len(answers) - finished \in Int /\ errorsLeft \in Int
  BY <1>2, SeqFacts
<1>7. \A k \in Carried' : k[1] # "frame" => k \in Carried
  OBVIOUS
<1>8. \A s \in States : \/ sets'[s] = sets[s] \/ Promise(s) \in Carried \/ Inputs(Carried, "firstOf", s) # {}
  BY ONLY <1>4
<1>9. \A s \in States : \/ sets'[s] = sets[s] \/ Promise(s) \in Carried \/ Inputs(Carried, "all", s) # {}
  BY ONLY <1>4
<1>10. /\ Combination(Carried, sets, "all", "firstOf", Len(answers) - finished, exited)
       /\ Combination(Carried, sets, "firstOf", "all", errorsLeft, ~ nobodyIsReady)
       /\ finished <= Len(answers) /\ (Combinator("all") \in Carried => finished = 0)
  BY DEF OnceInv, AllInv, FirstInv
<1>11. Combination(Carried', sets', "all", "firstOf", Len(answers) - finished, exited)
  BY <1>6, <1>7, <1>8, <1>10, CombinationKept
<1>12. Combination(Carried', sets', "firstOf", "all", errorsLeft, ~ nobodyIsReady)
  <2> DEFINE shut == ~ nobodyIsReady
  <2>1. Combination(Carried, sets, "firstOf", "all", errorsLeft, shut)
    BY ONLY <1>10
  <2> HIDE DEF shut
  <2>2. Combination(Carried', sets', "firstOf", "all", errorsLeft, shut)
    BY <1>6, <1>7, <1>9, <2>1, CombinationKept
  <2> QED
    BY ONLY <2>2 DEF shut
<1>13. AllInv'
  BY ONLY <1>3, <1>7, <1>10, <1>11, Kinds DEF AllInv
<1>14. FirstInv'
  BY ONLY <1>3, <1>12 DEF FirstInv
<1> QED
  BY ONLY <1>5, <1>13, <1>14 DEF OnceInv
-----------------------------------------------------------------------------
(* Every action preserves the inductive invariant                            *)

LEMMA HeadStays ==
    ASSUME NEW t \in Threads, Keeps(t), todo[t] = <<>> \/ Head(todo[t])[1] \notin {"try", "check", "sleep"}
    PROVE  /\ \A s \in States : Stays(<<"try", s>>) /\ Stays(<<"check", s>>)
           /\ Stays(<<"sleep">>)
<1>1. \A s : <<"try", s>>[1] = "try" /\ <<"check", s>>[1] = "check" /\ <<"sleep">>[1] = "sleep"
  OBVIOUS
<1>2. ASSUME NEW s \in States PROVE Stays(<<"try", s>>) /\ Stays(<<"check", s>>)
  <2>1. todo[t] = <<>> \/ Head(todo[t]) # <<"try", s>>
    BY ONLY <1>1, todo[t] = <<>> \/ Head(todo[t])[1] \notin {"try", "check", "sleep"}
  <2>2. todo[t] = <<>> \/ Head(todo[t]) # <<"check", s>>
    BY ONLY <1>1, todo[t] = <<>> \/ Head(todo[t])[1] \notin {"try", "check", "sleep"}
  <2>3. Stays(<<"try", s>>)
    BY <2>1, StaysUnlessHead
  <2>4. Stays(<<"check", s>>)
    BY <2>2, StaysUnlessHead
  <2> QED
    BY ONLY <2>3, <2>4
<1>3. todo[t] = <<>> \/ Head(todo[t]) # <<"sleep">>
  BY ONLY <1>1, todo[t] = <<>> \/ Head(todo[t])[1] \notin {"try", "check", "sleep"}
<1>4. Stays(<<"sleep">>)
  BY <1>3, StaysUnlessHead
<1> QED
  BY ONLY <1>2, <1>4

\* A step that neither touches a shared state nor makes a token.
LEMMA Plain ==
    ASSUME IInv, NEW t \in Threads, NEW gone, NEW new, Moved(t, gone, {}, new), TypesInv',
           UNCHANGED <<resultVars, callbackVars, allVars, firstVars, sleeper>>,
           \A s \in States : Stays(<<"try", s>>) /\ Stays(<<"check", s>>), Stays(<<"sleep">>),
           \A op \in new : op \in Ops \/ op[1] \notin {"ready", "try", "publish"},
           \/ sets' = sets
           \/ \E p \in States : /\ sets' = [sets EXCEPT ![p] = @ + 1]
                                /\ Promise(p) \in Carried /\ Promise(p) \in gone
    PROVE  IInv'
<1>1. result' = result /\ ready' = ready /\ callback' = callback /\ callbackReady' = callbackReady
      /\ allVars' = allVars /\ firstVars' = firstVars /\ sleeper' = sleeper
  BY DEF resultVars, callbackVars
<1>2. TypesInv /\ LinesInv /\ StateInv /\ GetInv /\ OnceInv
  BY DEF IInv
<1>3. \A s \in States : Future(s) \notin {} /\ Stays(<<"try", s>>) /\ Stays(<<"check", s>>)
  OBVIOUS
<1>4. StateInv'
  BY <1>1, <1>2, <1>3, StateKept
<1>5. \A u \in Clients : Frame(u) \notin {}
  OBVIOUS
<1>6. GetInv'
  BY <1>1, <1>2, <1>5, GetKept
<1>7. Carried' \subseteq Carried /\ Carried' \cap gone = {} /\ LinesInv'
  BY ONLY Moved(t, gone, {}, new) DEF Moved
<1>8. \/ sets' = sets
      \/ \E p \in States : /\ sets' = [sets EXCEPT ![p] = @ + 1]
                           /\ Promise(p) \in Carried /\ Promise(p) \notin Carried'
  BY ONLY <1>7, \/ sets' = sets
                \/ \E p \in States : /\ sets' = [sets EXCEPT ![p] = @ + 1]
                                     /\ Promise(p) \in Carried /\ Promise(p) \in gone
<1>a. \A k \in Carried' : k[1] # "frame" => k \in Carried
  BY ONLY <1>7
<1>9. OnceInv'
  BY <1>1, <1>2, <1>a, <1>8, OnceKept
<1> QED
  BY ONLY <1>4, <1>6, <1>7, <1>9, TypesInv' DEF IInv

\* A step of a thread that has only an operation less to do.
LEMMA PlainDone ==
    ASSUME IInv, NEW t \in Threads, todo[t] # <<>>, Continue(t, <<>>), tasks' = tasks, TypesInv',
           Head(todo[t])[1] \notin {"try", "check", "sleep", "pop"},
           UNCHANGED <<resultVars, callbackVars, allVars, firstVars, sleeper, sets>>
    PROVE  IInv'
<1>1. LinesInv /\ callback' = callback
  BY DEF IInv, callbackVars
<1>2. Moved(t, {}, {}, {})
  BY <1>1, Finishes
<1>3. Keeps(t)
  BY ONLY <1>2 DEF Moved
<1>4. /\ \A s \in States : Stays(<<"try", s>>) /\ Stays(<<"check", s>>)
      /\ Stays(<<"sleep">>)
  BY <1>3, HeadStays
<1>5. UNCHANGED <<resultVars, callbackVars, allVars, firstVars, sleeper>> /\ sets' = sets
  OBVIOUS
<1> QED
  BY <1>2, <1>4, <1>5, Plain

LEMMA PlainIdle ==
    ASSUME IInv, NEW t \in Threads, todo' = todo, tasks' = tasks, TypesInv',
           UNCHANGED <<resultVars, callbackVars, allVars, firstVars, sleeper, sets>>
    PROVE  IInv'
<1>1. LinesInv /\ callback' = callback
  BY DEF IInv, callbackVars
<1>2. Moved(t, {}, {}, {})
  BY <1>1, Idle
<1>3. /\ \A s \in States : Stays(<<"try", s>>) /\ Stays(<<"check", s>>)
      /\ Stays(<<"sleep">>)
  BY DEF Stays
<1>4. UNCHANGED <<resultVars, callbackVars, allVars, firstVars, sleeper>> /\ sets' = sets
  OBVIOUS
<1> QED
  BY <1>2, <1>3, <1>4, Plain

\* A step of a thread that fulfils a promise.
LEMMA PlainFulfil ==
    ASSUME IInv, NEW t \in Threads, todo[t] # <<>>, Head(todo[t])[1] \in {"produce", "call", "all"},
           NEW p \in States, NEW r, Fulfil(t, p, r, <<>>), Promise(p) \in Tokens(Head(todo[t])), tasks' = tasks,
           UNCHANGED <<stateVars, asleep, allVars, firstVars, sleeper>>
    PROVE  IInv'
<1>1. LinesInv /\ callback' = callback /\ TypesInv
  BY DEF IInv, stateVars, callbackVars
<1>2. Moved(t, Tokens(Head(todo[t])), {}, {<<"set", p, r>>}) /\ Promise(p) \in Carried
  BY <1>1, Fulfils, HeadIs
<1>3. Keeps(t)
  BY ONLY <1>2 DEF Moved
<1>4. /\ \A s \in States : Stays(<<"try", s>>) /\ Stays(<<"check", s>>)
      /\ Stays(<<"sleep">>)
  BY <1>3, HeadStays
<1>5. sets' = [sets EXCEPT ![p] = @ + 1]
  BY DEF Fulfil
<1>6. TypesInv'
  BY <1>1, <1>5 DEF TypesInv, stateVars, resultVars, callbackVars, allVars, firstVars
<1>7. UNCHANGED <<resultVars, callbackVars, allVars, firstVars, sleeper>>
  BY DEF stateVars
<1>8. \A op \in {<<"set", p, r>>} : op \in Ops \/ op[1] \notin {"ready", "try", "publish"}
  OBVIOUS
<1>9. \E q \in States : /\ sets' = [sets EXCEPT ![q] = @ + 1]
                        /\ Promise(q) \in Carried /\ Promise(q) \in Tokens(Head(todo[t]))
  BY ONLY <1>2, <1>5, p \in States, Promise(p) \in Tokens(Head(todo[t]))
<1>10. PICK gone, new : gone = Tokens(Head(todo[t])) /\ new = {<<"set", p, r>>}
  OBVIOUS
<1>11. /\ Moved(t, gone, {}, new)
       /\ \A op \in new : op \in Ops \/ op[1] \notin {"ready", "try", "publish"}
       /\ \E q \in States : /\ sets' = [sets EXCEPT ![q] = @ + 1]
                            /\ Promise(q) \in Carried /\ Promise(q) \in gone
  BY ONLY <1>2, <1>8, <1>9, <1>10
<1>12. IInv /\ t \in Threads
  OBVIOUS
<1> QED
  BY ONLY <1>4, <1>6, <1>7, <1>11, <1>12, Plain

\* A step whose operation gives way to others that touch nothing.
LEMMA PlainMore ==
    ASSUME IInv, NEW t \in Threads, todo[t] # <<>>, Head(todo[t])[1] \notin {"try", "check", "sleep"},
           NEW new, Moved(t, {}, {}, new), TypesInv',
           \A op \in new : op \in Ops \/ op[1] \notin {"ready", "try", "publish"},
           UNCHANGED <<resultVars, callbackVars, allVars, firstVars, sleeper, sets>>
    PROVE  IInv'
<1>1. Keeps(t)
  BY ONLY Moved(t, {}, {}, new) DEF Moved
<1>2. /\ \A s \in States : Stays(<<"try", s>>) /\ Stays(<<"check", s>>)
      /\ Stays(<<"sleep">>)
  BY <1>1, HeadStays
<1>3. UNCHANGED <<resultVars, callbackVars, allVars, firstVars, sleeper>> /\ sets' = sets
  OBVIOUS
<1> QED
  BY <1>2, <1>3, Plain

\* What a shared state's step leaves alone.
LEMMA FutureVars ==
    ASSUME IInv, NEW t \in Threads, NEW gone, NEW new, Moved(t, gone, {}, new),
           todo[t] = <<>> \/ Head(todo[t])[1] # "sleep",
           UNCHANGED <<allVars, firstVars, sleeper, sets>>
    PROVE  GetInv' /\ OnceInv' /\ LinesInv'
<1>1. allVars' = allVars /\ firstVars' = firstVars /\ sleeper' = sleeper /\ sets' = sets
  OBVIOUS
<1>2. TypesInv /\ LinesInv /\ StateInv /\ GetInv /\ OnceInv
  BY DEF IInv
<1>3. Carried' \subseteq Carried /\ LinesInv' /\ Keeps(t)
  BY ONLY Moved(t, gone, {}, new) DEF Moved
<1>4. todo[t] = <<>> \/ Head(todo[t]) # <<"sleep">>
  <2>1. <<"sleep">>[1] = "sleep"
    OBVIOUS
  <2> QED
    BY ONLY <2>1, todo[t] = <<>> \/ Head(todo[t])[1] # "sleep"
<1>5. Stays(<<"sleep">>)
  BY <1>3, <1>4, StaysUnlessHead
<1>6. \A u \in Clients : Frame(u) \notin {}
  OBVIOUS
<1>7. GetInv'
  BY <1>1, <1>2, <1>5, <1>6, GetKept
<1>a. \A k \in Carried' : k[1] # "frame" => k \in Carried
  BY ONLY <1>3
<1>8. OnceInv'
  BY <1>1, <1>2, <1>a, OnceKept
<1> QED
  BY ONLY <1>3, <1>7, <1>8
-----------------------------------------------------------------------------
(* The steps of a shared state                                               *)

LEMMA StateIs ==
    ASSUME StateInv
    PROVE  /\ \A q \in States : callbackReady[q] => callback[q] # <<>> /\ Future(q) \notin Carried
           /\ \A q \in States : ready[q] => result[q] # <<>> \/ (~ callbackReady[q] /\ Future(q) \notin Carried)
           /\ \A op \in Ops : op[1] \in {"ready", "try"} =>
                 result[op[2]] # <<>> \/ (~ callbackReady[op[2]] /\ Future(op[2]) \notin Carried)
           /\ \A op \in Ops : op[1] = "publish" => callback[op[2]] # <<>>
           /\ \A q \in States : ready[q] /\ callbackReady[q] => SomeoneLooks(q)
  BY DEF StateInv, TakenInv, ResultInv, HasResult, PublishInv, ForgetInv

LEMMA StateNext ==
    ASSUME \A q \in States : callbackReady'[q] => callback'[q] # <<>> /\ Future(q) \notin Carried',
           \A q \in States : ready'[q] => result'[q] # <<>> \/ (~ callbackReady'[q] /\ Future(q) \notin Carried'),
           \A op \in Ops' : op[1] \in {"ready", "try"} =>
              result'[op[2]] # <<>> \/ (~ callbackReady'[op[2]] /\ Future(op[2]) \notin Carried'),
           \A op \in Ops' : op[1] = "publish" => callback'[op[2]] # <<>>,
           \A q \in States : ready'[q] /\ callbackReady'[q] => SomeoneLooks(q)'
    PROVE  StateInv'
  BY DEF StateInv, TakenInv, ResultInv, HasResult, PublishInv, ForgetInv

LEMMA LooksOn ==
    ASSUME \A s \in States : Stays(<<"try", s>>) /\ Stays(<<"check", s>>)
    PROVE  \A s \in States : SomeoneLooks(s) => SomeoneLooks(s)'
  BY DEF SomeoneLooks, Stays

\* What follows an operation in its line.
LEMMA SecondStays ==
    ASSUME LinesInv, NEW t \in Threads, todo[t] # <<>>, Keeps(t)
    PROVE  LET h == Head(todo[t])
           IN  /\ h[1] = "ready" => <<"try", h[2]>> \in ToSet(todo'[t])
               /\ h[1] = "publish" => <<"check", h[2]>> \in ToSet(todo'[t])
<1> DEFINE h == Head(todo[t])  q == todo[t]
<1>1. IsSeq(q) /\ Paired(q)
  BY DEF LinesInv, ThreadsInv
<1>2. /\ Len(q) \in Nat \ {0} /\ 1 \in 1 .. Len(q) /\ h = q[1]
      /\ \A i \in 1 .. Len(q) : q[i] \in ToSet(q)
  BY <1>1, HeadFacts, SeqFacts
<1>3. /\ h[1] = "ready" => 1 + 1 \in 1 .. Len(q) /\ q[1 + 1] = <<"try", h[2]>>
      /\ h[1] = "publish" => 1 + 1 \in 1 .. Len(q) /\ q[1 + 1] = <<"check", h[2]>>
  BY ONLY <1>1, <1>2 DEF Paired
<1>4. <<"try", h[2]>>[1] = "try" /\ <<"check", h[2]>>[1] = "check"
  OBVIOUS
<1>5. /\ h[1] = "ready" => <<"try", h[2]>> \in ToSet(q) /\ <<"try", h[2]>> # h
      /\ h[1] = "publish" => <<"check", h[2]>> \in ToSet(q) /\ <<"check", h[2]>> # h
  BY ONLY <1>2, <1>3, <1>4
<1> HIDE DEF h
<1>6. \A op \in ToSet(q) : op # h => op \in ToSet(todo'[t])
  BY ONLY t \in Threads, Keeps(t) DEF Keeps, h
<1>7. /\ h[1] = "ready" => <<"try", h[2]>> \in ToSet(todo'[t])
      /\ h[1] = "publish" => <<"check", h[2]>> \in ToSet(todo'[t])
  BY ONLY <1>5, <1>6
<1> QED
  BY ONLY <1>7 DEF h

LEMMA StoreResultStep == ASSUME IInv, NEW t \in Threads, StoreResult(t), UNCHANGED futureVars PROVE IInv'
<1> DEFINE h == Head(todo[t])  s == h[2]
<1>1. /\ todo[t] # <<>> /\ h[1] = "set" /\ result' = [result EXCEPT ![s] = <<h[3]>>]
      /\ ready' = ready /\ callback' = callback /\ callbackReady' = callbackReady
      /\ executor' = executor /\ asleep' = asleep
  BY DEF StoreResult, Doing, Arg, callbackVars
<1>2. LinesInv /\ StateInv /\ TypesInv
  BY DEF IInv
<1>3. s \in States /\ Moved(t, {}, {}, {<<"ready", s>>, <<"try", s>>, <<"notify", s>>})
  BY <1>2, StoresResult
<1>4. UNCHANGED <<allVars, firstVars, sleeper, sets>>
  BY DEF futureVars, getVars
<1>5. todo[t] = <<>> \/ Head(todo[t])[1] # "sleep"
  BY <1>1
<1>6. GetInv' /\ OnceInv' /\ LinesInv'
  BY <1>3, <1>4, <1>5, FutureVars
<1>7. TypesInv'
  BY <1>1, <1>2, <1>4 DEF TypesInv, allVars, firstVars
<1>8. Carried' \subseteq Carried /\ Keeps(t)
      /\ \A op \in Ops' : op \in Ops \/ op \in {<<"ready", s>>, <<"try", s>>, <<"notify", s>>}
  BY ONLY <1>3 DEF Moved
<1>9. todo[t] = <<>> \/ Head(todo[t])[1] \notin {"try", "check", "sleep"}
  BY <1>1
<1>10. \A q \in States : Stays(<<"try", q>>) /\ Stays(<<"check", q>>)
  BY <1>8, <1>9, HeadStays
<1>11. \A q \in States : SomeoneLooks(q) => SomeoneLooks(q)'
  BY <1>10, LooksOn
<1>12. /\ \A q \in States : callbackReady[q] => callback[q] # <<>> /\ Future(q) \notin Carried
       /\ \A q \in States : ready[q] => result[q] # <<>> \/ (~ callbackReady[q] /\ Future(q) \notin Carried)
       /\ \A op \in Ops : op[1] \in {"ready", "try"} =>
             result[op[2]] # <<>> \/ (~ callbackReady[op[2]] /\ Future(op[2]) \notin Carried)
       /\ \A op \in Ops : op[1] = "publish" => callback[op[2]] # <<>>
       /\ \A q \in States : ready[q] /\ callbackReady[q] => SomeoneLooks(q)
  BY <1>2, StateIs
<1>13. DOMAIN result = States
  BY <1>2 DEF TypesInv
<1>14. \A op \in Ops : op[1] \in {"ready", "try"} => op[2] \in States
  BY <1>2, StepTargets
<1> HIDE DEF h, s
<1>15. <<"ready", s>>[2] = s /\ <<"try", s>>[2] = s /\ <<"notify", s>>[1] = "notify"
       /\ <<"ready", s>>[1] = "ready" /\ <<"try", s>>[1] = "try"
  OBVIOUS
<1>16. <<h[3]>> # <<>>
  OBVIOUS
<1>17. \A q \in States : result'[q] = (IF q = s THEN <<h[3]>> ELSE result[q])
  BY ONLY <1>1, <1>13
<1>18. \A q \in States : callbackReady'[q] => callback'[q] # <<>> /\ Future(q) \notin Carried'
  BY ONLY <1>1, <1>8, <1>12
<1>19. \A q \in States : ready'[q] => result'[q] # <<>> \/ (~ callbackReady'[q] /\ Future(q) \notin Carried')
  BY ONLY <1>1, <1>8, <1>12, <1>16, <1>17
<1>20. \A op \in Ops' : op[1] \in {"ready", "try"} =>
           result'[op[2]] # <<>> \/ (~ callbackReady'[op[2]] /\ Future(op[2]) \notin Carried')
  <2>1. \A op \in Ops' : op[1] \in {"ready", "try"} => op \in Ops \/ op[2] = s
    BY ONLY <1>8, <1>15
  <2> QED
    BY ONLY <1>1, <1>3, <1>8, <1>12, <1>14, <1>16, <1>17, <2>1
<1>21. \A op \in Ops' : op[1] = "publish" => callback'[op[2]] # <<>>
  BY ONLY <1>1, <1>8, <1>12, <1>15
<1>22. \A q \in States : ready'[q] /\ callbackReady'[q] => SomeoneLooks(q)'
  BY ONLY <1>1, <1>11, <1>12
<1>23. StateInv'
  BY <1>18, <1>19, <1>20, <1>21, <1>22, StateNext
<1> QED
  BY ONLY <1>6, <1>7, <1>23 DEF IInv

LEMMA StoreReadyStep == ASSUME IInv, NEW t \in Threads, StoreReady(t), UNCHANGED futureVars PROVE IInv'
<1> DEFINE h == Head(todo[t])
<1>0. PICK s : s = h[2]
  OBVIOUS
<1>1. /\ todo[t] # <<>> /\ h[1] = "ready" /\ ready' = [ready EXCEPT ![s] = TRUE] /\ Continue(t, <<>>)
      /\ result' = result /\ callback' = callback /\ callbackReady' = callbackReady
      /\ executor' = executor /\ asleep' = asleep /\ tasks' = tasks
  BY <1>0 DEF StoreReady, Doing, Arg, callbackVars
<1>2. LinesInv /\ StateInv /\ TypesInv
  BY DEF IInv
<1>3. Moved(t, {}, {}, {})
  BY <1>1, <1>2, Finishes
<1>4. UNCHANGED <<allVars, firstVars, sleeper, sets>>
  BY DEF futureVars, getVars
<1>5. todo[t] = <<>> \/ Head(todo[t])[1] # "sleep"
  BY <1>1
<1>6. GetInv' /\ OnceInv' /\ LinesInv'
  BY <1>3, <1>4, <1>5, FutureVars
<1>7. h \in Ops
  BY <1>1, <1>2, HeadIs
<1>8. s \in States
  BY <1>0, <1>1, <1>2, <1>7, StepTargets
<1>9. TypesInv'
  BY <1>1, <1>2, <1>4, <1>8 DEF TypesInv, allVars, firstVars
<1>10. Carried' \subseteq Carried /\ Keeps(t) /\ Ops' \subseteq Ops
  BY ONLY <1>3 DEF Moved
<1>11. todo[t] = <<>> \/ Head(todo[t])[1] \notin {"try", "check", "sleep"}
  BY <1>1
<1>12. \A q \in States : Stays(<<"try", q>>) /\ Stays(<<"check", q>>)
  BY <1>10, <1>11, HeadStays
<1>13. \A q \in States : SomeoneLooks(q) => SomeoneLooks(q)'
  BY <1>12, LooksOn
<1>14. SomeoneLooks(s)'
  <2>1. <<"try", s>> \in ToSet(todo'[t])
    BY <1>0, <1>1, <1>2, <1>10, SecondStays
  <2> QED
    BY ONLY <2>1, t \in Threads DEF SomeoneLooks
<1>15. /\ \A q \in States : callbackReady[q] => callback[q] # <<>> /\ Future(q) \notin Carried
       /\ \A q \in States : ready[q] => result[q] # <<>> \/ (~ callbackReady[q] /\ Future(q) \notin Carried)
       /\ \A op \in Ops : op[1] \in {"ready", "try"} =>
             result[op[2]] # <<>> \/ (~ callbackReady[op[2]] /\ Future(op[2]) \notin Carried)
       /\ \A op \in Ops : op[1] = "publish" => callback[op[2]] # <<>>
       /\ \A q \in States : ready[q] /\ callbackReady[q] => SomeoneLooks(q)
  BY <1>2, StateIs
<1>16. DOMAIN ready = States
  BY <1>2 DEF TypesInv
<1>17. \A op \in Ops : op[1] \in {"ready", "try"} => op[2] \in States
  BY <1>2, StepTargets
<1> HIDE DEF h
<1>18. \A q \in States : q # s => ready'[q] = ready[q]
  BY ONLY <1>1, <1>16
<1>19. result[s] # <<>> \/ (~ callbackReady[s] /\ Future(s) \notin Carried)
  BY ONLY <1>0, <1>1, <1>7, <1>15
<1>20. \A q \in States : callbackReady'[q] => callback'[q] # <<>> /\ Future(q) \notin Carried'
  BY ONLY <1>1, <1>10, <1>15
<1>21. \A q \in States : ready'[q] => result'[q] # <<>> \/ (~ callbackReady'[q] /\ Future(q) \notin Carried')
  BY ONLY <1>1, <1>10, <1>15, <1>18, <1>19
<1>22. \A op \in Ops' : op[1] \in {"ready", "try"} =>
           result'[op[2]] # <<>> \/ (~ callbackReady'[op[2]] /\ Future(op[2]) \notin Carried')
  BY ONLY <1>1, <1>10, <1>15, <1>17
<1>23. \A op \in Ops' : op[1] = "publish" => callback'[op[2]] # <<>>
  BY ONLY <1>1, <1>10, <1>15
<1>24. \A q \in States : ready'[q] /\ callbackReady'[q] => SomeoneLooks(q)'
  <2>1. ASSUME NEW q \in States, ready'[q], callbackReady'[q] PROVE SomeoneLooks(q)'
    <3>1. CASE q = s
      BY ONLY <1>14, <3>1
    <3>2. CASE q # s
      BY ONLY <1>1, <1>13, <1>15, <1>18, <2>1, <3>2
    <3> QED
      BY ONLY <3>1, <3>2
  <2> QED
    BY ONLY <2>1
<1>25. StateInv'
  BY <1>20, <1>21, <1>22, <1>23, <1>24, StateNext
<1> QED
  BY ONLY <1>6, <1>9, <1>25 DEF IInv

LEMMA TryStays ==
    ASSUME NEW t \in Threads, Keeps(t), Head(todo[t])[1] \in {"try", "check"}
    PROVE  \A q \in States : q # Head(todo[t])[2] /\ SomeoneLooks(q) => SomeoneLooks(q)'
<1>1. ASSUME NEW q \in States, q # Head(todo[t])[2] PROVE Stays(<<"try", q>>) /\ Stays(<<"check", q>>)
  <2>1. <<"try", q>>[2] = q /\ <<"check", q>>[2] = q
    OBVIOUS
  <2>2. Head(todo[t]) # <<"try", q>> /\ Head(todo[t]) # <<"check", q>>
    BY ONLY <1>1, <2>1
  <2>3. Stays(<<"try", q>>)
    BY <2>2, StaysUnlessHead
  <2>4. Stays(<<"check", q>>)
    BY <2>2, StaysUnlessHead
  <2> QED
    BY ONLY <2>3, <2>4
<1> QED
  BY ONLY <1>1 DEF SomeoneLooks, Stays

LEMMA TryCallbackStep == ASSUME IInv, NEW t \in Threads, TryCallback(t), UNCHANGED futureVars PROVE IInv'
<1> DEFINE h == Head(todo[t])
<1>0. PICK s : s = h[2]
  OBVIOUS
<1>1. /\ todo[t] # <<>> /\ h[1] = "try" /\ ready' = ready /\ executor' = executor /\ asleep' = asleep
      /\ s = Arg(t, 2)
  BY <1>0 DEF TryCallback, Doing, Arg
<1>2. LinesInv /\ StateInv /\ TypesInv
  BY DEF IInv
<1>3. UNCHANGED <<allVars, firstVars, sleeper, sets>>
  BY DEF futureVars, getVars
<1>4. todo[t] = <<>> \/ Head(todo[t])[1] # "sleep"
  BY <1>1
<1>5. h \in Ops
  BY <1>1, <1>2, HeadIs
<1>6. s \in States
  BY <1>0, <1>1, <1>2, <1>5, StepTargets
<1>7. /\ \A q \in States : callbackReady[q] => callback[q] # <<>> /\ Future(q) \notin Carried
      /\ \A q \in States : ready[q] => result[q] # <<>> \/ (~ callbackReady[q] /\ Future(q) \notin Carried)
      /\ \A op \in Ops : op[1] \in {"ready", "try"} =>
            result[op[2]] # <<>> \/ (~ callbackReady[op[2]] /\ Future(op[2]) \notin Carried)
      /\ \A op \in Ops : op[1] = "publish" => callback[op[2]] # <<>>
      /\ \A q \in States : ready[q] /\ callbackReady[q] => SomeoneLooks(q)
  BY <1>2, StateIs
<1>8. \A op \in Ops : op[1] \in {"ready", "try", "publish"} => op[2] \in States
  BY <1>2, StepTargets
<1>9. CASE callbackReady[s]
  <2>1. /\ callbackReady' = [callbackReady EXCEPT ![s] = FALSE]
        /\ callback' = [callback EXCEPT ![s] = <<>>] /\ result' = [result EXCEPT ![s] = <<>>]
    BY <1>1, <1>9 DEF TryCallback
  <2>2. callback[s] # <<>> /\ Future(s) \notin Carried
    BY ONLY <1>6, <1>7, <1>9
  <2>3. executor \in [States -> Executors]
    BY <1>2 DEF TypesInv
  <2>4. PICK c : Moved(t, {}, {}, {<<"call", c[1], c[2]>>})
    <3>1. Moved(t, {}, {}, {<<"call", callback[s][1], result[s][1]>>})
      BY <1>1, <1>2, <1>9, <2>2, <2>3, TakesCallback
    <3>2. \A a, b : <<a, b>>[1] = a /\ <<a, b>>[2] = b
      OBVIOUS
    <3>3. <<"call", <<callback[s][1], result[s][1]>>[1], <<callback[s][1], result[s][1]>>[2]>>
             = <<"call", callback[s][1], result[s][1]>>
      BY ONLY <3>2
    <3> QED
      BY ONLY <3>1, <3>3
  <2>5. GetInv' /\ OnceInv' /\ LinesInv'
    BY <1>3, <1>4, <2>4, FutureVars
  <2>6. TypesInv'
    BY <1>1, <1>2, <1>3, <1>6, <2>1 DEF TypesInv, allVars, firstVars
  <2>7. /\ Carried' \subseteq Carried /\ Keeps(t)
        /\ \A op \in Ops' : op[1] \in {"ready", "try", "publish"} => op \in Ops
    <3>1. <<"call", c[1], c[2]>>[1] = "call"
      OBVIOUS
    <3> QED
      BY ONLY <2>4, <3>1 DEF Moved
  <2>8. \A q \in States : q # s /\ SomeoneLooks(q) => SomeoneLooks(q)'
    BY <1>0, <1>1, <2>7, TryStays
  <2>9. /\ DOMAIN callbackReady = States /\ DOMAIN result = States /\ DOMAIN callback = States
    BY <1>2 DEF TypesInv, LinesInv
  <2>10. /\ ~ callbackReady'[s] /\ Future(s) \notin Carried'
         /\ \A q \in States : q # s => /\ callbackReady'[q] = callbackReady[q] /\ callback'[q] = callback[q]
                                       /\ result'[q] = result[q]
    BY ONLY <1>6, <2>1, <2>2, <2>7, <2>9
  <2>11. \A op \in Ops : op[1] = "publish" => op[2] # s
    <3>1. ASSUME NEW op \in Ops, op[1] = "publish" PROVE op[2] # s
      <4>1. Tokens(op) \subseteq Carried
        BY <1>2, OpsHold
      <4>2. Future(op[2]) \in Carried
        BY ONLY <3>1, <4>1, TokensOf
      <4> QED
        BY ONLY <2>2, <4>2
    <3> QED
      BY ONLY <3>1
  <2>12. \A q \in States : callbackReady'[q] => callback'[q] # <<>> /\ Future(q) \notin Carried'
    BY ONLY <1>7, <2>7, <2>10
  <2>13. \A q \in States : ready'[q] => result'[q] # <<>> \/ (~ callbackReady'[q] /\ Future(q) \notin Carried')
    BY ONLY <1>1, <1>7, <2>7, <2>10
  <2>14. \A op \in Ops' : op[1] \in {"ready", "try"} =>
            result'[op[2]] # <<>> \/ (~ callbackReady'[op[2]] /\ Future(op[2]) \notin Carried')
    BY ONLY <1>7, <1>8, <2>7, <2>10
  <2>15. \A op \in Ops' : op[1] = "publish" => callback'[op[2]] # <<>>
    BY ONLY <1>7, <1>8, <2>7, <2>10, <2>11
  <2>16. \A q \in States : ready'[q] /\ callbackReady'[q] => SomeoneLooks(q)'
    <3>1. ASSUME NEW q \in States, ready'[q], callbackReady'[q] PROVE SomeoneLooks(q)'
      <4>1. q # s
        BY ONLY <2>10, <3>1
      <4> QED
        BY ONLY <1>1, <1>7, <2>8, <2>10, <3>1, <4>1
    <3> QED
      BY ONLY <3>1
  <2>17. StateInv'
    BY <2>12, <2>13, <2>14, <2>15, <2>16, StateNext
  <2> QED
    BY ONLY <2>5, <2>6, <2>17 DEF IInv
<1>10. CASE ~ callbackReady[s]
  <2>1. Continue(t, <<>>) /\ callbackReady' = callbackReady /\ callback' = callback
        /\ result' = result /\ tasks' = tasks
    BY <1>1, <1>10 DEF TryCallback, callbackVars
  <2>2. Moved(t, {}, {}, {})
    BY <1>1, <1>2, <2>1, Finishes
  <2>3. GetInv' /\ OnceInv' /\ LinesInv'
    BY <1>3, <1>4, <2>2, FutureVars
  <2>4. TypesInv'
    BY <1>1, <1>2, <1>3, <2>1 DEF TypesInv, allVars, firstVars
  <2>5. Carried' \subseteq Carried /\ Keeps(t) /\ Ops' \subseteq Ops
    BY ONLY <2>2 DEF Moved
  <2>6. \A q \in States : q # s /\ SomeoneLooks(q) => SomeoneLooks(q)'
    BY <1>0, <1>1, <2>5, TryStays
  <2>7. \A q \in States : callbackReady'[q] => callback'[q] # <<>> /\ Future(q) \notin Carried'
    BY ONLY <1>7, <2>1, <2>5
  <2>8. \A q \in States : ready'[q] => result'[q] # <<>> \/ (~ callbackReady'[q] /\ Future(q) \notin Carried')
    BY ONLY <1>1, <1>7, <2>1, <2>5
  <2>9. \A op \in Ops' : op[1] \in {"ready", "try"} =>
            result'[op[2]] # <<>> \/ (~ callbackReady'[op[2]] /\ Future(op[2]) \notin Carried')
    BY ONLY <1>7, <1>8, <2>1, <2>5
  <2>10. \A op \in Ops' : op[1] = "publish" => callback'[op[2]] # <<>>
    BY ONLY <1>7, <2>1, <2>5
  <2>11. \A q \in States : ready'[q] /\ callbackReady'[q] => SomeoneLooks(q)'
    <3>1. ASSUME NEW q \in States, ready'[q], callbackReady'[q] PROVE SomeoneLooks(q)'
      <4>1. q # s
        BY ONLY <1>10, <2>1, <3>1
      <4> QED
        BY ONLY <1>1, <1>7, <2>1, <2>6, <3>1, <4>1
    <3> QED
      BY ONLY <3>1
  <2>12. StateInv'
    BY <2>7, <2>8, <2>9, <2>10, <2>11, StateNext
  <2> QED
    BY ONLY <2>3, <2>4, <2>12 DEF IInv
<1> QED
  BY ONLY <1>9, <1>10

LEMMA StoreCallbackStep == ASSUME IInv, NEW t \in Threads, StoreCallback(t), UNCHANGED futureVars PROVE IInv'
<1> DEFINE h == Head(todo[t])  new == {<<"publish", h[2]>>, <<"check", h[2]>>, <<"call", h[3]>>}
<1>0. PICK s : s = h[2]
  OBVIOUS
<1>1. /\ todo[t] # <<>> /\ h[1] = "subscribe" /\ callback' = [callback EXCEPT ![s] = <<h[3]>>]
      /\ ready' = ready /\ executor' = executor /\ asleep' = asleep /\ result' = result
      /\ callbackReady' = callbackReady
  BY <1>0 DEF StoreCallback, Doing, Arg, resultVars
<1>2. LinesInv /\ StateInv /\ TypesInv
  BY DEF IInv
<1>3. UNCHANGED <<allVars, firstVars, sleeper, sets>>
  BY DEF futureVars, getVars
<1>4. todo[t] = <<>> \/ Head(todo[t])[1] \notin {"try", "check", "sleep"}
  BY <1>1
<1>5. h \in Ops
  BY <1>1, <1>2, HeadIs
<1>6. s \in States
  BY <1>0, <1>1, <1>2, <1>5, StepTargets
<1>7. Moved(t, {}, {}, new)
  BY <1>2, Stores
<1>8. GetInv' /\ OnceInv' /\ LinesInv'
  BY <1>3, <1>4, <1>7, FutureVars
<1>9. TypesInv'
  BY <1>1, <1>2, <1>3 DEF TypesInv, allVars, firstVars
<1>10. <<"publish", h[2]>>[2] = s /\ <<"check", h[2]>>[1] = "check" /\ <<"call", h[3]>>[1] = "call"
       /\ <<"publish", h[2]>>[1] = "publish"
  BY <1>0
<1>11. /\ \A q \in States : callbackReady[q] => callback[q] # <<>> /\ Future(q) \notin Carried
       /\ \A q \in States : ready[q] => result[q] # <<>> \/ (~ callbackReady[q] /\ Future(q) \notin Carried)
       /\ \A op \in Ops : op[1] \in {"ready", "try"} =>
             result[op[2]] # <<>> \/ (~ callbackReady[op[2]] /\ Future(op[2]) \notin Carried)
       /\ \A op \in Ops : op[1] = "publish" => callback[op[2]] # <<>>
       /\ \A q \in States : ready[q] /\ callbackReady[q] => SomeoneLooks(q)
  BY <1>2, StateIs
<1>12. \A op \in Ops : op[1] \in {"ready", "try", "publish"} => op[2] \in States
  BY <1>2, StepTargets
<1>13. /\ Carried' \subseteq Carried /\ Keeps(t)
       /\ \A op \in Ops' : op[1] \in {"ready", "try"} => op \in Ops
       /\ \A op \in Ops' : op[1] = "publish" => op \in Ops \/ op[2] = s
  BY ONLY <1>7, <1>10 DEF Moved
<1>14. \A q \in States : Stays(<<"try", q>>) /\ Stays(<<"check", q>>)
  BY <1>4, <1>13, HeadStays
<1>15. \A q \in States : SomeoneLooks(q) => SomeoneLooks(q)'
  BY <1>14, LooksOn
<1>16. DOMAIN callback = States
  BY <1>2 DEF LinesInv
<1>17. <<h[3]>> # <<>>
  OBVIOUS
<1>18. \A q \in States : callback'[q] = (IF q = s THEN <<h[3]>> ELSE callback[q])
  BY ONLY <1>1, <1>16
<1> HIDE DEF h
<1>19. \A q \in States : callbackReady'[q] => callback'[q] # <<>> /\ Future(q) \notin Carried'
  BY ONLY <1>1, <1>11, <1>13, <1>17, <1>18
<1>20. \A q \in States : ready'[q] => result'[q] # <<>> \/ (~ callbackReady'[q] /\ Future(q) \notin Carried')
  BY ONLY <1>1, <1>11, <1>13
<1>21. \A op \in Ops' : op[1] \in {"ready", "try"} =>
           result'[op[2]] # <<>> \/ (~ callbackReady'[op[2]] /\ Future(op[2]) \notin Carried')
  BY ONLY <1>1, <1>11, <1>12, <1>13
<1>22. \A op \in Ops' : op[1] = "publish" => callback'[op[2]] # <<>>
  BY ONLY <1>6, <1>11, <1>12, <1>13, <1>17, <1>18
<1>23. \A q \in States : ready'[q] /\ callbackReady'[q] => SomeoneLooks(q)'
  BY ONLY <1>1, <1>11, <1>15
<1>24. StateInv'
  BY <1>19, <1>20, <1>21, <1>22, <1>23, StateNext
<1> QED
  BY ONLY <1>8, <1>9, <1>24 DEF IInv

LEMMA PublishCallbackStep == ASSUME IInv, NEW t \in Threads, PublishCallback(t), UNCHANGED futureVars PROVE IInv'
<1> DEFINE h == Head(todo[t])
<1>0. PICK s : s = h[2]
  OBVIOUS
<1>1. /\ todo[t] # <<>> /\ h[1] = "publish" /\ callbackReady' = [callbackReady EXCEPT ![s] = TRUE]
      /\ ready' = ready /\ executor' = executor /\ asleep' = asleep /\ result' = result
      /\ callback' = callback /\ tasks' = tasks /\ Continue(t, <<>>)
  BY <1>0 DEF PublishCallback, Doing, Arg, resultVars
<1>2. LinesInv /\ StateInv /\ TypesInv
  BY DEF IInv
<1>3. UNCHANGED <<allVars, firstVars, sleeper, sets>>
  BY DEF futureVars, getVars
<1>4. todo[t] = <<>> \/ Head(todo[t])[1] \notin {"try", "check", "sleep"}
  BY <1>1
<1>5. h \in Ops /\ Tokens(h) \subseteq Carried
  BY <1>1, <1>2, HeadIs
<1>6. s \in States
  BY <1>0, <1>1, <1>2, <1>5, StepTargets
<1>7. Tokens(h) = {Future(s)}
  BY ONLY <1>0, <1>1, TokensOf
<1>8. Moved(t, {}, {}, {}) /\ Moved(t, Tokens(h), {}, {})
  BY <1>1, <1>2, Finishes
<1>9. GetInv' /\ OnceInv' /\ LinesInv'
  BY <1>3, <1>4, <1>8, FutureVars
<1>10. TypesInv'
  BY <1>1, <1>2, <1>3, <1>6 DEF TypesInv, allVars, firstVars
<1>11. /\ \A q \in States : callbackReady[q] => callback[q] # <<>> /\ Future(q) \notin Carried
       /\ \A q \in States : ready[q] => result[q] # <<>> \/ (~ callbackReady[q] /\ Future(q) \notin Carried)
       /\ \A op \in Ops : op[1] \in {"ready", "try"} =>
             result[op[2]] # <<>> \/ (~ callbackReady[op[2]] /\ Future(op[2]) \notin Carried)
       /\ \A op \in Ops : op[1] = "publish" => callback[op[2]] # <<>>
       /\ \A q \in States : ready[q] /\ callbackReady[q] => SomeoneLooks(q)
  BY <1>2, StateIs
<1>12. \A op \in Ops : op[1] \in {"ready", "try", "publish"} => op[2] \in States
  BY <1>2, StepTargets
<1>13. Carried' \subseteq Carried /\ Future(s) \notin Carried' /\ Future(s) \in Carried /\ Keeps(t) /\ Ops' \subseteq Ops
  BY ONLY <1>5, <1>7, <1>8 DEF Moved
<1>14. \A q \in States : Stays(<<"try", q>>) /\ Stays(<<"check", q>>)
  BY <1>4, <1>13, HeadStays
<1>15. \A q \in States : SomeoneLooks(q) => SomeoneLooks(q)'
  BY <1>14, LooksOn
<1>16. SomeoneLooks(s)'
  <2>1. <<"check", s>> \in ToSet(todo'[t])
    BY <1>0, <1>1, <1>2, <1>13, SecondStays
  <2> QED
    BY ONLY <2>1, t \in Threads DEF SomeoneLooks
<1>17. DOMAIN callbackReady = States
  BY <1>2 DEF TypesInv
<1>18. \A q \in States : q # s => callbackReady'[q] = callbackReady[q]
  BY ONLY <1>1, <1>17
<1>19. callback[s] # <<>>
  BY ONLY <1>0, <1>1, <1>5, <1>11
<1> HIDE DEF h
<1>20. \A q \in States : callbackReady'[q] => callback'[q] # <<>> /\ Future(q) \notin Carried'
  BY ONLY <1>1, <1>11, <1>13, <1>18, <1>19
<1>21. \A q \in States : ready'[q] => result'[q] # <<>> \/ (~ callbackReady'[q] /\ Future(q) \notin Carried')
  BY ONLY <1>1, <1>11, <1>13, <1>18
<1>22. \A op \in Ops' : op[1] \in {"ready", "try"} =>
           result'[op[2]] # <<>> \/ (~ callbackReady'[op[2]] /\ Future(op[2]) \notin Carried')
  BY ONLY <1>1, <1>11, <1>12, <1>13, <1>18
<1>23. \A op \in Ops' : op[1] = "publish" => callback'[op[2]] # <<>>
  BY ONLY <1>1, <1>11, <1>13
<1>24. \A q \in States : ready'[q] /\ callbackReady'[q] => SomeoneLooks(q)'
  <2>1. ASSUME NEW q \in States, ready'[q], callbackReady'[q] PROVE SomeoneLooks(q)'
    <3>1. CASE q = s
      BY ONLY <1>16, <3>1
    <3>2. CASE q # s
      BY ONLY <1>1, <1>11, <1>15, <1>18, <2>1, <3>2
    <3> QED
      BY ONLY <3>1, <3>2
  <2> QED
    BY ONLY <2>1
<1>25. StateInv'
  BY <1>20, <1>21, <1>22, <1>23, <1>24, StateNext
<1> QED
  BY ONLY <1>9, <1>10, <1>25 DEF IInv

LEMMA CheckResultStep == ASSUME IInv, NEW t \in Threads, CheckResult(t), UNCHANGED futureVars PROVE IInv'
<1> DEFINE h == Head(todo[t])
<1>0. PICK s : s = h[2]
  OBVIOUS
<1>1. /\ todo[t] # <<>> /\ h[1] = "check" /\ callbackReady' = callbackReady
      /\ ready' = ready /\ executor' = executor /\ asleep' = asleep /\ result' = result
      /\ callback' = callback /\ tasks' = tasks
      /\ Continue(t, IF ready[s] THEN <<<<"try", s>>>> ELSE <<>>)
  BY <1>0 DEF CheckResult, Doing, Arg, stateVars, resultVars, callbackVars
<1>2. LinesInv /\ StateInv /\ TypesInv
  BY DEF IInv
<1>3. UNCHANGED <<allVars, firstVars, sleeper, sets>>
  BY DEF futureVars, getVars
<1>4. todo[t] = <<>> \/ Head(todo[t])[1] # "sleep"
  BY <1>1
<1>5. h \in Ops /\ DOMAIN todo = Threads /\ IsSeq(todo[t])
  BY <1>1, <1>2, HeadIs
<1>6. s \in States
  BY <1>0, <1>1, <1>2, <1>5, StepTargets
<1>7. <<"try", s>>[1] = "try" /\ <<"try", s>>[2] = s
  OBVIOUS
<1>8. Moved(t, {}, {}, {<<"try", s>>}) /\ (~ ready[s] => Moved(t, {}, {}, {}))
  <2>1. CASE ready[s]
    <3>1. Tokens(<<"try", s>>) = {}
      BY ONLY <1>7, TokensOf
    <3>2. Continue(t, <<<<"try", s>>>>) /\ Tokens(<<"try", s>>) \cap Carried \subseteq Tokens(Head(todo[t]))
      BY ONLY <1>1, <2>1, <3>1
    <3>3. Single(<<"try", s>>) /\ IsOperation(<<"try", s>>)
      BY ONLY <1>6, <1>7 DEF Single, IsOperation
    <3>4. Moved(t, Tokens(Head(todo[t])), Tokens(<<"try", s>>), {<<"try", s>>})
      BY <1>1, <1>2, <3>2, <3>3, OneMore
    <3> QED
      BY ONLY <2>1, <3>1, <3>4 DEF Moved
  <2>2. CASE ~ ready[s]
    <3>1. Continue(t, <<>>)
      BY ONLY <1>1, <2>2
    <3>2. Moved(t, {}, {}, {})
      BY <1>1, <1>2, <3>1, Finishes
    <3> QED
      BY ONLY <3>2 DEF Moved
  <2> QED
    BY ONLY <2>1, <2>2
<1>9. GetInv' /\ OnceInv' /\ LinesInv'
  BY <1>3, <1>4, <1>8, FutureVars
<1>10. TypesInv'
  BY <1>1, <1>2, <1>3 DEF TypesInv, allVars, firstVars
<1>11. /\ \A q \in States : callbackReady[q] => callback[q] # <<>> /\ Future(q) \notin Carried
       /\ \A q \in States : ready[q] => result[q] # <<>> \/ (~ callbackReady[q] /\ Future(q) \notin Carried)
       /\ \A op \in Ops : op[1] \in {"ready", "try"} =>
             result[op[2]] # <<>> \/ (~ callbackReady[op[2]] /\ Future(op[2]) \notin Carried)
       /\ \A op \in Ops : op[1] = "publish" => callback[op[2]] # <<>>
       /\ \A q \in States : ready[q] /\ callbackReady[q] => SomeoneLooks(q)
  BY <1>2, StateIs
<1>12. \A op \in Ops : op[1] \in {"ready", "try", "publish"} => op[2] \in States
  BY <1>2, StepTargets
<1>13. /\ Carried' \subseteq Carried /\ Keeps(t)
       /\ \A op \in Ops' : op \in Ops \/ (op = <<"try", s>> /\ ready[s])
  BY ONLY <1>8 DEF Moved
<1>14. \A q \in States : q # s /\ SomeoneLooks(q) => SomeoneLooks(q)'
  BY <1>0, <1>1, <1>13, TryStays
<1>15. ready[s] => SomeoneLooks(s)'
  <2>1. ASSUME ready[s] PROVE SomeoneLooks(s)'
    <3>1. IsSeq(<<<<"try", s>>>>) /\ ToSet(<<<<"try", s>>>>) = {<<"try", s>>}
      BY ONLY Literals
    <3>2. ToSet(<<<<"try", s>>>> \o Tail(todo[t])) = ToSet(<<<<"try", s>>>>) \cup ToSet(Tail(todo[t]))
      BY <1>1, <1>5, <3>1, GoesOn
    <3>3. todo' = [todo EXCEPT ![t] = <<<<"try", s>>>> \o Tail(todo[t])]
      BY ONLY <1>1, <2>1 DEF Continue
    <3>4. <<"try", s>> \in ToSet(todo'[t])
      BY ONLY <1>5, <3>1, <3>2, <3>3, t \in Threads
    <3> QED
      BY ONLY <3>4, t \in Threads DEF SomeoneLooks
  <2> QED
    BY ONLY <2>1
<1> HIDE DEF h
<1>16. \A q \in States : callbackReady'[q] => callback'[q] # <<>> /\ Future(q) \notin Carried'
  BY ONLY <1>1, <1>11, <1>13
<1>17. \A q \in States : ready'[q] => result'[q] # <<>> \/ (~ callbackReady'[q] /\ Future(q) \notin Carried')
  BY ONLY <1>1, <1>11, <1>13
<1>18. \A op \in Ops' : op[1] \in {"ready", "try"} =>
           result'[op[2]] # <<>> \/ (~ callbackReady'[op[2]] /\ Future(op[2]) \notin Carried')
  BY ONLY <1>1, <1>6, <1>7, <1>11, <1>12, <1>13
<1>19. \A op \in Ops' : op[1] = "publish" => callback'[op[2]] # <<>>
  BY ONLY <1>1, <1>7, <1>11, <1>13
<1>20. \A q \in States : ready'[q] /\ callbackReady'[q] => SomeoneLooks(q)'
  <2>1. ASSUME NEW q \in States, ready'[q], callbackReady'[q] PROVE SomeoneLooks(q)'
    <3>1. CASE q = s
      BY ONLY <1>1, <1>15, <2>1, <3>1
    <3>2. CASE q # s
      BY ONLY <1>1, <1>11, <1>14, <2>1, <3>2
    <3> QED
      BY ONLY <3>1, <3>2
  <2> QED
    BY ONLY <2>1
<1>21. StateInv'
  BY <1>16, <1>17, <1>18, <1>19, <1>20, StateNext
<1> QED
  BY ONLY <1>9, <1>10, <1>21 DEF IInv

LEMMA NotifyStep == ASSUME IInv, NEW t \in Threads, Notify(t), UNCHANGED futureVars PROVE IInv'
<1>1. /\ todo[t] # <<>> /\ Head(todo[t])[1] = "notify" /\ Continue(t, <<>>) /\ tasks' = tasks
      /\ asleep' = [u \in Threads |-> IF asleep[u] = Arg(t, 2) THEN Null ELSE asleep[u]]
  BY DEF Notify, Doing
<1>2. UNCHANGED <<resultVars, callbackVars, allVars, firstVars, sleeper, sets>> /\ UNCHANGED stateVars
  BY DEF Notify, stateVars, futureVars, getVars
<1>3. TypesInv
  BY DEF IInv
<1>4. TypesInv'
  BY <1>1, <1>2, <1>3 DEF TypesInv, stateVars, resultVars, callbackVars, allVars, firstVars
<1> QED
  BY <1>1, <1>2, <1>4, PlainDone

LEMMA ManualStep ==
    ASSUME IInv, NEW t \in Threads, RunManual(t) \/ PopManual(t), UNCHANGED futureVars
    PROVE  IInv'
<1>1. /\ todo[t] # <<>> /\ Head(todo[t])[1] \in {"run", "pop"}
      /\ UNCHANGED <<resultVars, callbackVars, allVars, firstVars, sleeper, sets>>
      /\ UNCHANGED <<stateVars, asleep>>
  BY DEF RunManual, PopManual, Doing, stateVars, futureVars, getVars
<1>2. TypesInv /\ LinesInv /\ callback' = callback
  BY <1>1 DEF IInv, callbackVars
<1>3. TypesInv'
  BY <1>1, <1>2 DEF TypesInv, stateVars, resultVars, callbackVars, allVars, firstVars
<1>4. PICK new : Moved(t, {}, {}, new) /\ \A op \in new : op \in Ops \/ op[1] \in {"pop", "run"}
  <2>1. CASE RunManual(t)
    BY <1>2, <2>1, RunsByHand
  <2>2. CASE PopManual(t)
    <3>1. Moved(t, {}, {}, {})
      BY <1>2, <2>2, PopsByHand
    <3> QED
      BY ONLY <3>1
  <2> QED
    BY <2>1, <2>2
<1>5. \A op \in new : op \in Ops \/ op[1] \notin {"ready", "try", "publish"}
  BY ONLY <1>4
<1>6. Head(todo[t])[1] \notin {"try", "check", "sleep"} /\ Moved(t, {}, {}, new)
  BY ONLY <1>1, <1>4
<1> QED
  BY <1>1, <1>3, <1>5, <1>6, PlainMore

LEMMA TakeStep == ASSUME IInv, NEW t \in Threads, Take(t), UNCHANGED futureVars PROVE IInv'
<1>1. /\ todo[t] = <<>> /\ sets' = sets
      /\ UNCHANGED <<resultVars, callbackVars, allVars, firstVars, sleeper>>
      /\ UNCHANGED <<stateVars, asleep>>
  BY DEF Take, stateVars, futureVars, getVars
<1>2. TypesInv /\ LinesInv
  BY DEF IInv
<1>3. TypesInv'
  BY <1>1, <1>2 DEF TypesInv, stateVars, resultVars, callbackVars, allVars, firstVars
<1>4. Moved(t, {}, {}, {})
  BY <1>2, TakesTask
<1>5. Keeps(t)
  BY ONLY <1>4 DEF Moved
<1>6. /\ \A s \in States : Stays(<<"try", s>>) /\ Stays(<<"check", s>>)
      /\ Stays(<<"sleep">>)
  BY <1>1, <1>5, HeadStays
<1> QED
  BY <1>1, <1>3, <1>4, <1>6, Plain

-----------------------------------------------------------------------------
(* The steps that build futures and fulfil promises                          *)

LEMMA ProduceStep == ASSUME IInv, NEW t \in Threads, Produce(t) PROVE IInv'
<1>1. PICK r : /\ todo[t] # <<>> /\ Head(todo[t])[1] = "produce" /\ tasks' = tasks
               /\ Fulfil(t, Head(todo[t])[2], r, <<>>)
               /\ UNCHANGED <<stateVars, asleep, allVars, firstVars, sleeper>>
  BY DEF Produce, Doing, Arg, getVars, OnlyFulfils
<1>2. PICK p : p = Head(todo[t])[2]
  OBVIOUS
<1>3. LinesInv
  BY DEF IInv
<1>4. IsOperation(Head(todo[t]))
  BY <1>1, <1>3, HeadIs
<1>5. p \in States
  BY ONLY <1>1, <1>2, <1>4 DEF IsOperation, IsScriptOperation
<1>6. Promise(p) \in Tokens(Head(todo[t]))
  BY ONLY <1>1, <1>2, TokensOf
<1>7. Fulfil(t, p, r, <<>>) /\ Head(todo[t])[1] \in {"produce", "call", "all"}
  BY ONLY <1>1, <1>2
<1> QED
  BY <1>1, <1>5, <1>6, <1>7, PlainFulfil

\* A callback that does nothing but fulfil its promise.
LEMMA FulfilStep ==
    ASSUME IInv, NEW t \in Threads, NEW kind \in {"compute", "then", "forward", "recover", "flatMap"}, Calling(t, kind),
           NEW r, Fulfil(t, Arg(t, 2)[2], r, <<>>), OnlyFulfils
    PROVE  IInv'
<1> DEFINE c == Head(todo[t])[2]
<1>1. /\ todo[t] # <<>> /\ Head(todo[t])[1] = "call" /\ c[1] = kind /\ tasks' = tasks
      /\ Fulfil(t, c[2], r, <<>>) /\ UNCHANGED <<stateVars, asleep, allVars, firstVars, sleeper>>
  BY DEF Calling, Doing, Arg, OnlyFulfils, getVars
<1>2. PICK p : p = c[2]
  OBVIOUS
<1>3. LinesInv
  BY DEF IInv
<1>4. /\ Tokens(Head(todo[t])) = CallTokens(c)
      /\ c[1] \in {"then", "recover", "compute", "forward", "flatMap", "all", "firstOf"} => c[2] \in States
  BY <1>1, <1>3, CallIs
<1> HIDE DEF c
<1>5. p \in States
  BY ONLY <1>1, <1>2, <1>4, kind \in {"compute", "then", "forward", "recover", "flatMap"}
<1>6. Promise(p) \in Tokens(Head(todo[t]))
  BY ONLY <1>1, <1>2, <1>4, CallTokensOf, kind \in {"compute", "then", "forward", "recover", "flatMap"}
<1>7. Fulfil(t, p, r, <<>>) /\ Head(todo[t])[1] \in {"produce", "call", "all"}
  BY ONLY <1>1, <1>2
<1> QED
  BY <1>1, <1>5, <1>6, <1>7, PlainFulfil

LEMMA ExecuteStep == ASSUME IInv, NEW t \in Threads, Execute(t) PROVE IInv'
<1> DEFINE h == Head(todo[t])
<1>1. /\ todo[t] # <<>> /\ h[1] = "execute" /\ executor' = [executor EXCEPT ![h[3]] = h[2]] /\ asleep' = asleep
      /\ UNCHANGED <<resultVars, callbackVars, allVars, firstVars, sleeper, sets>>
  BY DEF Execute, Doing, Arg, getVars
<1>2. TypesInv /\ LinesInv
  BY DEF IInv
<1>3. IsOperation(h)
  BY <1>1, <1>2, HeadIs
<1>4. h[2] \in Executors
  BY ONLY <1>1, <1>3 DEF IsOperation, IsScriptOperation
<1>5. TypesInv'
  BY <1>1, <1>2, <1>4 DEF TypesInv, resultVars, callbackVars, allVars, firstVars
<1>6. PICK task : task[1] = "call" /\ Moved(t, {}, {}, {task})
  BY <1>2, Executes
<1>7. \A op \in {task} : op \in Ops \/ op[1] \notin {"ready", "try", "publish"}
  BY ONLY <1>6
<1>8. Head(todo[t])[1] \notin {"try", "check", "sleep"}
  BY ONLY <1>1
<1> QED
  BY <1>1, <1>5, <1>6, <1>7, <1>8, PlainMore

LEMMA ViaStep == ASSUME IInv, NEW t \in Threads, Via(t) PROVE IInv'
<1> DEFINE h == Head(todo[t])
<1>1. /\ todo[t] # <<>> /\ h[1] = "via" /\ executor' = [executor EXCEPT ![h[2]] = h[3]] /\ asleep' = asleep
      /\ UNCHANGED <<resultVars, callbackVars, allVars, firstVars, sleeper, sets>>
      /\ Continue(t, <<>>) /\ tasks' = tasks
  BY DEF Via, Doing, Arg, futureVars, getVars
<1>2. TypesInv /\ LinesInv
  BY DEF IInv
<1>3. IsOperation(h)
  BY <1>1, <1>2, HeadIs
<1>4. h[3] \in Executors
  BY ONLY <1>1, <1>3 DEF IsOperation, IsScriptOperation
<1>5. TypesInv'
  BY <1>1, <1>2, <1>4 DEF TypesInv, resultVars, callbackVars, allVars, firstVars
<1>6. Head(todo[t])[1] \notin {"try", "check", "sleep", "pop"}
  BY ONLY <1>1
<1> QED
  BY <1>1, <1>5, <1>6, PlainDone

LEMMA ChainStep == ASSUME IInv, NEW t \in Threads, Chain(t) PROVE IInv'
<1> DEFINE h == Head(todo[t])
<1>1. /\ todo[t] # <<>> /\ h[1] \in {"then", "flatMap", "recover"} /\ asleep' = asleep
      /\ executor' = [executor EXCEPT ![h[3]] = executor[h[2]]]
      /\ UNCHANGED <<resultVars, callbackVars, allVars, firstVars, sleeper, sets>>
  BY DEF Chain, Arg, getVars
<1>2. TypesInv /\ LinesInv
  BY DEF IInv
<1>3. IsOperation(h)
  BY <1>1, <1>2, HeadIs
<1>4. h[2] \in States
  BY ONLY <1>1, <1>3 DEF IsOperation, IsScriptOperation
<1>5. TypesInv'
  BY <1>1, <1>2, <1>4 DEF TypesInv, resultVars, callbackVars, allVars, firstVars
<1>6. PICK op : op[1] = "subscribe" /\ Moved(t, {}, {}, {op})
  BY <1>2, Chains
<1>7. \A o \in {op} : o \in Ops \/ o[1] \notin {"ready", "try", "publish"}
  BY ONLY <1>6
<1>8. Head(todo[t])[1] \notin {"try", "check", "sleep"}
  BY ONLY <1>1
<1> QED
  BY <1>1, <1>5, <1>6, <1>7, <1>8, PlainMore

LEMMA CallFlatMapStep == ASSUME IInv, NEW t \in Threads, CallFlatMap(t) PROVE IInv'
<1>1. CASE Continue(t, <<<<"subscribe", Arg(t, 2)[3], <<"forward", Arg(t, 2)[2]>>>>>>) /\ UNCHANGED sets
  <2>1. /\ Continue(t, <<<<"subscribe", Arg(t, 2)[3], <<"forward", Arg(t, 2)[2]>>>>>>)
        /\ UNCHANGED <<stateVars, asleep, allVars, firstVars, sleeper, sets>> /\ tasks' = tasks
        /\ Calling(t, "flatMap") /\ todo[t] # <<>> /\ Head(todo[t])[1] = "call"
    BY <1>1 DEF CallFlatMap, Calling, Doing, OnlyFulfils, getVars
  <2>2. UNCHANGED <<resultVars, callbackVars, allVars, firstVars, sleeper, sets>> /\ callback' = callback
    BY <2>1 DEF stateVars, callbackVars
  <2>3. TypesInv /\ LinesInv
    BY DEF IInv
  <2>4. TypesInv'
    BY <2>1, <2>3 DEF TypesInv, stateVars, resultVars, callbackVars, allVars, firstVars
  <2>5. PICK op : op[1] = "subscribe" /\ Moved(t, {}, {}, {op})
    BY <2>1, <2>2, <2>3, Forwards
  <2>6. \A o \in {op} : o \in Ops \/ o[1] \notin {"ready", "try", "publish"}
    BY ONLY <2>5
  <2>7. Head(todo[t])[1] \notin {"try", "check", "sleep"}
    BY ONLY <2>1
  <2> QED
    BY <2>1, <2>2, <2>4, <2>5, <2>6, <2>7, PlainMore
<1>2. ASSUME NEW r, Fulfil(t, Arg(t, 2)[2], r, <<>>)
      PROVE  IInv'
  <2>1. Calling(t, "flatMap") /\ OnlyFulfils
    BY DEF CallFlatMap
  <2> QED
    BY <1>2, <2>1, FulfilStep
<1> QED
  BY <1>1, <1>2 DEF CallFlatMap

LEMMA StoreAnswerStep == ASSUME IInv, NEW t \in Threads, StoreAnswer(t) PROVE IInv'
<1>1. /\ todo[t] # <<>> /\ Head(todo[t])[1] = "call" /\ asleep' = asleep
      /\ finished' = finished /\ exited' = exited /\ sets' = sets
      /\ UNCHANGED <<resultVars, callbackVars, firstVars, sleeper>> /\ executor' = executor
      /\ answers' = [answers EXCEPT ![Arg(t, 2)[3]] = Arg(t, 3).val]
  BY DEF StoreAnswer, Calling, Doing, getVars, stateVars
<1>2. TypesInv /\ LinesInv /\ StateInv /\ GetInv /\ OnceInv
  BY DEF IInv
<1>3. IsSeq(answers)
  BY <1>2 DEF TypesInv
<1>4. Len(answers) \in Nat /\ DOMAIN answers = 1 .. Len(answers)
  BY <1>3, SeqFacts
<1>5. IsSeq(answers') /\ Len(answers') = Len(answers)
  <2> DEFINE n == Len(answers)  S == {answers'[i] : i \in 1 .. n}
  <2>1. answers' \in [1 .. n -> S]
    BY <1>1, <1>4
  <2> HIDE DEF S
  <2>2. answers' \in Seq(S) /\ Len(answers') = n
    BY <1>4, <2>1, FunctionIsSeq
  <2> QED
    BY <2>2, Seqs
<1>6. TypesInv'
  BY <1>1, <1>2, <1>5 DEF TypesInv, resultVars, callbackVars, firstVars
<1>7. PICK op : op[1] = "finish" /\ Moved(t, {}, {}, {op})
  BY <1>2, Answers
<1>8. Carried' \subseteq Carried /\ Keeps(t) /\ LinesInv'
  BY ONLY <1>7 DEF Moved
<1>9. /\ \A s \in States : Stays(<<"try", s>>) /\ Stays(<<"check", s>>)
      /\ Stays(<<"sleep">>)
  BY <1>1, <1>8, HeadStays
<1>10. \A s \in States : Future(s) \notin {} /\ Stays(<<"try", s>>) /\ Stays(<<"check", s>>)
  BY <1>9
<1>11. \A o \in {op} : o \in Ops \/ o[1] \notin {"ready", "try", "publish"}
  BY ONLY <1>7
<1>12. result' = result /\ ready' = ready /\ callback' = callback /\ callbackReady' = callbackReady
  BY <1>1 DEF resultVars, callbackVars
<1>13. StateInv'
  BY <1>2, <1>7, <1>10, <1>11, <1>12, StateKept
<1>14. GetInv'
  <2>1. \A u \in Clients : Frame(u) \notin {}
    OBVIOUS
  <2> QED
    BY <1>1, <1>2, <1>7, <1>9, <2>1, GetKept
<1>15. OnceInv'
  <2>1. /\ \A s \in States : sets[s] <= 1 /\ (Promise(s) \in Carried => sets[s] = 0)
        /\ Combination(Carried, sets, "all", "firstOf", Len(answers) - finished, exited)
        /\ Combination(Carried, sets, "firstOf", "all", errorsLeft, ~ nobodyIsReady)
        /\ finished <= Len(answers) /\ (Combinator("all") \in Carried => finished = 0)
    BY <1>2 DEF OnceInv, SetsInv, AllInv, FirstInv
  <2>2. Len(answers) - finished \in Int /\ errorsLeft \in Int
    BY <1>2, <1>4 DEF TypesInv
  <2>3. /\ \A s \in States : \/ sets[s] = sets[s] \/ Promise(s) \in Carried \/ Inputs(Carried, "firstOf", s) # {}
        /\ \A s \in States : \/ sets[s] = sets[s] \/ Promise(s) \in Carried \/ Inputs(Carried, "all", s) # {}
    OBVIOUS
  <2>4. \A k \in Carried' : k[1] # "frame" => k \in Carried
    BY <1>8
  <2>5. Combination(Carried', sets, "all", "firstOf", Len(answers) - finished, exited)
    BY <2>1, <2>2, <2>3, <2>4, CombinationKept
  <2> DEFINE shut == ~ nobodyIsReady
  <2>6. Combination(Carried, sets, "firstOf", "all", errorsLeft, shut)
    BY ONLY <2>1
  <2> HIDE DEF shut
  <2>7. Combination(Carried', sets, "firstOf", "all", errorsLeft, shut)
    BY <2>2, <2>3, <2>4, <2>6, CombinationKept
  <2>8. SetsInv'
    BY ONLY <1>1, <1>8, <2>1 DEF SetsInv
  <2>9. AllInv'
    BY ONLY <1>1, <1>5, <1>8, <2>1, <2>5 DEF AllInv
  <2>10. errorsLeft' = errorsLeft /\ nobodyIsReady' = nobodyIsReady
    BY <1>1 DEF firstVars
  <2>11. FirstInv'
    BY ONLY <1>1, <2>7, <2>10 DEF FirstInv, shut
  <2> QED
    BY ONLY <2>8, <2>9, <2>11 DEF OnceInv
<1> QED
  BY ONLY <1>6, <1>8, <1>13, <1>14, <1>15 DEF IInv

-----------------------------------------------------------------------------
(* The steps of combinators                                                  *)

LEMMA MayFulfil ==
    ASSUME LinesInv, NEW t \in Threads, todo[t] # <<>>, Head(todo[t])[1] # "pop",
           NEW p \in States, NEW r, Fulfil(t, p, r, <<>>) \/ Nothing(t),
           tasks' = tasks, callback' = callback
    PROVE  /\ \E new : Moved(t, Tokens(Head(todo[t])), {}, new) /\ \A op \in new : op[1] = "set"
           /\ sets' = sets \/ sets' = [sets EXCEPT ![p] = @ + 1]
<1>1. CASE Fulfil(t, p, r, <<>>)
  <2>2. Moved(t, Tokens(Head(todo[t])), {}, {<<"set", p, r>>})
    BY <1>1, Fulfils
  <2>3. <<"set", p, r>>[1] = "set" /\ sets' = [sets EXCEPT ![p] = @ + 1]
    BY <1>1 DEF Fulfil
  <2> QED
    BY ONLY <2>2, <2>3
<1>2. CASE Nothing(t)
  <2>1. Continue(t, <<>>) /\ sets' = sets
    BY <1>2 DEF Nothing
  <2>2. Moved(t, Tokens(Head(todo[t])), {}, {})
    BY <2>1, Finishes
  <2> QED
    BY ONLY <2>1, <2>2
<1> QED
  BY <1>1, <1>2

\* The invariant of what does not concern the combinator.
LEMMA OtherInvs ==
    ASSUME IInv, NEW t \in Threads, NEW gone, NEW made, NEW new, Moved(t, gone, made, new),
           todo[t] # <<>>, Head(todo[t])[1] \notin {"try", "check", "sleep"},
           UNCHANGED <<resultVars, callbackVars, sleeper>>,
           \A k \in made : k[1] \in {"all", "firstOf"},
           \A op \in new : op[1] \in {"set", "subscribe"}
    PROVE  StateInv' /\ GetInv' /\ LinesInv'
<1>1. result' = result /\ ready' = ready /\ callback' = callback /\ callbackReady' = callbackReady
      /\ sleeper' = sleeper
  BY DEF resultVars, callbackVars
<1>2. LinesInv /\ StateInv /\ GetInv
  BY DEF IInv
<1>3. Keeps(t) /\ LinesInv'
  BY ONLY Moved(t, gone, made, new) DEF Moved
<1>4. /\ \A s \in States : Stays(<<"try", s>>) /\ Stays(<<"check", s>>)
      /\ Stays(<<"sleep">>)
  BY <1>3, HeadStays
<1>5. \A s : Future(s) \notin made /\ Frame(s) \notin made
  BY ONLY Kinds, \A k \in made : k[1] \in {"all", "firstOf"}
<1>6. \A s \in States : Future(s) \notin made /\ Stays(<<"try", s>>) /\ Stays(<<"check", s>>)
  BY ONLY <1>4, <1>5
<1>7. \A op \in new : op \in Ops \/ op[1] \notin {"ready", "try", "publish"}
  BY ONLY \A op \in new : op[1] \in {"set", "subscribe"}
<1>8. StateInv'
  BY <1>1, <1>2, <1>6, <1>7, StateKept
<1>9. \A u \in Clients : Frame(u) \notin made
  BY ONLY <1>5
<1>10. GetInv'
  BY <1>1, <1>2, <1>4, <1>9, GetKept
<1> QED
  BY ONLY <1>3, <1>8, <1>10

LEMMA OnceIs ==
    ASSUME IInv
    PROVE  /\ \A s \in States : sets[s] <= 1 /\ (Promise(s) \in Carried => sets[s] = 0)
           /\ Combination(Carried, sets, "all", "firstOf", Len(answers) - finished, exited)
           /\ Combination(Carried, sets, "firstOf", "all", errorsLeft, ~ nobodyIsReady)
           /\ finished <= Len(answers) /\ (Combinator("all") \in Carried => finished = 0)
           /\ Len(answers) \in Nat /\ finished \in Nat /\ errorsLeft \in Nat
           /\ Len(answers) - finished \in Int /\ errorsLeft \in Int /\ sets \in [States -> Nat]
<1>1. TypesInv /\ OnceInv
  BY DEF IInv
<1>2. IsSeq(answers) /\ finished \in Nat /\ errorsLeft \in Nat /\ sets \in [States -> Nat]
  BY <1>1 DEF TypesInv
<1>3. Len(answers) \in Nat
  BY <1>2, SeqFacts
<1> QED
  BY <1>1, <1>2, <1>3 DEF OnceInv, SetsInv, AllInv, FirstInv

\* An input of All gives its result.
LEMMA AllAdvances ==
    ASSUME IInv, NEW k \in Carried, NEW p \in States, k[1] = "all", k[2] = p,
           Carried' \subseteq Carried \ {k}, answers' = answers, firstVars' = firstVars,
           sets' = sets \/ sets' = [sets EXCEPT ![p] = @ + 1],
           \/ finished' = finished /\ exited' = TRUE /\ (sets' = sets \/ ~ exited)
           \/ finished' = finished + 1 /\ exited' = exited /\ (sets' = sets \/ finished + 1 = Len(answers))
    PROVE  OnceInv' /\ finished' \in Nat
<1> DEFINE shut == ~ nobodyIsReady
<1>1. /\ \A s \in States : sets[s] <= 1 /\ (Promise(s) \in Carried => sets[s] = 0)
      /\ Combination(Carried, sets, "all", "firstOf", Len(answers) - finished, exited)
      /\ Combination(Carried, sets, "firstOf", "all", errorsLeft, shut)
      /\ finished <= Len(answers) /\ (Combinator("all") \in Carried => finished = 0)
      /\ Len(answers) \in Nat /\ finished \in Nat /\ errorsLeft \in Nat
      /\ Len(answers) - finished \in Int /\ errorsLeft \in Int /\ sets \in [States -> Nat]
  BY OnceIs
<1> HIDE DEF shut
<1>2. \A q \in States : q # p => sets'[q] = sets[q]
  BY <1>1
<1>3. sets'[p] = sets[p] \/ (sets'[p] = sets[p] + 1 /\ sets' # sets)
  BY <1>1
<1>4. \/ Len(answers') - finished' = Len(answers) - finished /\ exited' /\ (sets'[p] = sets[p] \/ ~ exited)
      \/ /\ Len(answers') - finished' = (Len(answers) - finished) - 1 /\ exited' = exited
         /\ sets'[p] = sets[p] \/ Len(answers) - finished = 1
  BY ONLY <1>1, <1>3, answers' = answers,
     \/ finished' = finished /\ exited' = TRUE /\ (sets' = sets \/ ~ exited)
     \/ finished' = finished + 1 /\ exited' = exited /\ (sets' = sets \/ finished + 1 = Len(answers))
<1>5. /\ Combination(Carried', sets', "all", "firstOf", Len(answers') - finished', exited')
      /\ Combination(Carried', sets', "firstOf", "all", errorsLeft, shut)
      /\ sets'[p] # sets[p] => sets[p] = 0
      /\ Promise(p) \notin Carried /\ Len(answers) - finished > 0
  <2>1. PICK held, held2, times, times2, room, closed, room2, closed2 :
          /\ held = Carried /\ held2 = Carried' /\ times = sets /\ times2 = sets'
          /\ room = Len(answers) - finished /\ closed = exited
          /\ room2 = Len(answers') - finished' /\ closed2 = exited'
    OBVIOUS
  <2>2. /\ Combination(held, times, "all", "firstOf", room, closed) /\ room \in Int
        /\ Combination(held, times, "firstOf", "all", errorsLeft, shut) /\ errorsLeft \in Int
    BY ONLY <1>1, <2>1
  <2>3. Advances(times[p], times2[p], room, closed, room2, closed2)
    BY ONLY <1>4, <2>1 DEF Advances
  <2>4. \A q \in States : q # p => times2[q] = times[q]
    BY ONLY <1>2, <2>1
  <2>5. k \in Inputs(held, "all", p) /\ p \in States /\ held2 \subseteq held \ {k}
    BY ONLY <2>1, k \in Carried, k[1] = "all", k[2] = p, p \in States, Carried' \subseteq Carried \ {k} DEF Inputs
  <2>6. "all" \in {"all", "firstOf"} /\ "firstOf" \in {"all", "firstOf"}
    OBVIOUS
  <2>7. Combination(held2, times2, "all", "firstOf", room2, closed2)
    BY ONLY <2>2, <2>3, <2>4, <2>5, <2>6, CombinationAdvances
  <2>8. Combination(held2, times2, "firstOf", "all", errorsLeft, shut)
    <3>1. \A q \in States : \/ times2[q] = times[q] \/ Promise(q) \in held \/ Inputs(held, "all", q) # {}
      BY ONLY <2>4, <2>5
    <3>2. \A j \in held2 : j[1] # "frame" => j \in held
      BY ONLY <2>5
    <3> QED
      BY ONLY <2>2, <2>6, <3>1, <3>2, CombinationKept
  <2>9. (times2[p] # times[p] => times[p] = 0) /\ Promise(p) \notin held /\ room > 0
    BY ONLY <2>2, <2>3, <2>5, CombinationGives
  <2> QED
    BY ONLY <2>1, <2>7, <2>8, <2>9
<1>6. SetsInv'
  <2>1. \A s \in States : sets'[s] <= 1 /\ (Promise(s) \in Carried' => sets'[s] = 0)
    BY ONLY <1>1, <1>2, <1>3, <1>5, Carried' \subseteq Carried \ {k}
  <2> QED
    BY ONLY <2>1 DEF SetsInv
<1>7. finished' <= Len(answers') /\ finished' \in Nat
  BY ONLY <1>1, <1>5, answers' = answers,
     \/ finished' = finished /\ exited' = TRUE /\ (sets' = sets \/ ~ exited)
     \/ finished' = finished + 1 /\ exited' = exited /\ (sets' = sets \/ finished + 1 = Len(answers))
<1>8. Combinator("all") \notin Carried'
  <2>1. Combinator("all") \notin Carried
    BY ONLY <1>1, k[1] = "all", k \in Carried DEF Combination
  <2> QED
    BY ONLY <2>1, Carried' \subseteq Carried \ {k}
<1>9. AllInv'
  BY ONLY <1>5, <1>7, <1>8 DEF AllInv
<1>10. errorsLeft' = errorsLeft /\ nobodyIsReady' = nobodyIsReady
  BY DEF firstVars
<1>11. FirstInv'
  BY ONLY <1>5, <1>10 DEF FirstInv, shut
<1> QED
  BY ONLY <1>6, <1>7, <1>9, <1>11 DEF OnceInv

\* An input of FirstOf gives its result.
LEMMA FirstAdvances ==
    ASSUME IInv, NEW k \in Carried, NEW p \in States, k[1] = "firstOf", k[2] = p,
           Carried' \subseteq Carried \ {k}, allVars' = allVars,
           sets' = sets \/ sets' = [sets EXCEPT ![p] = @ + 1],
           \/ errorsLeft' = errorsLeft /\ nobodyIsReady' = FALSE /\ (sets' = sets \/ nobodyIsReady)
           \/ /\ errorsLeft' = errorsLeft - 1 /\ nobodyIsReady' = nobodyIsReady
              /\ sets' = sets \/ errorsLeft = 1
    PROVE  OnceInv' /\ errorsLeft' \in Nat
<1> DEFINE shut == ~ nobodyIsReady
<1>0. PICK shut2 : shut2 = ~ nobodyIsReady'
  OBVIOUS
<1>1. /\ \A s \in States : sets[s] <= 1 /\ (Promise(s) \in Carried => sets[s] = 0)
      /\ Combination(Carried, sets, "all", "firstOf", Len(answers) - finished, exited)
      /\ Combination(Carried, sets, "firstOf", "all", errorsLeft, shut)
      /\ finished <= Len(answers) /\ (Combinator("all") \in Carried => finished = 0)
      /\ Len(answers) \in Nat /\ finished \in Nat /\ errorsLeft \in Nat
      /\ Len(answers) - finished \in Int /\ errorsLeft \in Int /\ sets \in [States -> Nat]
  BY OnceIs
<1>2. \A q \in States : q # p => sets'[q] = sets[q]
  BY <1>1
<1>3. sets'[p] = sets[p] \/ (sets'[p] = sets[p] + 1 /\ sets' # sets)
  BY <1>1
<1>a. sets'[p] = sets[p] \/ sets' # sets
  BY ONLY <1>3
<1>4. \/ errorsLeft' = errorsLeft /\ shut2 /\ (sets'[p] = sets[p] \/ ~ shut)
      \/ /\ errorsLeft' = errorsLeft - 1 /\ shut2 = shut
         /\ sets'[p] = sets[p] \/ errorsLeft = 1
  <2>1. CASE errorsLeft' = errorsLeft /\ nobodyIsReady' = FALSE /\ (sets' = sets \/ nobodyIsReady)
    <3>1. shut2
      BY ONLY <1>0, <2>1, Zenon
    <3>2. sets'[p] = sets[p] \/ ~ shut
      BY ONLY <2>1, Zenon
    <3> QED
      BY ONLY <2>1, <3>1, <3>2
  <2>2. CASE /\ errorsLeft' = errorsLeft - 1 /\ nobodyIsReady' = nobodyIsReady
             /\ sets' = sets \/ errorsLeft = 1
    <3>1. shut2 = shut
      BY ONLY <1>0, <2>2, Zenon
    <3>2. sets'[p] = sets[p] \/ errorsLeft = 1
      BY ONLY <2>2, Zenon
    <3> QED
      BY ONLY <2>2, <3>1, <3>2
  <2> QED
    BY ONLY <2>1, <2>2,
       \/ errorsLeft' = errorsLeft /\ nobodyIsReady' = FALSE /\ (sets' = sets \/ nobodyIsReady)
       \/ /\ errorsLeft' = errorsLeft - 1 /\ nobodyIsReady' = nobodyIsReady
          /\ sets' = sets \/ errorsLeft = 1
<1> HIDE DEF shut
<1>5. /\ Combination(Carried', sets', "firstOf", "all", errorsLeft', shut2)
      /\ Combination(Carried', sets', "all", "firstOf", Len(answers) - finished, exited)
      /\ sets'[p] # sets[p] => sets[p] = 0
      /\ Promise(p) \notin Carried /\ errorsLeft > 0
  <2>1. PICK held, held2, times, times2, room, room2, elsewhere, gone :
          /\ held = Carried /\ held2 = Carried' /\ times = sets /\ times2 = sets'
          /\ room = errorsLeft /\ room2 = errorsLeft'
          /\ elsewhere = Len(answers) - finished /\ gone = exited
    OBVIOUS
  <2>2. /\ Combination(held, times, "firstOf", "all", room, shut) /\ room \in Int
        /\ Combination(held, times, "all", "firstOf", elsewhere, gone) /\ elsewhere \in Int
    BY ONLY <1>1, <2>1
  <2>3. Advances(times[p], times2[p], room, shut, room2, shut2)
    BY ONLY <1>4, <2>1 DEF Advances
  <2>4. \A q \in States : q # p => times2[q] = times[q]
    BY ONLY <1>2, <2>1
  <2>5. k \in Inputs(held, "firstOf", p) /\ p \in States /\ held2 \subseteq held \ {k}
    BY ONLY <2>1, k \in Carried, k[1] = "firstOf", k[2] = p, p \in States, Carried' \subseteq Carried \ {k} DEF Inputs
  <2>6. "all" \in {"all", "firstOf"} /\ "firstOf" \in {"all", "firstOf"}
    OBVIOUS
  <2>7. Combination(held2, times2, "firstOf", "all", room2, shut2)
    BY ONLY <2>2, <2>3, <2>4, <2>5, <2>6, CombinationAdvances
  <2>8. Combination(held2, times2, "all", "firstOf", elsewhere, gone)
    <3>1. \A q \in States : \/ times2[q] = times[q] \/ Promise(q) \in held \/ Inputs(held, "firstOf", q) # {}
      BY ONLY <2>4, <2>5
    <3>2. \A j \in held2 : j[1] # "frame" => j \in held
      BY ONLY <2>5
    <3> QED
      BY ONLY <2>2, <2>6, <3>1, <3>2, CombinationKept
  <2>9. (times2[p] # times[p] => times[p] = 0) /\ Promise(p) \notin held /\ room > 0
    BY ONLY <2>2, <2>3, <2>5, CombinationGives
  <2> QED
    BY ONLY <2>1, <2>7, <2>8, <2>9
<1>6. SetsInv'
  <2>1. \A s \in States : sets'[s] <= 1 /\ (Promise(s) \in Carried' => sets'[s] = 0)
    BY ONLY <1>1, <1>2, <1>3, <1>5, Carried' \subseteq Carried \ {k}
  <2> QED
    BY ONLY <2>1 DEF SetsInv
<1>7. errorsLeft' \in Nat
  BY ONLY <1>1, <1>4, <1>5
<1>8. answers' = answers /\ finished' = finished /\ exited' = exited
  BY DEF allVars
<1>9. AllInv'
  BY ONLY <1>1, <1>5, <1>8, Carried' \subseteq Carried \ {k} DEF AllInv
<1>10. FirstInv'
  BY ONLY <1>0, <1>5 DEF FirstInv
<1> QED
  BY ONLY <1>6, <1>7, <1>9, <1>10 DEF OnceInv

-----------------------------------------------------------------------------
(* The steps of the callbacks of All and FirstOf                             *)

LEMMA AllInput ==
    ASSUME IInv, NEW t \in Threads, todo[t] # <<>>, Head(todo[t])[1] \in {"call", "finish"},
           NEW p \in States, NEW i, NEW r, Tokens(Head(todo[t])) = {<<"all", p, i>>},
           Fulfil(t, p, r, <<>>) \/ Nothing(t), UNCHANGED <<stateVars, tasks, asleep, answers, firstVars, sleeper>>,
           \/ finished' = finished /\ exited' = TRUE /\ (sets' = sets \/ ~ exited)
           \/ finished' = finished + 1 /\ exited' = exited /\ (sets' = sets \/ finished + 1 = Len(answers))
    PROVE  IInv'
<1> DEFINE k == <<"all", p, i>>
<1>1. LinesInv /\ TypesInv /\ tasks' = tasks /\ callback' = callback
  BY DEF IInv, stateVars, callbackVars
<1>2. Head(todo[t])[1] # "pop" /\ Head(todo[t])[1] \notin {"try", "check", "sleep"}
  OBVIOUS
<1>3. PICK new : Moved(t, Tokens(Head(todo[t])), {}, new) /\ \A op \in new : op[1] = "set"
  BY <1>1, <1>2, MayFulfil
<1>4. sets' = sets \/ sets' = [sets EXCEPT ![p] = @ + 1]
  BY <1>1, <1>2, MayFulfil
<1>5. Tokens(Head(todo[t])) \subseteq Carried
  BY <1>1, HeadIs
<1>6. k[1] = "all" /\ k[2] = p
  OBVIOUS
<1>7. k \in Carried /\ Carried' \subseteq Carried \ {k}
  BY ONLY <1>3, <1>5, Tokens(Head(todo[t])) = {<<"all", p, i>>} DEF Moved
<1>8. StateInv' /\ GetInv' /\ LinesInv'
  <2>1. UNCHANGED <<resultVars, callbackVars, sleeper>>
    BY DEF stateVars
  <2>2. /\ \A j \in {} : j[1] \in {"all", "firstOf"}
        /\ \A op \in new : op[1] \in {"set", "subscribe"}
    BY ONLY <1>3
  <2> QED
    BY <1>2, <1>3, <2>1, <2>2, OtherInvs
<1> HIDE DEF k
<1>9. OnceInv' /\ finished' \in Nat
  BY <1>4, <1>6, <1>7, AllAdvances
<1>10. TypesInv'
  <2>1. exited \in BOOLEAN /\ nobodyIsReady \in BOOLEAN /\ sets \in [States -> Nat]
    BY <1>1 DEF TypesInv
  <2>2. exited' \in BOOLEAN
    <3>1. exited' = exited \/ exited' = TRUE
      OBVIOUS
    <3> QED
      BY ONLY <2>1, <3>1
  <2>3. nobodyIsReady' \in BOOLEAN
    BY ONLY <2>1, UNCHANGED firstVars DEF allVars, firstVars
  <2>4. sets' \in [States -> Nat]
    BY ONLY <1>4, <2>1
  <2> QED
    BY <1>1, <1>9, <2>2, <2>3, <2>4 DEF TypesInv, stateVars, resultVars, callbackVars, firstVars, allVars
<1> QED
  BY ONLY <1>8, <1>9, <1>10 DEF IInv

LEMMA FirstInput ==
    ASSUME IInv, NEW t \in Threads, todo[t] # <<>>, Head(todo[t])[1] \in {"call"},
           NEW p \in States, NEW i, NEW r, Tokens(Head(todo[t])) = {<<"firstOf", p, i>>},
           Fulfil(t, p, r, <<>>) \/ Nothing(t), UNCHANGED <<stateVars, tasks, asleep, allVars, sleeper>>,
           \/ errorsLeft' = errorsLeft /\ nobodyIsReady' = FALSE /\ (sets' = sets \/ nobodyIsReady)
           \/ /\ errorsLeft' = errorsLeft - 1 /\ nobodyIsReady' = nobodyIsReady
              /\ sets' = sets \/ errorsLeft = 1
    PROVE  IInv'
<1> DEFINE k == <<"firstOf", p, i>>
<1>1. LinesInv /\ TypesInv /\ tasks' = tasks /\ callback' = callback
  BY DEF IInv, stateVars, callbackVars
<1>2. Head(todo[t])[1] # "pop" /\ Head(todo[t])[1] \notin {"try", "check", "sleep"}
  OBVIOUS
<1>3. PICK new : Moved(t, Tokens(Head(todo[t])), {}, new) /\ \A op \in new : op[1] = "set"
  BY <1>1, <1>2, MayFulfil
<1>4. sets' = sets \/ sets' = [sets EXCEPT ![p] = @ + 1]
  BY <1>1, <1>2, MayFulfil
<1>5. Tokens(Head(todo[t])) \subseteq Carried
  BY <1>1, HeadIs
<1>6. k[1] = "firstOf" /\ k[2] = p
  OBVIOUS
<1>7. k \in Carried /\ Carried' \subseteq Carried \ {k}
  BY ONLY <1>3, <1>5, Tokens(Head(todo[t])) = {<<"firstOf", p, i>>} DEF Moved
<1>8. StateInv' /\ GetInv' /\ LinesInv'
  <2>1. UNCHANGED <<resultVars, callbackVars, sleeper>>
    BY DEF stateVars
  <2>2. /\ \A j \in {} : j[1] \in {"all", "firstOf"}
        /\ \A op \in new : op[1] \in {"set", "subscribe"}
    BY ONLY <1>3
  <2> QED
    BY <1>2, <1>3, <2>1, <2>2, OtherInvs
<1> HIDE DEF k
<1>9. OnceInv' /\ errorsLeft' \in Nat
  BY <1>4, <1>6, <1>7, FirstAdvances
<1>10. TypesInv'
  <2>1. exited \in BOOLEAN /\ nobodyIsReady \in BOOLEAN /\ sets \in [States -> Nat]
    BY <1>1 DEF TypesInv
  <2>2. nobodyIsReady' \in BOOLEAN
    <3>1. nobodyIsReady' = nobodyIsReady \/ nobodyIsReady' = FALSE
      OBVIOUS
    <3> QED
      BY ONLY <2>1, <3>1
  <2>3. exited' \in BOOLEAN
    BY ONLY <2>1, UNCHANGED allVars DEF allVars, firstVars
  <2>4. sets' \in [States -> Nat]
    BY ONLY <1>4, <2>1
  <2> QED
    BY <1>1, <1>9, <2>2, <2>3, <2>4 DEF TypesInv, stateVars, resultVars, callbackVars, firstVars, allVars
<1> QED
  BY ONLY <1>8, <1>9, <1>10 DEF IInv

LEMMA ExitAllStep == ASSUME IInv, NEW t \in Threads, ExitAll(t) PROVE IInv'
<1> DEFINE c == Head(todo[t])[2]
<1>1. /\ todo[t] # <<>> /\ Head(todo[t])[1] = "call" /\ c[1] = "all"
      /\ Fulfil(t, c[2], Arg(t, 3), <<>>) \/ Nothing(t)
      /\ UNCHANGED <<stateVars, tasks, asleep, answers, firstVars, sleeper>>
      /\ finished' = finished /\ exited' = TRUE /\ (sets' = sets \/ ~ exited)
  BY DEF ExitAll, Calling, Doing, Arg, getVars, Nothing
<1>2. PICK p, i : p = c[2] /\ i = c[3]
  OBVIOUS
<1>3. LinesInv
  BY DEF IInv
<1>4. /\ Tokens(Head(todo[t])) = CallTokens(c)
      /\ c[1] \in {"then", "recover", "compute", "forward", "flatMap", "all", "firstOf"} => c[2] \in States
  BY <1>1, <1>3, CallIs
<1> HIDE DEF c
<1>5. p \in States
  BY ONLY <1>1, <1>2, <1>4
<1>6. Tokens(Head(todo[t])) = {<<"all", p, i>>}
  BY ONLY <1>1, <1>2, <1>4, CallTokensOf
<1>7. Fulfil(t, p, Arg(t, 3), <<>>) \/ Nothing(t)
  BY ONLY <1>1, <1>2
<1>8. Head(todo[t])[1] \in {"call", "finish"} /\ Head(todo[t])[1] \in {"call"}
  BY ONLY <1>1
<1> QED
  BY <1>1, <1>5, <1>6, <1>7, <1>8, AllInput

LEMMA LastErrorStep == ASSUME IInv, NEW t \in Threads, LastError(t) PROVE IInv'
<1> DEFINE c == Head(todo[t])[2]
<1>1. /\ todo[t] # <<>> /\ Head(todo[t])[1] = "call" /\ c[1] = "firstOf"
      /\ Fulfil(t, c[2], Arg(t, 3), <<>>) \/ Nothing(t)
      /\ UNCHANGED <<stateVars, tasks, asleep, allVars, sleeper>>
      /\ errorsLeft' = errorsLeft - 1 /\ nobodyIsReady' = nobodyIsReady /\ (sets' = sets \/ errorsLeft = 1)
  BY DEF LastError, Calling, Doing, Arg, getVars, Nothing
<1>2. PICK p, i : p = c[2] /\ i = c[3]
  OBVIOUS
<1>3. LinesInv
  BY DEF IInv
<1>4. /\ Tokens(Head(todo[t])) = CallTokens(c)
      /\ c[1] \in {"then", "recover", "compute", "forward", "flatMap", "all", "firstOf"} => c[2] \in States
  BY <1>1, <1>3, CallIs
<1> HIDE DEF c
<1>5. p \in States
  BY ONLY <1>1, <1>2, <1>4
<1>6. Tokens(Head(todo[t])) = {<<"firstOf", p, i>>}
  BY ONLY <1>1, <1>2, <1>4, CallTokensOf
<1>7. Fulfil(t, p, Arg(t, 3), <<>>) \/ Nothing(t)
  BY ONLY <1>1, <1>2
<1>8. Head(todo[t])[1] \in {"call", "finish"} /\ Head(todo[t])[1] \in {"call"}
  BY ONLY <1>1
<1> QED
  BY <1>1, <1>5, <1>6, <1>7, <1>8, FirstInput

LEMMA FirstValueStep == ASSUME IInv, NEW t \in Threads, FirstValue(t) PROVE IInv'
<1> DEFINE c == Head(todo[t])[2]
<1>1. /\ todo[t] # <<>> /\ Head(todo[t])[1] = "call" /\ c[1] = "firstOf"
      /\ Fulfil(t, c[2], Arg(t, 3), <<>>) \/ Nothing(t)
      /\ UNCHANGED <<stateVars, tasks, asleep, allVars, sleeper>>
      /\ errorsLeft' = errorsLeft /\ nobodyIsReady' = FALSE /\ (sets' = sets \/ nobodyIsReady)
  BY DEF FirstValue, Calling, Doing, Arg, getVars, Nothing
<1>2. PICK p, i : p = c[2] /\ i = c[3]
  OBVIOUS
<1>3. LinesInv
  BY DEF IInv
<1>4. /\ Tokens(Head(todo[t])) = CallTokens(c)
      /\ c[1] \in {"then", "recover", "compute", "forward", "flatMap", "all", "firstOf"} => c[2] \in States
  BY <1>1, <1>3, CallIs
<1> HIDE DEF c
<1>5. p \in States
  BY ONLY <1>1, <1>2, <1>4
<1>6. Tokens(Head(todo[t])) = {<<"firstOf", p, i>>}
  BY ONLY <1>1, <1>2, <1>4, CallTokensOf
<1>7. Fulfil(t, p, Arg(t, 3), <<>>) \/ Nothing(t)
  BY ONLY <1>1, <1>2
<1>8. Head(todo[t])[1] \in {"call", "finish"} /\ Head(todo[t])[1] \in {"call"}
  BY ONLY <1>1
<1> QED
  BY <1>1, <1>5, <1>6, <1>7, <1>8, FirstInput

LEMMA FinishStep == ASSUME IInv, NEW t \in Threads, Finish(t) PROVE IInv'
<1> DEFINE h == Head(todo[t])
<1>1. PICK r : /\ todo[t] # <<>> /\ h[1] = "finish"
               /\ Fulfil(t, h[2], r, <<>>) \/ Nothing(t)
               /\ UNCHANGED <<stateVars, tasks, asleep, answers, firstVars, sleeper>>
               /\ finished' = finished + 1 /\ exited' = exited /\ (sets' = sets \/ finished + 1 = Len(answers))
  BY DEF Finish, Doing, Arg, getVars, Nothing
<1>2. PICK p, i : p = h[2] /\ i = h[3]
  OBVIOUS
<1>3. LinesInv
  BY DEF IInv
<1>4. IsOperation(h)
  BY <1>1, <1>3, HeadIs
<1>5. p \in States
  BY ONLY <1>1, <1>2, <1>4 DEF IsOperation, IsScriptOperation
<1>6. Tokens(h) = {<<"all", p, i>>}
  BY ONLY <1>1, <1>2, TokensOf
<1>7. Fulfil(t, p, r, <<>>) \/ Nothing(t)
  BY ONLY <1>1, <1>2
<1>8. h[1] \in {"call", "finish"}
  BY ONLY <1>1
<1> QED
  BY <1>1, <1>5, <1>6, <1>7, <1>8, AllInput

-----------------------------------------------------------------------------
(* The steps that subscribe the inputs of All and FirstOf                    *)

LEMMA Starts ==
    ASSUME NEW t, NEW kind, NEW inputs, NEW p, IInv, t \in Threads, kind \in {"all", "firstOf"},
           Combining(t, kind, inputs, p), UNCHANGED <<resultVars, callbackVars, tasks, sleeper, sets>>
    PROVE  /\ p \in States /\ Len(inputs) \in Nat /\ DOMAIN inputs = 1 .. Len(inputs)
           /\ Promise(p) \in Carried /\ Combinator(kind) \in Carried /\ sets[p] = 0
           /\ Started(Carried, Carried', kind, p, Len(inputs))
           /\ StateInv' /\ GetInv' /\ LinesInv' /\ SetsInv'
<1>1. LinesInv /\ tasks' = tasks /\ callback' = callback /\ sets' = sets
  BY DEF IInv, callbackVars
<1>0. todo[t] # <<>> /\ Head(todo[t])[1] = kind
  BY DEF Combining
<1>2. IsOperation(Head(todo[t])) /\ Tokens(Head(todo[t])) \subseteq Carried
  BY <1>0, <1>1, HeadIs
<1>3. Combinator(kind) \in Carried
  BY ONLY <1>0, <1>2, TokensOf, kind \in {"all", "firstOf"}
<1>4. \A k \in Carried : k[1] # kind
  <2>1. /\ Combination(Carried, sets, "all", "firstOf", Len(answers) - finished, exited)
        /\ Combination(Carried, sets, "firstOf", "all", errorsLeft, ~ nobodyIsReady)
    BY OnceIs
  <2> QED
    BY ONLY <1>3, <2>1, kind \in {"all", "firstOf"} DEF Combination
<1>5. /\ p \in States /\ Len(inputs) \in Nat /\ DOMAIN inputs = 1 .. Len(inputs)
      /\ Promise(p) \in Carried
  BY <1>1, <1>4, Combines
<1>6. PICK new : /\ Moved(t, {Promise(p), Combinator(kind)}, {<<kind, p, i>> : i \in 1 .. Len(inputs)}, new)
                 /\ \A op \in new : op[1] = "subscribe"
  BY <1>1, <1>4, Combines
<1> DEFINE made == {<<kind, p, i>> : i \in 1 .. Len(inputs)}
<1>7. made = Marks(kind, p, Len(inputs)) /\ \A k \in made : k[1] = kind
  BY DEF Marks
<1>8. Moved(t, {Promise(p), Combinator(kind)}, made, new)
  BY ONLY <1>6
<1> HIDE DEF made
<1>9. Started(Carried, Carried', kind, p, Len(inputs))
  BY ONLY <1>7, <1>8 DEF Moved, Started
<1>10. StateInv' /\ GetInv' /\ LinesInv'
  <2>1. UNCHANGED <<resultVars, callbackVars, sleeper>>
    OBVIOUS
  <2>2. /\ \A k \in made : k[1] \in {"all", "firstOf"}
        /\ \A op \in new : op[1] \in {"set", "subscribe"}
    BY ONLY <1>6, <1>7, kind \in {"all", "firstOf"}
  <2>3. Head(todo[t])[1] \notin {"try", "check", "sleep"}
    BY ONLY <1>0, kind \in {"all", "firstOf"}
  <2> QED
    BY <1>0, <1>8, <2>1, <2>2, <2>3, OtherInvs
<1>11. \A s \in States : sets[s] <= 1 /\ (Promise(s) \in Carried => sets[s] = 0)
  BY OnceIs
<1>12. \A s \in States : Promise(s) \in Carried' => Promise(s) \in Carried
  BY ONLY <1>7, <1>8, Kinds, kind \in {"all", "firstOf"} DEF Moved
<1>13. SetsInv'
  BY ONLY <1>1, <1>11, <1>12 DEF SetsInv
<1> QED
  BY ONLY <1>3, <1>5, <1>9, <1>10, <1>11, <1>13

LEMMA AllOfNothingStep == ASSUME IInv, NEW t \in Threads, AllOfNothing(t) PROVE IInv'
<1>1. PICK r : /\ todo[t] # <<>> /\ Head(todo[t])[1] = "all" /\ tasks' = tasks
               /\ Fulfil(t, Head(todo[t])[3], r, <<>>)
               /\ UNCHANGED <<stateVars, asleep, allVars, firstVars, sleeper>>
  BY DEF AllOfNothing, Doing, Arg, getVars, OnlyFulfils
<1>2. PICK p : p = Head(todo[t])[3]
  OBVIOUS
<1>3. LinesInv
  BY DEF IInv
<1>4. IsOperation(Head(todo[t]))
  BY <1>1, <1>3, HeadIs
<1>5. p \in States
  BY ONLY <1>1, <1>2, <1>4 DEF IsOperation, IsScriptOperation
<1>6. Promise(p) \in Tokens(Head(todo[t]))
  BY ONLY <1>1, <1>2, TokensOf
<1>7. Fulfil(t, p, r, <<>>) /\ Head(todo[t])[1] \in {"produce", "call", "all"}
  BY ONLY <1>1, <1>2
<1> QED
  BY <1>1, <1>5, <1>6, <1>7, PlainFulfil

LEMMA AllStep == ASSUME IInv, NEW t \in Threads, All(t) PROVE IInv'
<1>1. PICK inputs, p : inputs = Arg(t, 2) /\ p = Arg(t, 3)
  OBVIOUS
<1>2. /\ Combining(t, "all", inputs, p)
      /\ answers' = [i \in DOMAIN inputs |-> Null] /\ finished' = finished /\ exited' = exited
      /\ UNCHANGED <<stateVars, tasks, asleep, firstVars, sleeper, sets>>
  BY <1>1 DEF Combining, All, Doing, getVars
<1>3. UNCHANGED <<resultVars, callbackVars, tasks, sleeper, sets>> /\ "all" \in {"all", "firstOf"}
  BY <1>2 DEF stateVars
<1>4. /\ p \in States /\ Len(inputs) \in Nat /\ DOMAIN inputs = 1 .. Len(inputs)
      /\ Promise(p) \in Carried /\ Combinator("all") \in Carried /\ sets[p] = 0
      /\ Started(Carried, Carried', "all", p, Len(inputs))
      /\ StateInv' /\ GetInv' /\ LinesInv' /\ SetsInv'
  BY <1>1, <1>2, <1>3, Starts
<1>5. IsSeq(answers') /\ Len(answers') = Len(inputs)
  <2> DEFINE n == Len(inputs)
  <2>1. answers' \in [1 .. n -> {Null}]
    BY ONLY <1>2, <1>4
  <2>2. answers' \in Seq({Null}) /\ Len(answers') = n
    BY ONLY <1>4, <2>1, FunctionIsSeq
  <2> QED
    BY ONLY <2>2, Seqs
<1> DEFINE shut == ~ nobodyIsReady
<1>6. /\ Combination(Carried, sets, "all", "firstOf", Len(answers) - finished, exited)
      /\ Combination(Carried, sets, "firstOf", "all", errorsLeft, shut)
      /\ finished = 0 /\ errorsLeft \in Int
  BY <1>4, OnceIs
<1> HIDE DEF shut
<1>7. /\ Combination(Carried', sets, "all", "firstOf", Len(inputs), exited)
      /\ Combination(Carried', sets, "firstOf", "all", errorsLeft, shut)
  <2>1. PICK held, held2, times, n : held = Carried /\ held2 = Carried' /\ times = sets /\ n = Len(inputs)
    OBVIOUS
  <2>2. Combination(held, times, "all", "firstOf", Len(answers) - finished, exited)
    BY ONLY <1>6, <2>1
  <2>3. Combination(held, times, "firstOf", "all", errorsLeft, shut)
    BY ONLY <1>6, <2>1
  <2>4. Started(held, held2, "all", p, n)
    BY ONLY <1>4, <2>1
  <2>5. Promise(p) \in held /\ Combinator("all") \in held /\ times[p] = 0 /\ p \in States /\ n \in Nat /\ errorsLeft \in Int
    BY ONLY <1>4, <1>6, <2>1
  <2>6. "all" \in {"all", "firstOf"} /\ "firstOf" \in {"all", "firstOf"} /\ "all" # "firstOf"
    OBVIOUS
  <2>7. Combination(held2, times, "all", "firstOf", n, exited)
    <3>1. Inputs(held, "firstOf", p) = {}
      BY ONLY <2>3, <2>5 DEF Combination
    <3> QED
      BY ONLY <2>2, <2>4, <2>5, <2>6, <3>1, CombinationStarts
  <2>8. Combination(held2, times, "firstOf", "all", errorsLeft, shut)
    BY ONLY <2>3, <2>4, <2>5, <2>6, CombinationElsewhere
  <2> QED
    BY ONLY <2>1, <2>7, <2>8
<1>8. AllInv'
  <2>1. Len(answers') - finished' = Len(inputs) /\ finished' = 0
    BY ONLY <1>2, <1>4, <1>5, <1>6
  <2> QED
    BY ONLY <1>2, <1>4, <1>5, <1>7, <2>1 DEF AllInv
<1>9. FirstInv'
  <2>1. errorsLeft' = errorsLeft /\ nobodyIsReady' = nobodyIsReady
    BY <1>2 DEF firstVars
  <2> QED
    BY ONLY <1>2, <1>7, <2>1 DEF FirstInv, shut
<1>10. TypesInv'
  <2>1. TypesInv
    BY DEF IInv
  <2> QED
    BY <1>2, <1>5, <2>1 DEF TypesInv, stateVars, resultVars, callbackVars, firstVars
<1> QED
  BY ONLY <1>4, <1>8, <1>9, <1>10 DEF IInv, OnceInv

LEMMA FirstOfStep == ASSUME IInv, NEW t \in Threads, FirstOf(t) PROVE IInv'
<1>1. PICK inputs, p : inputs = Arg(t, 2) /\ p = Arg(t, 3)
  OBVIOUS
<1>2. /\ Combining(t, "firstOf", inputs, p)
      /\ errorsLeft' = Len(inputs) /\ nobodyIsReady' = nobodyIsReady
      /\ UNCHANGED <<stateVars, tasks, asleep, allVars, sleeper, sets>>
  BY <1>1 DEF Combining, FirstOf, Doing, getVars
<1>3. UNCHANGED <<resultVars, callbackVars, tasks, sleeper, sets>> /\ "firstOf" \in {"all", "firstOf"}
  BY <1>2 DEF stateVars
<1>4. /\ p \in States /\ Len(inputs) \in Nat /\ DOMAIN inputs = 1 .. Len(inputs)
      /\ Promise(p) \in Carried /\ Combinator("firstOf") \in Carried /\ sets[p] = 0
      /\ Started(Carried, Carried', "firstOf", p, Len(inputs))
      /\ StateInv' /\ GetInv' /\ LinesInv' /\ SetsInv'
  BY <1>1, <1>2, <1>3, Starts
<1> DEFINE shut == ~ nobodyIsReady
<1>6. /\ Combination(Carried, sets, "all", "firstOf", Len(answers) - finished, exited)
      /\ Combination(Carried, sets, "firstOf", "all", errorsLeft, shut)
      /\ finished <= Len(answers) /\ (Combinator("all") \in Carried => finished = 0)
      /\ Len(answers) - finished \in Int
  BY OnceIs
<1> HIDE DEF shut
<1>7. /\ Combination(Carried', sets, "firstOf", "all", Len(inputs), shut)
      /\ Combination(Carried', sets, "all", "firstOf", Len(answers) - finished, exited)
  <2>1. PICK held, held2, times, n, elsewhere :
          held = Carried /\ held2 = Carried' /\ times = sets /\ n = Len(inputs) /\ elsewhere = Len(answers) - finished
    OBVIOUS
  <2>2. Combination(held, times, "all", "firstOf", elsewhere, exited)
    BY ONLY <1>6, <2>1
  <2>3. Combination(held, times, "firstOf", "all", errorsLeft, shut)
    BY ONLY <1>6, <2>1
  <2>4. Started(held, held2, "firstOf", p, n)
    BY ONLY <1>4, <2>1
  <2>5. Promise(p) \in held /\ Combinator("firstOf") \in held /\ times[p] = 0 /\ p \in States /\ n \in Nat /\ elsewhere \in Int
    BY ONLY <1>4, <1>6, <2>1
  <2>6. "all" \in {"all", "firstOf"} /\ "firstOf" \in {"all", "firstOf"} /\ "firstOf" # "all"
    OBVIOUS
  <2>7. Combination(held2, times, "firstOf", "all", n, shut)
    <3>1. Inputs(held, "all", p) = {}
      BY ONLY <2>2, <2>5 DEF Combination
    <3> QED
      BY ONLY <2>3, <2>4, <2>5, <2>6, <3>1, CombinationStarts
  <2>8. Combination(held2, times, "all", "firstOf", elsewhere, exited)
    BY ONLY <2>2, <2>4, <2>5, <2>6, CombinationElsewhere
  <2> QED
    BY ONLY <2>1, <2>7, <2>8
<1>8. FirstInv'
  BY ONLY <1>2, <1>7 DEF FirstInv, shut
<1>9. AllInv'
  <2>1. answers' = answers /\ finished' = finished /\ exited' = exited
    BY <1>2 DEF allVars
  <2>2. Combinator("all") \in Carried' => Combinator("all") \in Carried
    <3>1. \A k \in Marks("firstOf", p, Len(inputs)) : k[1] = "firstOf"
      BY Kinds DEF Marks
    <3>2. Combinator("all")[1] = "combinator"
      BY ONLY Kinds
    <3> QED
      BY ONLY <1>4, <3>1, <3>2 DEF Started
  <2> QED
    BY ONLY <1>2, <1>6, <1>7, <2>1, <2>2 DEF AllInv
<1>10. TypesInv'
  <2>1. TypesInv
    BY DEF IInv
  <2> QED
    BY <1>2, <1>4, <2>1 DEF TypesInv, stateVars, resultVars, callbackVars, allVars
<1> QED
  BY ONLY <1>4, <1>8, <1>9, <1>10 DEF IInv, OnceInv

-----------------------------------------------------------------------------
(* The steps of GetResult and GetReadyResult                                 *)

LEMMA GetResultStep == ASSUME IInv, NEW t \in Threads, GetResult(t) PROVE IInv'
<1>1. /\ todo[t] # <<>> /\ Head(todo[t])[1] = "get" /\ sleeper' = [sleeper EXCEPT ![t] = 0]
      /\ UNCHANGED <<stateVars, asleep, allVars, firstVars, sets>>
  BY DEF GetResult, Doing
<1>2. TypesInv /\ LinesInv /\ StateInv /\ GetInv /\ OnceInv
  BY DEF IInv
<1>3. /\ Head(todo[t]) \in ToSet(todo[t]) /\ IsSeq(todo[t]) /\ Ordered(todo[t])
      /\ \A op \in ToSet(todo[t]) : op[1] = "get" => t \in Clients
  BY <1>1, <1>2, HeadIs DEF LinesInv, ThreadsInv
<1>4. t \in Clients
  BY ONLY <1>1, <1>3
<1>5. Frame(t) \notin Carried
  <2> DEFINE q == todo[t]
  <2>1. /\ Len(q) \in Nat /\ 1 \in 1 .. Len(q) /\ Head(q) = q[1] /\ ToSet(q) = {q[i] : i \in 1 .. Len(q)}
    BY ZenonT(60), <1>1, <1>3, HeadFacts, SeqFacts
  <2>2. <<"sleep">>[1] = "sleep"
    OBVIOUS
  <2>3. ASSUME <<"sleep">> \in ToSet(q) PROVE FALSE
    <3>1. PICK j \in 1 .. Len(q) : q[j] = <<"sleep">>
      BY ONLY <2>1, <2>3
    <3>2. j # 1 /\ q[1][1] = "get" /\ q[j][1] = "sleep"
      BY ONLY <1>1, <2>1, <2>2, <3>1
    <3>3. 1 < j
      BY ONLY <2>1, <3>2, j \in 1 .. Len(q)
    <3> QED
      BY ONLY <1>3, <2>1, <3>2, <3>3, j \in 1 .. Len(q) DEF Ordered
  <2> QED
    BY <1>2, <1>4, <2>3 DEF GetInv
<1>6. PICK new : /\ Moved(t, {}, {Frame(t)}, new) /\ <<"sleep">> \in ToSet(todo'[t])
                 /\ \A op \in new : op[1] \in {"via", "subscribe", "sleep"}
  BY <1>2, <1>5, Gets
<1>7. Keeps(t) /\ LinesInv' /\ Carried' \subseteq Carried \cup {Frame(t)}
  BY ONLY <1>6 DEF Moved
<1>8. /\ \A s \in States : Stays(<<"try", s>>) /\ Stays(<<"check", s>>)
      /\ Stays(<<"sleep">>)
  BY <1>1, <1>7, HeadStays
<1>9. \A s : Future(s) \notin {Frame(t)}
  BY ONLY Kinds
<1>10. StateInv'
  <2>1. \A s \in States : Future(s) \notin {Frame(t)} /\ Stays(<<"try", s>>) /\ Stays(<<"check", s>>)
    BY ONLY <1>8, <1>9
  <2>2. result' = result /\ ready' = ready /\ callback' = callback /\ callbackReady' = callbackReady
    BY <1>1 DEF stateVars, resultVars, callbackVars
  <2>3. \A op \in new : op \in Ops \/ op[1] \notin {"ready", "try", "publish"}
    BY ONLY <1>6
  <2> QED
    BY <1>2, <1>6, <2>1, <2>2, <2>3, StateKept
<1>11. GetInv'
  <2>1. \A u \in Clients : Frame(u) \in Carried => <<"sleep">> \in ToSet(todo[u]) /\ sleeper[u] = 0
    BY <1>2 DEF GetInv
  <2>2. \A u \in Clients : u \in Threads
    BY DEF Threads
  <2>3. \A u \in Clients : <<"sleep">> \in ToSet(todo[u]) => <<"sleep">> \in ToSet(todo'[u])
    BY ONLY <1>8, <2>2 DEF Stays
  <2>4. \A u \in Clients : Frame(u) \in Carried' => u = t \/ Frame(u) \in Carried
    BY ONLY <1>7, Kinds
  <2>5. sleeper'[t] = 0 /\ \A u \in Clients : u # t => sleeper'[u] = sleeper[u]
    BY <1>1, <1>2, <1>4 DEF TypesInv
  <2>6. \A u \in Clients : Frame(u) \in Carried' => <<"sleep">> \in ToSet(todo'[u]) /\ sleeper'[u] = 0
    BY ONLY <1>6, <2>1, <2>3, <2>4, <2>5
  <2> QED
    BY ONLY <2>6 DEF GetInv
<1>12. OnceInv'
  <2>1. \A k \in Carried' : k[1] # "frame" => k \in Carried
    BY ONLY <1>7, Kinds
  <2>2. allVars' = allVars /\ firstVars' = firstVars /\ sets' = sets
    BY <1>1
  <2> QED
    BY <1>2, <2>1, <2>2, OnceKept
<1>13. TypesInv'
  <2>1. sleeper \in [Clients -> 0 .. 1]
    BY <1>2 DEF TypesInv
  <2>2. sleeper' \in [Clients -> 0 .. 1]
    <3>1. 0 \in 0 .. 1
      OBVIOUS
    <3> QED
      BY ONLY <1>1, <1>4, <2>1, <3>1
  <2>3. answers' = answers /\ finished' = finished /\ exited' = exited /\ errorsLeft' = errorsLeft
        /\ nobodyIsReady' = nobodyIsReady /\ sets' = sets /\ asleep' = asleep /\ executor' = executor
        /\ result' = result /\ ready' = ready /\ callbackReady' = callbackReady
    BY <1>1 DEF stateVars, resultVars, callbackVars, allVars, firstVars
  <2> QED
    BY ONLY <1>2, <2>2, <2>3 DEF TypesInv
<1> QED
  BY ONLY <1>7, <1>10, <1>11, <1>12, <1>13 DEF IInv

LEMMA StoreGetStep == ASSUME IInv, NEW t \in Threads, StoreGet(t) PROVE IInv'
<1>1. /\ todo[t] # <<>> /\ Head(todo[t])[1] = "call" /\ UNCHANGED <<stateVars, asleep>>
      /\ UNCHANGED <<resultVars, callbackVars, allVars, firstVars, sleeper, sets>>
  BY DEF StoreGet, Calling, Doing, stateVars
<1>2. TypesInv /\ LinesInv
  BY DEF IInv
<1>3. TypesInv'
  BY <1>1, <1>2 DEF TypesInv, stateVars, resultVars, callbackVars, allVars, firstVars
<1>4. PICK new : Moved(t, {}, {}, new) /\ \A op \in new : op[1] \in {"awake", "wake"}
  BY <1>2, StoresGet
<1>5. \A op \in new : op \in Ops \/ op[1] \notin {"ready", "try", "publish"}
  BY ONLY <1>4
<1>6. Head(todo[t])[1] \notin {"try", "check", "sleep"}
  BY ONLY <1>1
<1> QED
  BY <1>1, <1>3, <1>4, <1>5, <1>6, PlainMore

LEMMA StoreSleeperStep == ASSUME IInv, NEW t \in Threads, StoreSleeper(t) PROVE IInv'
<1>0. PICK v : v = Head(todo[t])[2]
  OBVIOUS
<1>1. /\ todo[t] # <<>> /\ Head(todo[t])[1] = "awake" /\ sleeper' = [sleeper EXCEPT ![v] = 1]
      /\ UNCHANGED <<stateVars, tasks, asleep, allVars, firstVars, sets>> /\ Continue(t, <<>>)
  BY <1>0 DEF StoreSleeper, Doing, Arg
<1>2. TypesInv /\ LinesInv /\ StateInv /\ GetInv /\ OnceInv
  BY DEF IInv
<1>3. IsOperation(Head(todo[t]))
  BY <1>1, <1>2, HeadIs
<1>4. v \in Clients
  <2>1. <<"sleep">>[1] = "sleep" /\ <<"pop">>[1] = "pop"
    OBVIOUS
  <2> QED
    BY ONLY <1>0, <1>1, <1>3, <2>1 DEF IsOperation, IsScriptOperation
<1>5. Tokens(Head(todo[t])) = {Frame(v)}
  BY ONLY <1>0, <1>1, TokensOf
<1>6. Moved(t, {Frame(v)}, {}, {})
  <2>1. callback' = callback /\ tasks' = tasks /\ Head(todo[t])[1] # "pop"
    BY <1>1 DEF stateVars, callbackVars
  <2>2. Moved(t, Tokens(Head(todo[t])), {}, {})
    BY <1>1, <1>2, <2>1, Finishes
  <2> QED
    BY ONLY <1>5, <2>2
<1>7. Keeps(t) /\ LinesInv' /\ Carried' \subseteq Carried \ {Frame(v)}
  BY ONLY <1>6 DEF Moved
<1>8. /\ \A s \in States : Stays(<<"try", s>>) /\ Stays(<<"check", s>>)
      /\ Stays(<<"sleep">>)
  BY <1>1, <1>7, HeadStays
<1>9. StateInv'
  <2>1. \A s \in States : Future(s) \notin {} /\ Stays(<<"try", s>>) /\ Stays(<<"check", s>>)
    BY ONLY <1>8
  <2>2. result' = result /\ ready' = ready /\ callback' = callback /\ callbackReady' = callbackReady
    BY <1>1 DEF stateVars, resultVars, callbackVars
  <2>3. \A op \in {} : op \in Ops \/ op[1] \notin {"ready", "try", "publish"}
    OBVIOUS
  <2> QED
    BY <1>2, <1>6, <2>1, <2>2, <2>3, StateKept
<1>10. GetInv'
  <2>1. \A u \in Clients : Frame(u) \in Carried => <<"sleep">> \in ToSet(todo[u]) /\ sleeper[u] = 0
    BY <1>2 DEF GetInv
  <2>2. \A u \in Clients : u \in Threads
    BY DEF Threads
  <2>3. \A u \in Clients : <<"sleep">> \in ToSet(todo[u]) => <<"sleep">> \in ToSet(todo'[u])
    BY ONLY <1>8, <2>2 DEF Stays
  <2>4. \A u \in Clients : Frame(u) \in Carried' => u # v /\ Frame(u) \in Carried
    BY ONLY <1>7
  <2>5. \A u \in Clients : u # v => sleeper'[u] = sleeper[u]
    BY <1>1, <1>2 DEF TypesInv
  <2>6. \A u \in Clients : Frame(u) \in Carried' => <<"sleep">> \in ToSet(todo'[u]) /\ sleeper'[u] = 0
    BY ONLY <2>1, <2>3, <2>4, <2>5
  <2> QED
    BY ONLY <2>6 DEF GetInv
<1>11. OnceInv'
  <2>1. \A k \in Carried' : k[1] # "frame" => k \in Carried
    BY ONLY <1>7
  <2>2. allVars' = allVars /\ firstVars' = firstVars /\ sets' = sets
    BY <1>1
  <2> QED
    BY <1>2, <2>1, <2>2, OnceKept
<1>12. TypesInv'
  <2>1. sleeper \in [Clients -> 0 .. 1]
    BY <1>2 DEF TypesInv
  <2>2. sleeper' \in [Clients -> 0 .. 1]
    <3>1. 1 \in 0 .. 1
      OBVIOUS
    <3> QED
      BY ONLY <1>1, <1>4, <2>1, <3>1
  <2>3. answers' = answers /\ finished' = finished /\ exited' = exited /\ errorsLeft' = errorsLeft
        /\ nobodyIsReady' = nobodyIsReady /\ sets' = sets /\ asleep' = asleep /\ executor' = executor
        /\ result' = result /\ ready' = ready /\ callbackReady' = callbackReady
    BY <1>1 DEF stateVars, resultVars, callbackVars, allVars, firstVars
  <2> QED
    BY ONLY <1>2, <2>2, <2>3 DEF TypesInv
<1> QED
  BY ONLY <1>7, <1>9, <1>10, <1>11, <1>12 DEF IInv

LEMMA WakeSleeperStep == ASSUME IInv, NEW t \in Threads, WakeSleeper(t) PROVE IInv'
<1>1. /\ todo[t] # <<>> /\ Head(todo[t])[1] = "wake" /\ Continue(t, <<>>) /\ tasks' = tasks /\ UNCHANGED stateVars
      /\ \E v : asleep' = [asleep EXCEPT ![v] = IF @ = "sleeper" THEN Null ELSE @]
      /\ UNCHANGED <<resultVars, callbackVars, allVars, firstVars, sleeper, sets>>
  BY DEF WakeSleeper, Doing, stateVars, futureVars, getVars
<1>2. TypesInv
  BY DEF IInv
<1>3. asleep' \in [Threads -> States \cup {"sleeper", Null}]
  BY <1>1, <1>2 DEF TypesInv
<1>4. TypesInv'
  BY <1>1, <1>2, <1>3 DEF TypesInv, stateVars, resultVars, callbackVars, allVars, firstVars
<1>5. Head(todo[t])[1] \notin {"try", "check", "sleep", "pop"}
  BY ONLY <1>1
<1> QED
  BY <1>1, <1>4, <1>5, PlainDone

LEMMA SleepStep == ASSUME IInv, NEW t \in Threads, t \in Clients, Sleep(t) PROVE IInv'
<1>1. /\ todo[t] # <<>> /\ Head(todo[t])[1] = "sleep" /\ tasks' = tasks /\ UNCHANGED stateVars
      /\ UNCHANGED <<resultVars, callbackVars, allVars, firstVars, sleeper, sets>>
  BY DEF Sleep, Doing, stateVars, futureVars, getVars
<1>2. TypesInv /\ LinesInv /\ StateInv /\ GetInv /\ OnceInv
  BY DEF IInv
<1>3. CASE sleeper[t] = 0
  <2>1. asleep' = [asleep EXCEPT ![t] = "sleeper"] /\ todo' = todo
    BY <1>3 DEF Sleep
  <2>2. TypesInv'
    BY <1>1, <1>2, <2>1 DEF TypesInv, stateVars, resultVars, callbackVars, allVars, firstVars
  <2> QED
    BY <1>1, <2>1, <2>2, PlainIdle
<1>4. CASE sleeper[t] # 0
  <2>1. asleep' = asleep /\ Continue(t, <<>>)
    BY <1>4 DEF Sleep
  <2>2. TypesInv'
    BY <1>1, <1>2, <2>1 DEF TypesInv, stateVars, resultVars, callbackVars, allVars, firstVars
  <2>3. Frame(t) \notin Carried
    BY <1>2, <1>4 DEF GetInv
  <2>4. callback' = callback /\ allVars' = allVars /\ firstVars' = firstVars /\ sleeper' = sleeper /\ sets' = sets
        /\ result' = result /\ ready' = ready /\ callbackReady' = callbackReady
    BY <1>1 DEF resultVars, callbackVars
  <2>5. Moved(t, {}, {}, {})
    <3>1. Head(todo[t])[1] # "pop"
      BY ONLY <1>1
    <3> QED
      BY <1>1, <1>2, <2>1, <2>4, <3>1, Finishes
  <2>6. Keeps(t) /\ LinesInv' /\ Carried' \subseteq Carried
    BY ONLY <2>5 DEF Moved
  <2>7. \A s \in States : Future(s) \notin {} /\ Stays(<<"try", s>>) /\ Stays(<<"check", s>>)
    <3>1. \A s : <<"try", s>>[1] = "try" /\ <<"check", s>>[1] = "check"
      OBVIOUS
    <3>2. \A s \in States : Head(todo[t]) # <<"try", s>> /\ Head(todo[t]) # <<"check", s>>
      BY ONLY <1>1, <3>1
    <3> QED
      BY <2>6, <3>2, StaysUnlessHead
  <2>8. StateInv'
    <3>1. \A op \in {} : op \in Ops \/ op[1] \notin {"ready", "try", "publish"}
      OBVIOUS
    <3> QED
      BY <1>2, <2>4, <2>5, <2>7, <3>1, StateKept
  <2>9. GetInv'
    <3>1. \A u \in Clients : Frame(u) \in Carried => <<"sleep">> \in ToSet(todo[u]) /\ sleeper[u] = 0
      BY <1>2 DEF GetInv
    <3>2. \A u \in Clients : u \in Threads
      BY DEF Threads
    <3>3. \A u \in Threads : u # t => \A op \in ToSet(todo[u]) : op \in ToSet(todo'[u])
      BY ONLY <2>6 DEF Keeps
    <3>4. \A u \in Clients : Frame(u) \in Carried' => <<"sleep">> \in ToSet(todo'[u]) /\ sleeper'[u] = 0
      BY ONLY <2>3, <2>4, <2>6, <3>1, <3>2, <3>3
    <3> QED
      BY ONLY <3>4 DEF GetInv
  <2>10. OnceInv'
    <3>1. \A k \in Carried' : k[1] # "frame" => k \in Carried
      BY ONLY <2>6
    <3> QED
      BY <1>2, <2>4, <3>1, OnceKept
  <2> QED
    BY ONLY <2>2, <2>6, <2>8, <2>9, <2>10 DEF IInv
<1> QED
  BY ONLY <1>3, <1>4

LEMMA GetReadyResultStep == ASSUME IInv, NEW t \in Threads, t \in Clients, GetReadyResult(t) PROVE IInv'
<1>0. PICK s : s = Head(todo[t])[2]
  OBVIOUS
<1>1. /\ todo[t] # <<>> /\ Head(todo[t])[1] = "getReady" /\ tasks' = tasks /\ s = Arg(t, 2)
      /\ UNCHANGED <<ready, callbackVars, executor, allVars, firstVars, sleeper, sets>>
  BY <1>0 DEF GetReadyResult, Doing, Arg
<1>2. TypesInv /\ LinesInv /\ StateInv /\ GetInv /\ OnceInv
  BY DEF IInv
<1>3. IsOperation(Head(todo[t])) /\ Tokens(Head(todo[t])) \subseteq Carried
  BY <1>1, <1>2, HeadIs
<1>4. s \in States
  BY ONLY <1>0, <1>1, <1>3 DEF IsOperation, IsScriptOperation
<1>5. Tokens(Head(todo[t])) = {Future(s)}
  BY ONLY <1>0, <1>1, TokensOf
<1>6. CASE ready[s]
  <2>1. result' = [result EXCEPT ![s] = <<>>] /\ Continue(t, <<>>) /\ asleep' = asleep
    BY <1>1, <1>6 DEF GetReadyResult
  <2>2. Moved(t, {Future(s)}, {}, {})
    <3>1. Head(todo[t])[1] # "pop" /\ callback' = callback
      BY <1>1 DEF callbackVars
    <3>2. Moved(t, Tokens(Head(todo[t])), {}, {})
      BY <1>1, <1>2, <2>1, <3>1, Finishes
    <3> QED
      BY ONLY <1>5, <3>2
  <2>3. Keeps(t) /\ LinesInv' /\ Carried' \subseteq Carried \ {Future(s)} /\ Ops' \subseteq Ops
    BY ONLY <2>2 DEF Moved
  <2>4. GetInv' /\ OnceInv'
    <3>1. todo[t] = <<>> \/ Head(todo[t])[1] # "sleep"
      BY ONLY <1>1
    <3>2. UNCHANGED <<allVars, firstVars, sleeper, sets>>
      BY ONLY <1>1
    <3> QED
      BY <2>2, <3>1, <3>2, FutureVars
  <2>5. TypesInv'
    BY <1>1, <1>2, <2>1 DEF TypesInv, callbackVars, allVars, firstVars
  <2>6. ready' = ready /\ callback' = callback /\ callbackReady' = callbackReady
    BY <1>1 DEF callbackVars
  <2>7. DOMAIN result = States
    BY <1>2 DEF TypesInv
  <2>8. /\ \A q \in States : callbackReady[q] => callback[q] # <<>> /\ Future(q) \notin Carried
        /\ \A q \in States : ready[q] => result[q] # <<>> \/ (~ callbackReady[q] /\ Future(q) \notin Carried)
        /\ \A op \in Ops : op[1] \in {"ready", "try"} =>
              result[op[2]] # <<>> \/ (~ callbackReady[op[2]] /\ Future(op[2]) \notin Carried)
        /\ \A op \in Ops : op[1] = "publish" => callback[op[2]] # <<>>
        /\ \A q \in States : ready[q] /\ callbackReady[q] => SomeoneLooks(q)
    BY <1>2, StateIs
  <2>9. ~ callbackReady[s] /\ Future(s) \notin Carried'
    BY ONLY <1>3, <1>4, <1>5, <2>3, <2>8
  <2>10. \A q \in States : q # s => result'[q] = result[q]
    BY ONLY <2>1, <2>7
  <2>11. \A op \in Ops : op[1] \in {"ready", "try", "publish"} => op[2] \in States
    BY <1>2, StepTargets
  <2>12. \A q \in States : Future(q) \in Carried' => Future(q) \in Carried
    BY ONLY <2>3
  <2>13. \A q \in States : SomeoneLooks(q) => SomeoneLooks(q)'
    <3>1. \A q \in States : Stays(<<"try", q>>) /\ Stays(<<"check", q>>)
      <4>1. todo[t] = <<>> \/ Head(todo[t])[1] \notin {"try", "check", "sleep"}
        BY ONLY <1>1
      <4> QED
        BY <2>3, <4>1, HeadStays
    <3> QED
      BY <3>1, LooksOn
  <2>14. \A q \in States : callbackReady'[q] => callback'[q] # <<>> /\ Future(q) \notin Carried'
    BY ONLY <2>6, <2>8, <2>12
  <2>15. \A q \in States : ready'[q] => result'[q] # <<>> \/ (~ callbackReady'[q] /\ Future(q) \notin Carried')
    BY ONLY <2>6, <2>8, <2>9, <2>10, <2>12
  <2>16. \A op \in Ops' : op[1] \in {"ready", "try"} =>
            result'[op[2]] # <<>> \/ (~ callbackReady'[op[2]] /\ Future(op[2]) \notin Carried')
    BY ONLY <2>3, <2>6, <2>8, <2>9, <2>10, <2>11, <2>12
  <2>17. \A op \in Ops' : op[1] = "publish" => callback'[op[2]] # <<>>
    BY ONLY <2>3, <2>6, <2>8
  <2>18. \A q \in States : ready'[q] /\ callbackReady'[q] => SomeoneLooks(q)'
    BY ONLY <2>6, <2>8, <2>13
  <2>19. StateInv'
    BY <2>14, <2>15, <2>16, <2>17, <2>18, StateNext
  <2> QED
    BY ONLY <2>3, <2>4, <2>5, <2>19 DEF IInv
<1>7. CASE ~ ready[s]
  <2>1. asleep' = [asleep EXCEPT ![t] = s] /\ result' = result /\ todo' = todo
    BY <1>1, <1>7 DEF GetReadyResult
  <2>2. TypesInv'
    BY <1>1, <1>2, <1>4, <2>1 DEF TypesInv, callbackVars, allVars, firstVars
  <2>3. UNCHANGED <<resultVars, callbackVars, allVars, firstVars, sleeper, sets>>
    BY <1>1, <2>1 DEF resultVars
  <2> QED
    BY <1>1, <2>1, <2>2, <2>3, PlainIdle
<1> QED
  BY ONLY <1>6, <1>7

LEMMA WakeUpStep == ASSUME IInv, NEW t \in Threads, SpuriousWakeUp(t) PROVE IInv'
<1>1. /\ todo' = todo /\ tasks' = tasks /\ UNCHANGED stateVars /\ asleep' = [asleep EXCEPT ![t] = Null]
      /\ UNCHANGED <<resultVars, callbackVars, allVars, firstVars, sleeper, sets>>
  BY DEF SpuriousWakeUp, stateVars, futureVars, getVars
<1>2. TypesInv
  BY DEF IInv
<1>3. TypesInv'
  BY <1>1, <1>2 DEF TypesInv, stateVars, resultVars, callbackVars, allVars, firstVars
<1> QED
  BY <1>1, <1>3, PlainIdle

\* Nothing changes.
LEMMA StutterStep == ASSUME IInv, UNCHANGED vars PROVE IInv'
<1>1. /\ result' = result /\ ready' = ready /\ callback' = callback /\ callbackReady' = callbackReady
      /\ executor' = executor /\ tasks' = tasks /\ todo' = todo /\ asleep' = asleep
      /\ answers' = answers /\ finished' = finished /\ exited' = exited /\ errorsLeft' = errorsLeft
      /\ nobodyIsReady' = nobodyIsReady /\ sleeper' = sleeper /\ sets' = sets
  BY DEF vars, stateVars, resultVars, callbackVars, threadVars, futureVars, allVars, firstVars, getVars
<1>2. RunByHand' = RunByHand
  BY <1>1 DEF RunByHand
<1>3. Queues' = Queues
  BY <1>1, <1>2 DEF Queues, Waiting
<1>4. Belt' = Belt
  BY <1>1, <1>3 DEF Belt
<1>5. Carried' = Carried /\ Ops' = Ops
  BY <1>4 DEF Carried, Ops
<1>6. LinesInv'
  BY <1>1, <1>2, <1>4, <1>5 DEF IInv, LinesInv, ThreadsInv, QueuesInv
<1>7. TypesInv'
  BY <1>1 DEF IInv, TypesInv
<1>8. StateInv'
  BY <1>1, <1>5 DEF IInv, StateInv, TakenInv, ResultInv, HasResult, PublishInv, ForgetInv, SomeoneLooks
<1>9. GetInv'
  BY <1>1, <1>5 DEF IInv, GetInv
<1>10. OnceInv'
  BY <1>1, <1>5 DEF IInv, OnceInv, SetsInv, AllInv, FirstInv
<1> QED
  BY ONLY <1>6, <1>7, <1>8, <1>9, <1>10 DEF IInv

-----------------------------------------------------------------------------

LEMMA NextStep == ASSUME IInv, NEW t \in Threads, Step(t) \/ SpuriousWakeUp(t) PROVE IInv'
<1>1. CASE SharedStep(t) /\ UNCHANGED futureVars
  <2>1. CASE StoreResult(t)
    BY <1>1, <2>1, StoreResultStep
  <2>2. CASE StoreReady(t)
    BY <1>1, <2>2, StoreReadyStep
  <2>3. CASE TryCallback(t)
    BY <1>1, <2>3, TryCallbackStep
  <2>4. CASE Notify(t)
    BY <1>1, <2>4, NotifyStep
  <2>5. CASE StoreCallback(t)
    BY <1>1, <2>5, StoreCallbackStep
  <2>6. CASE PublishCallback(t)
    BY <1>1, <2>6, PublishCallbackStep
  <2>7. CASE CheckResult(t)
    BY <1>1, <2>7, CheckResultStep
  <2>8. CASE RunManual(t) \/ PopManual(t)
    BY <1>1, <2>8, ManualStep
  <2>9. CASE Take(t)
    BY <1>1, <2>9, TakeStep
  <2> QED
    BY <1>1, <2>1, <2>2, <2>3, <2>4, <2>5, <2>6, <2>7, <2>8, <2>9 DEF SharedStep
<1>2. CASE FutureStep(t)
  <2>1. CASE Produce(t)
    BY <2>1, ProduceStep
  <2>2. CASE Execute(t)
    BY <2>2, ExecuteStep
  <2>3. CASE Via(t)
    BY <2>3, ViaStep
  <2>4. CASE Chain(t)
    BY <2>4, ChainStep
  <2>5. CASE All(t)
    BY <2>5, AllStep
  <2>23. CASE AllOfNothing(t)
    BY <2>23, AllOfNothingStep
  <2>6. CASE FirstOf(t)
    BY <2>6, FirstOfStep
  <2>7. CASE Compute(t)
    <3>1. PICK r : Calling(t, "compute") /\ Fulfil(t, Arg(t, 2)[2], r, <<>>) /\ OnlyFulfils
      BY <2>7 DEF Compute
    <3> QED
      BY <3>1, FulfilStep
  <2>8. CASE CallThen(t)
    <3>1. PICK r : Calling(t, "then") /\ Fulfil(t, Arg(t, 2)[2], r, <<>>) /\ OnlyFulfils
      BY <2>8 DEF CallThen
    <3> QED
      BY <3>1, FulfilStep
  <2>9. CASE CallFlatMap(t)
    BY <2>9, CallFlatMapStep
  <2>10. CASE Forward(t)
    <3>1. Calling(t, "forward") /\ Fulfil(t, Arg(t, 2)[2], Arg(t, 3), <<>>) /\ OnlyFulfils
      BY <2>10 DEF Forward
    <3> QED
      BY <3>1, FulfilStep
  <2>11. CASE CallRecover(t)
    <3>1. PICK r : Calling(t, "recover") /\ Fulfil(t, Arg(t, 2)[2], r, <<>>) /\ OnlyFulfils
      BY <2>11 DEF CallRecover
    <3> QED
      BY <3>1, FulfilStep
  <2>12. CASE ExitAll(t)
    BY <2>12, ExitAllStep
  <2>13. CASE StoreAnswer(t)
    BY <2>13, StoreAnswerStep
  <2>14. CASE Finish(t)
    BY <2>14, FinishStep
  <2>15. CASE LastError(t)
    BY <2>15, LastErrorStep
  <2>16. CASE FirstValue(t)
    BY <2>16, FirstValueStep
  <2>17. CASE GetResult(t)
    BY <2>17, GetResultStep
  <2>18. CASE StoreGet(t)
    BY <2>18, StoreGetStep
  <2>19. CASE StoreSleeper(t)
    BY <2>19, StoreSleeperStep
  <2>20. CASE WakeSleeper(t)
    BY <2>20, WakeSleeperStep
  <2>21. CASE t \in Clients /\ Sleep(t)
    BY <2>21, SleepStep
  <2>22. CASE t \in Clients /\ GetReadyResult(t)
    BY <2>22, GetReadyResultStep
  <2> QED
    BY <1>2, <2>1, <2>2, <2>3, <2>4, <2>5, <2>6, <2>7, <2>8, <2>9, <2>10, <2>11, <2>12, <2>13, <2>14, <2>15,
       <2>16, <2>17, <2>18, <2>19, <2>20, <2>21, <2>22, <2>23 DEF FutureStep
<1>3. CASE SpuriousWakeUp(t)
  BY <1>3, WakeUpStep
<1> QED
  BY <1>1, <1>2, <1>3 DEF Step

\* Every step of the program preserves the inductive invariant.
LEMMA Inductive == IInv /\ [Next]_vars => IInv'
<1> SUFFICES ASSUME IInv, [Next]_vars PROVE IInv'
  OBVIOUS
<1>1. CASE Next
  <2>1. PICK t \in Threads : Step(t) \/ SpuriousWakeUp(t)
    BY <1>1 DEF Next
  <2> QED
    BY <2>1, NextStep
<1>2. CASE UNCHANGED vars
  BY <1>2, StutterStep
<1> QED
  BY <1>1, <1>2

-----------------------------------------------------------------------------
(* The initial state: the scripts of a program                               *)

\* Nothing but what the scripts use is held, and each of it once.
LEMMA ScriptLines ==
    ASSUME Init
    PROVE  /\ LinesInv
           /\ \A op \in Ops : op[1] \notin {"ready", "try", "publish"}
           /\ \A k \in Carried : k[1] \in {"promise", "future", "combinator"}
<1>1. PICK script \in Programs : SharedInit(script)
  BY DEF Init
<1>2. /\ DOMAIN script = Threads
      /\ \A t \in Threads : IsSeq(script[t]) /\ (script[t] # <<>> => t \in Clients)
      /\ \A t \in Threads : \A op \in ToSet(script[t]) : IsScriptOperation(op)
      /\ \A t, u \in Threads : \A i \in DOMAIN script[t], j \in DOMAIN script[u] :
           /\ Uses(script[t][i]) \cap Uses(script[u][j]) # {} => t = u /\ i = j
           /\ script[t][i][1] = "run" /\ script[u][j][1] = "run" => t = u
  BY ProgramAssumption DEF IsProgram, IsSeq
<1>3. /\ todo = script /\ callback = [s \in States |-> <<>>]
      /\ tasks = [e \in {"pool", "manual"} |-> <<>>]
  BY <1>1 DEF SharedInit
<1>4. \A t \in Threads : /\ IsSeq(todo[t]) /\ DOMAIN todo[t] = 1 .. Len(todo[t]) /\ Len(todo[t]) \in Nat
                         /\ ToSet(todo[t]) = {todo[t][i] : i \in 1 .. Len(todo[t])}
                         /\ \A i \in 1 .. Len(todo[t]) : todo[t][i] \in ToSet(todo[t])
  BY <1>2, <1>3, SeqFacts
<1>5. \A op : IsScriptOperation(op) =>
         op[1] \in {"produce", "get", "getReady", "via", "then", "recover", "flatMap", "all", "firstOf", "execute", "run"}
  BY DEF IsScriptOperation
<1>6. \A t \in Threads : \A op \in ToSet(todo[t]) :
         /\ IsScriptOperation(op)
         /\ op[1] \in {"produce", "get", "getReady", "via", "then", "recover", "flatMap", "all", "firstOf", "execute", "run"}
  BY ONLY <1>2, <1>3, <1>5
<1>7. \A t \in Threads : \A i \in 1 .. Len(todo[t]) :
         todo[t][i][1] \notin {"ready", "publish", "sleep", "pop", "try"}
  <2>1. ASSUME NEW t \in Threads, NEW i \in 1 .. Len(todo[t])
        PROVE  todo[t][i][1] \notin {"ready", "publish", "sleep", "pop", "try"}
    <3>1. todo[t][i] \in ToSet(todo[t])
      BY ONLY <1>4, <2>1
    <3>2. PICK op : op = todo[t][i]
      OBVIOUS
    <3>3. op[1] \in {"produce", "get", "getReady", "via", "then", "recover", "flatMap", "all", "firstOf", "execute", "run"}
      BY ONLY <1>6, <3>1, <3>2, t \in Threads
    <3>4. op[1] \notin {"ready", "publish", "sleep", "pop", "try"}
      BY ONLY <3>3
    <3> QED
      BY ONLY <3>2, <3>4
  <2> QED
    BY ONLY <2>1
<1>8. ThreadsInv
  <2>1. \A t \in Threads : Paired(todo[t]) /\ Ordered(todo[t])
    BY ONLY <1>7 DEF Paired, Ordered
  <2>2. \A t \in Threads : \A op \in ToSet(todo[t]) : t \in Clients
    <3>1. ToSet(<<>>) = {}
      BY ONLY Literals
    <3> QED
      BY ONLY <1>2, <1>3, <3>1
  <2>3. \A t, u \in Threads : \A i \in 1 .. Len(todo[t]), j \in 1 .. Len(todo[u]) :
           todo[t][i][1] = "run" /\ todo[u][j][1] = "run" => t = u
    BY ONLY <1>2, <1>3, <1>4
  <2>4. ASSUME NEW t \in Threads, NEW u \in Threads, NEW a \in ToSet(todo[t]), NEW b \in ToSet(todo[u]),
               a[1] \in {"run", "pop"} /\ b[1] \in {"run", "pop"}
        PROVE  t = u
    <3>1. a[1] = "run" /\ b[1] = "run"
      BY ONLY <1>6, <2>4
    <3>2. PICK i \in 1 .. Len(todo[t]) : a = todo[t][i]
      BY ONLY <1>4, t \in Threads, a \in ToSet(todo[t])
    <3>3. PICK j \in 1 .. Len(todo[u]) : b = todo[u][j]
      BY ONLY <1>4, u \in Threads, b \in ToSet(todo[u])
    <3> QED
      BY ONLY <2>3, <3>1, <3>2, <3>3, t \in Threads, u \in Threads
  <2> QED
    BY ONLY <1>2, <1>3, <1>4, <2>1, <2>2, <2>4 DEF ThreadsInv
<1>9. ~ RunByHand
  <2>1. <<"pop">>[1] = "pop"
    OBVIOUS
  <2> QED
    BY ONLY <1>6, <2>1 DEF RunByHand
<1>10. QueuesInv
  <2>1. IsSeq(<<>>) /\ ToSet(<<>>) = {}
    BY ONLY Literals
  <2> QED
    BY ONLY <1>3, <1>9, <2>1 DEF QueuesInv, Queue
<1>11. /\ DOMAIN Belt = Lines
       /\ \A t \in Threads : Belt[<<"todo", t>>] = todo[t]
       /\ \A e \in Queue : Belt[<<"queue", e>>] = <<>>
       /\ \A s \in States : Belt[<<"cell", s>>] = <<>>
  <2>1. /\ DOMAIN Belt = Lines
        /\ \A t \in Threads : Belt[<<"todo", t>>] = todo[t]
        /\ \A e \in Queue : Belt[<<"queue", e>>] = Queues[e]
        /\ \A s \in States : Belt[<<"cell", s>>] = Cell(callback[s])
    BY BeltIs DEF Belt
  <2>2. \A e \in Queue : Queues[e] = <<>>
    BY <1>3, <1>9 DEF Queues, Waiting, Queue
  <2>3. \A s \in States : Cell(callback[s]) = <<>>
    BY <1>3 DEF Cell
  <2> QED
    BY ONLY <2>1, <2>2, <2>3
<1>12. \A x \in DOMAIN Belt : Belt[x] = <<>> \/ \E t \in Threads : x = <<"todo", t>> /\ Belt[x] = todo[t]
  BY ONLY <1>11, LinesAre
<1>13. Has(<<>>) = {} /\ HeldOnce(<<>>) /\ IsSeq(<<>>) /\ ToSet(<<>>) = {}
  BY HasLiterals, Literals
<1>14. \A op : IsScriptOperation(op) => Tokens(op) = Uses(op)
  BY <1>5 DEF Tokens
<1>15. \A t, u \in Threads : \A i \in 1 .. Len(todo[t]), j \in 1 .. Len(todo[u]) :
         Tokens(todo[t][i]) \cap Tokens(todo[u][j]) # {} => t = u /\ i = j
  <2>1. \A t, u \in Threads : \A i \in 1 .. Len(todo[t]), j \in 1 .. Len(todo[u]) :
           Uses(todo[t][i]) \cap Uses(todo[u][j]) # {} => t = u /\ i = j
    BY ONLY <1>2, <1>3, <1>4
  <2>2. \A t \in Threads : \A i \in 1 .. Len(todo[t]) : Tokens(todo[t][i]) = Uses(todo[t][i])
    BY ONLY <1>4, <1>6, <1>14
  <2>3. ASSUME NEW t \in Threads, NEW u \in Threads, NEW i \in 1 .. Len(todo[t]), NEW j \in 1 .. Len(todo[u]),
               Tokens(todo[t][i]) \cap Tokens(todo[u][j]) # {}
        PROVE  t = u /\ i = j
    <3>1. Tokens(todo[t][i]) = Uses(todo[t][i])
      BY ONLY <2>2, t \in Threads, i \in 1 .. Len(todo[t])
    <3>2. Tokens(todo[u][j]) = Uses(todo[u][j])
      BY ONLY <2>2, u \in Threads, j \in 1 .. Len(todo[u])
    <3>3. Uses(todo[t][i]) \cap Uses(todo[u][j]) # {}
      BY ONLY <2>3, <3>1, <3>2
    <3> QED
      BY ONLY <2>1, <3>3, t \in Threads, u \in Threads, i \in 1 .. Len(todo[t]), j \in 1 .. Len(todo[u])
  <2> QED
    BY ONLY <2>3
<1>16. \A t \in Threads : HeldOnce(todo[t])
  BY ONLY ZenonT(60), <1>15 DEF HeldOnce
<1>17. \A t, u \in Threads : Has(todo[t]) \cap Has(todo[u]) # {} => t = u
  <2>1. ASSUME NEW t \in Threads, NEW u \in Threads, Has(todo[t]) \cap Has(todo[u]) # {} PROVE t = u
    <3>1. PICK k : k \in Has(todo[t]) /\ k \in Has(todo[u])
      BY ONLY <2>1
    <3>2. PICK i \in 1 .. Len(todo[t]) : k \in Tokens(todo[t][i])
      BY ONLY <3>1 DEF Has
    <3>3. PICK j \in 1 .. Len(todo[u]) : k \in Tokens(todo[u][j])
      BY ONLY <3>1 DEF Has
    <3> QED
      BY ONLY <1>15, <3>2, <3>3, t \in Threads, u \in Threads
  <2> QED
    BY ONLY <2>1
<1>18. Tidy(Belt)
  <2>1. \A x \in DOMAIN Belt : IsSeq(Belt[x]) /\ HeldOnce(Belt[x])
    BY ONLY <1>4, <1>12, <1>13, <1>16
  <2>2. ASSUME NEW x \in DOMAIN Belt, NEW y \in DOMAIN Belt, Has(Belt[x]) \cap Has(Belt[y]) # {} PROVE x = y
    <3>1. Belt[x] # <<>> /\ Belt[y] # <<>>
      BY ONLY <1>13, <2>2
    <3>2. PICK t \in Threads : x = <<"todo", t>> /\ Belt[x] = todo[t]
      BY ONLY <1>12, <3>1, x \in DOMAIN Belt
    <3>3. PICK u \in Threads : y = <<"todo", u>> /\ Belt[y] = todo[u]
      BY ONLY <1>12, <3>1, y \in DOMAIN Belt
    <3> QED
      BY ONLY <1>17, <2>2, <3>2, <3>3
  <2> QED
    BY ONLY <2>1, <2>2 DEF Tidy
<1>19. \A op \in Ops : \E t \in Threads : op \in ToSet(todo[t])
  BY ONLY <1>12, <1>13 DEF Ops, In
<1>20. \A op \in Ops : IsOperation(op) /\ op[1] \notin {"ready", "try", "publish"}
  BY ONLY <1>6, <1>19 DEF IsOperation
<1>21. LinesInv
  BY ONLY <1>3, <1>8, <1>10, <1>18, <1>20 DEF LinesInv
<1>22. \A op : \A k \in Uses(op) : k[1] \in {"promise", "future", "combinator"}
  <2>1. \A a, b : <<a, b, 0>>[1] = a
    OBVIOUS
  <2> QED
    BY ONLY <2>1 DEF Uses
<1>23. \A k \in Carried : k[1] \in {"promise", "future", "combinator"}
  <2>1. ASSUME NEW k \in Carried PROVE k[1] \in {"promise", "future", "combinator"}
    <3>1. PICK x \in DOMAIN Belt : k \in Has(Belt[x])
      BY ONLY k \in Carried DEF Carried, Held
    <3>2. PICK t \in Threads : Belt[x] = todo[t]
      BY ONLY <1>12, <1>13, <3>1
    <3>3. PICK i \in 1 .. Len(todo[t]) : k \in Tokens(todo[t][i])
      BY ONLY <3>1, <3>2 DEF Has
    <3>4. k \in Uses(todo[t][i])
      BY ONLY <1>4, <1>6, <1>14, <3>3
    <3> QED
      BY ONLY <1>22, <3>4
  <2> QED
    BY ONLY <2>1
<1> QED
  BY ONLY <1>20, <1>21, <1>23

LEMMA Initially == Init => IInv
<1> SUFFICES ASSUME Init PROVE IInv
  OBVIOUS
<1>1. /\ LinesInv
      /\ \A op \in Ops : op[1] \notin {"ready", "try", "publish"}
      /\ \A k \in Carried : k[1] \in {"promise", "future", "combinator"}
  BY ScriptLines
<1>2. /\ result = [s \in States |-> <<>>] /\ ready = [s \in States |-> FALSE]
      /\ callbackReady = [s \in States |-> FALSE] /\ executor = [s \in States |-> "inline"]
      /\ asleep = [t \in Threads |-> Null]
      /\ answers = <<>> /\ finished = 0 /\ exited = FALSE /\ errorsLeft = 0 /\ nobodyIsReady = TRUE
      /\ sleeper = [t \in Clients |-> 0] /\ sets = [s \in States |-> 0]
  BY DEF Init, SharedInit
<1>3. IsSeq(answers) /\ Len(answers) = 0
  BY ONLY <1>2, Literals
<1>4. TypesInv
  <2>1. /\ ready \in [States -> BOOLEAN] /\ callbackReady \in [States -> BOOLEAN]
        /\ asleep \in [Threads -> States \cup {"sleeper", Null}] /\ DOMAIN result = States
        /\ {exited, nobodyIsReady} \subseteq BOOLEAN
    BY ONLY <1>2
  <2>2. executor \in [States -> Executors]
    BY ONLY <1>2 DEF Executors
  <2>3. finished \in Nat /\ errorsLeft \in Nat
    BY ONLY <1>2
  <2>4. sleeper \in [Clients -> 0 .. 1]
    <3>1. 0 \in 0 .. 1
      OBVIOUS
    <3> QED
      BY ONLY <1>2, <3>1
  <2>5. sets \in [States -> Nat]
    <3>1. 0 \in Nat
      OBVIOUS
    <3> QED
      BY ONLY <1>2, <3>1
  <2> QED
    BY ONLY <1>3, <2>1, <2>2, <2>3, <2>4, <2>5 DEF TypesInv
<1>5. StateInv
  <2>1. \A s \in States : ~ ready[s] /\ ~ callbackReady[s]
    BY <1>2
  <2> QED
    BY ONLY <1>1, <2>1 DEF StateInv, TakenInv, ResultInv, PublishInv, ForgetInv
<1>6. GetInv
  BY ONLY <1>1, Kinds DEF GetInv
<1>7. SetsInv
  BY ONLY <1>2 DEF SetsInv
<1>8. ASSUME NEW kind \in {"all", "firstOf"}, NEW other, NEW room, NEW closed, ~ closed
      PROVE  Combination(Carried, sets, kind, other, room, closed)
  <2>1. \A k \in Carried : k[1] # kind
    BY ONLY <1>1, kind \in {"all", "firstOf"}
  <2>2. \A p \in States : Inputs(Carried, kind, p) = {}
    BY ONLY <2>1 DEF Inputs
  <2> QED
    BY ONLY <1>8, <2>1, <2>2 DEF Combination
<1>9. Combination(Carried, sets, "all", "firstOf", Len(answers) - finished, exited)
  BY <1>2, <1>8
<1>10. Combination(Carried, sets, "firstOf", "all", errorsLeft, ~ nobodyIsReady)
  BY <1>2, <1>8
<1>11. AllInv
  BY ONLY <1>2, <1>3, <1>9 DEF AllInv
<1>12. FirstInv
  BY ONLY <1>10 DEF FirstInv
<1> QED
  BY ONLY <1>1, <1>4, <1>5, <1>6, <1>7, <1>11, <1>12 DEF IInv, OnceInv

-----------------------------------------------------------------------------
(* What the inductive invariant says of the properties                       *)

LEMMA PendingIs == ASSUME IInv PROVE Pending \subseteq Ops
<1>1. DOMAIN tasks = Queue
  BY DEF IInv, LinesInv, QueuesInv
<1>2. \A t \in Threads : ToSet(todo[t]) \subseteq Ops
  BY TodoIn
<1>3. \A e \in Queue : ToSet(Waiting(e)) \subseteq Ops
  <2>1. \A e \in Queue : Queues[e] = Waiting(e)
    BY DEF Queues
  <2> QED
    BY <2>1, QueueIn
<1>4. ASSUME NEW op \in Pending PROVE op \in Ops
  <2>1. \/ \E t \in Threads : op \in ToSet(todo[t])
        \/ \E e \in DOMAIN tasks : op \in ToSet(Waiting(e))
    <3>1. \/ op \in UNION {ToSet(todo[t]) : t \in Threads}
          \/ op \in UNION {ToSet(Waiting(e)) : e \in DOMAIN tasks}
      BY DEF Pending
    <3>2. CASE op \in UNION {ToSet(todo[t]) : t \in Threads}
      <4>1. PICK S \in {ToSet(todo[t]) : t \in Threads} : op \in S
        BY ONLY <3>2
      <4>2. PICK t \in Threads : S = ToSet(todo[t])
        BY ONLY <4>1
      <4> QED
        BY ONLY <4>1, <4>2
    <3>3. CASE op \in UNION {ToSet(Waiting(e)) : e \in DOMAIN tasks}
      <4>1. PICK S \in {ToSet(Waiting(e)) : e \in DOMAIN tasks} : op \in S
        BY ONLY <3>3
      <4>2. PICK e \in DOMAIN tasks : S = ToSet(Waiting(e))
        BY ONLY <4>1
      <4> QED
        BY ONLY <4>1, <4>2
    <3> QED
      BY ONLY <3>1, <3>2, <3>3
  <2> QED
    BY ONLY <1>1, <1>2, <1>3, <2>1
<1> QED
  BY ONLY <1>4

LEMMA SafeOnce == IInv => ExactlyOnce
<1> SUFFICES ASSUME IInv PROVE ExactlyOnce
  OBVIOUS
<1>1. TypesInv /\ LinesInv /\ StateInv /\ OnceInv
  BY DEF IInv
<1>2. TypeOK
  <2>1. finished \in 0 .. Len(answers)
    BY OnceIs
  <2> QED
    BY <1>1, <2>1 DEF TypesInv, TypeOK
<1>3. /\ \A q \in States : callbackReady[q] => callback[q] # <<>> /\ Future(q) \notin Carried
      /\ \A q \in States : ready[q] => result[q] # <<>> \/ (~ callbackReady[q] /\ Future(q) \notin Carried)
      /\ \A op \in Ops : op[1] \in {"ready", "try"} =>
            result[op[2]] # <<>> \/ (~ callbackReady[op[2]] /\ Future(op[2]) \notin Carried)
      /\ \A q \in States : ready[q] /\ callbackReady[q] => SomeoneLooks(q)
  BY <1>1, StateIs
<1>4. CallbackHasResult
  <2>1. ASSUME NEW t \in Threads, Doing(t, "try"), callbackReady[Arg(t, 2)]
        PROVE  callback[Arg(t, 2)] # <<>> /\ result[Arg(t, 2)] # <<>>
    <3>1. PICK h : h = Head(todo[t])
      OBVIOUS
    <3>2. todo[t] # <<>> /\ h[1] = "try" /\ Arg(t, 2) = h[2]
      BY <2>1, <3>1 DEF Doing, Arg
    <3>3. h \in Ops
      BY <1>1, <3>1, <3>2, HeadIs
    <3>4. h[2] \in States
      BY <1>1, <3>2, <3>3, StepTargets
    <3> QED
      BY ONLY <1>3, <2>1, <3>2, <3>3, <3>4
  <2>2. ASSUME NEW t \in Threads, Doing(t, "getReady"), ready[Arg(t, 2)]
        PROVE  result[Arg(t, 2)] # <<>>
    <3>1. PICK h : h = Head(todo[t])
      OBVIOUS
    <3>2. todo[t] # <<>> /\ h[1] = "getReady" /\ Arg(t, 2) = h[2]
      BY <2>2, <3>1 DEF Doing, Arg
    <3>3. IsOperation(h) /\ Tokens(h) \subseteq Carried
      BY <1>1, <3>1, <3>2, HeadIs
    <3>4. h[2] \in States
      BY ONLY <3>2, <3>3 DEF IsOperation, IsScriptOperation
    <3>5. Future(h[2]) \in Carried
      BY ONLY <3>2, <3>3, TokensOf
    <3> QED
      BY ONLY <1>3, <2>2, <3>2, <3>4, <3>5
  <2> QED
    BY <2>1, <2>2 DEF CallbackHasResult
<1>5. NoCallbackForgotten
  <2>1. \A t \in Threads : ToSet(todo[t]) \subseteq Pending
    BY DEF Pending
  <2> QED
    BY ONLY <1>3, <2>1 DEF NoCallbackForgotten, SomeoneLooks
<1>6. PromisesAreUsedOnce
  BY OnceIs DEF PromisesAreUsedOnce
<1> QED
  BY ONLY <1>2, <1>4, <1>5, <1>6 DEF ExactlyOnce

LEMMA SafeFrame == IInv => FrameIsThere
<1> SUFFICES ASSUME IInv PROVE FrameIsThere
  OBVIOUS
<1>1. LinesInv /\ GetInv
  BY DEF IInv
<1>2. ASSUME NEW u \in Clients, NEW op \in Pending, op = <<"awake", u>> \/ (op[1] = "call" /\ op[2] = <<"get", u>>)
      PROVE  <<"sleep">> \in ToSet(todo[u])
  <2>1. op \in Ops
    BY PendingIs
  <2>2. Tokens(op) \subseteq Carried
    BY <1>1, <2>1, OpsHold
  <2>3. <<"awake", u>>[1] = "awake" /\ <<"awake", u>>[2] = u /\ <<"get", u>>[1] = "get" /\ <<"get", u>>[2] = u
    OBVIOUS
  <2>4. Frame(u) \in Tokens(op)
    BY ONLY <1>2, <2>3, TokensOf, CallTokensOf
  <2> QED
    BY <1>1, <2>2, <2>4 DEF GetInv
<1> QED
  BY ONLY <1>2 DEF FrameIsThere

\* The inductive invariant holds in every state: who holds a promise, a future,
\* an input of a combinator or the frame of a waiting thread holds it alone.
LEMMA Always == Spec => []IInv
<1>1. Init => IInv
  BY Initially
<1>2. IInv /\ [Next]_vars => IInv'
  BY Inductive
<1> QED
  BY <1>1, <1>2, PTL DEF Spec

\* Of the producer, which stores the result, and the consumer, which stores the
\* callback, exactly one runs the callback, with the result, and neither leaves
\* it to the other; GetReadyResult finds a result that nobody moved away; and
\* every promise is fulfilled at most once, those of combinators included.
THEOREM FuturesExactlyOnce == Spec => []ExactlyOnce
<1>1. IInv => ExactlyOnce
  BY SafeOnce
<1> QED
  BY <1>1, Always, PTL

\* The callback of GetResult, which writes the answer and the sleeper into the
\* frame of the thread that waits, runs only while that thread has still to
\* wait, whatever executor and thread runs it.
THEOREM FuturesFrameIsThere == Spec => []FrameIsThere
<1>1. IInv => FrameIsThere
  BY SafeFrame
<1> QED
  BY <1>1, Always, PTL

=============================================================================
