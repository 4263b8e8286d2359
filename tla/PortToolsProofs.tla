--------------------------- MODULE PortToolsProofs ---------------------------
(* The two tools that keep the ports together: the embedding of the grammar  *)
(* and of the alchemy files, and the check of the ports' dependencies.       *)
(*                                                                           *)
(* Whatever the grammars and the texts, and after any number of edits and    *)
(* embeds: what each port's compiler reads is a whole grammar, an embed      *)
(* touches only what is between the markers, and green suites mean that the  *)
(* three ports hand out the manifest's parts.  And whatever the manifests    *)
(* hold, the dependency check gives its verdict only when it has read every  *)
(* port there is, and 0 exactly where the register records the differences   *)
(* as they are; and the ts port is said to need what npm would install.      *)
EXTENDS Embed, PortDeps, Integers, SequenceTheorems, WellFoundedInduction, TLAPS

-----------------------------------------------------------------------------
(* Least numbers, joined pieces and places in a text.                        *)

(* A set of numbers that is not empty has a least one.                       *)
LEMMA LeastNumber ==
  ASSUME NEW T \in SUBSET Nat, T # {}
  PROVE  \E x \in T : \A y \in T : x <= y
<1>1. PICK x \in T : \A y \in T : ~ (<<y, x>> \in OpToRel(<, Nat))
  BY NatLessThanWellFounded, WFMin
<1>2. \A y \in T : ~(y < x)
  BY <1>1 DEF OpToRel
<1> QED  BY <1>2

(* A set of numbers up to a bound that is not empty has a greatest one.      *)
LEMMA GreatestOf ==
  ASSUME NEW top \in Nat, NEW T \in SUBSET (1 .. top), T # {}
  PROVE  \E x \in T : \A y \in T : y <= x
<1> DEFINE R == {top - y : y \in T}
<1>1. R \in SUBSET Nat /\ R # {}
  <2>1. \A y \in T : top - y \in Nat
    OBVIOUS
  <2>. QED
    BY <2>1
<1>2. PICK r \in R : \A y \in R : r <= y
  <2> HIDE DEF R
  <2>. QED
    BY <1>1, LeastNumber
<1>3. PICK x \in T : r = top - x
  BY <1>2
<1>4. \A y \in T : top - x <= top - y
  BY <1>2, <1>3
<1>. QED
  BY <1>4

\* The pieces ss stand in out one after the other, each from its place in P.
Laid(out, ss, P) ==
    /\ P[1] = 1 /\ P[Len(ss) + 1] = Len(out) + 1
    /\ \A i \in 1 .. Len(ss) + 1 : P[i] \in Nat \ {0}
    /\ \A i \in 1 .. Len(ss) :
           /\ P[i + 1] = P[i] + Len(ss[i])
           /\ \A k \in 1 .. Len(ss[i]) : out[P[i] + k - 1] = ss[i][k]

\* The joined pieces, as the recursion they are written as.
LEMMA Joins ==
  ASSUME NEW S, NEW ss \in Seq(Seq(S)), Len(ss) # 0
  PROVE  \E f : /\ FlattenSeq(ss) = f[Len(ss)]
                /\ f[1] = ss[1]
                /\ \A i \in 2 .. Len(ss) : f[i] = f[i - 1] \o ss[i]
                /\ \A i \in 1 .. Len(ss) : f[i] \in Seq(S)
<1> DEFINE Joined(f, m) == f = [i \in 1 .. m |-> IF i = 1 THEN ss[i] ELSE f[i - 1] \o ss[i]]
           T == {m \in Nat : ~ \E f : Joined(f, m)}
           n == Len(ss)
<1>0. n \in Nat \ {0} /\ \A i \in 1 .. n : ss[i] \in Seq(S)
  BY LenProperties, ElementOfSeq
<1>1. T = {}
  <2> SUFFICES ASSUME T # {} PROVE FALSE
    OBVIOUS
  <2>1. T \in SUBSET Nat
    OBVIOUS
  <2> HIDE DEF T
  <2>2. PICK m \in T : \A k \in T : m <= k
    BY <2>1, LeastNumber
  <2>3. m \in Nat /\ ~ \E f : Joined(f, m)
    BY <2>2 DEF T
  <2>4. CASE m = 0
    <3> DEFINE f == [i \in 1 .. 0 |-> {}]
    <3>1. \A i : i \notin 1 .. 0
      OBVIOUS
    <3>2. f = [i \in 1 .. 0 |-> IF i = 1 THEN ss[i] ELSE f[i - 1] \o ss[i]]
      BY <3>1
    <3>3. Joined(f, 0)
      BY <3>2
    <3> QED  BY <2>3, <2>4, <3>3
  <2>5. CASE m # 0
    <3>1. m - 1 \in Nat /\ m - 1 \notin T
      BY <2>2, <2>3, <2>5
    <3>2. PICK f : Joined(f, m - 1)
      BY <3>1 DEF T
    <3> DEFINE value == IF m = 1 THEN ss[m] ELSE f[m - 1] \o ss[m]
               g == [i \in 1 .. m |-> IF i = m THEN value ELSE f[i]]
    <3>3. \A i \in 1 .. m - 1 : /\ i \in 1 .. m /\ i # m
                                /\ i # 1 => i - 1 \in 1 .. m - 1
      BY <2>3, <2>5
    <3>4. \A i \in 1 .. m - 1 : f[i] = IF i = 1 THEN ss[i] ELSE f[i - 1] \o ss[i]
      BY <3>2
    <3>5. \A i \in 1 .. m - 1 : g[i] = f[i]
      BY <3>3
    <3>6. g[m] = IF m = 1 THEN ss[m] ELSE g[m - 1] \o ss[m]
      BY <2>3, <2>5, <3>5
    <3>7. \A i \in 1 .. m : i \in 1 .. m - 1 \/ i = m
      BY <2>3
    <3>8. g = [i \in 1 .. m |-> g[i]]
      OBVIOUS
    <3> HIDE DEF g
    <3>9. \A i \in 1 .. m : g[i] = IF i = 1 THEN ss[i] ELSE g[i - 1] \o ss[i]
      BY <3>3, <3>4, <3>5, <3>6, <3>7
    <3>10. Joined(g, m)
      BY <3>8, <3>9
    <3> QED  BY <2>3, <3>10
  <2> QED  BY <2>4, <2>5
<1>2. \E f : Joined(f, n)
  BY <1>0, <1>1
<1>3. FlattenSeq(ss) = (CHOOSE f : Joined(f, n))[n]
  BY DEF FlattenSeq
<1>4. PICK f : Joined(f, n) /\ FlattenSeq(ss) = f[n]
  BY <1>2, <1>3
<1>5. \A i \in 1 .. n : f[i] = IF i = 1 THEN ss[i] ELSE f[i - 1] \o ss[i]
  BY <1>4
<1>6. f[1] = ss[1] /\ \A i \in 2 .. n : f[i] = f[i - 1] \o ss[i]
  <2> HIDE DEF n
  <2>1. 1 \in 1 .. n /\ \A i \in 2 .. n : i \in 1 .. n /\ i # 1
    BY <1>0
  <2> QED  BY <1>5, <2>1
<1> DEFINE U == {i \in 1 .. n : f[i] \notin Seq(S)}
<1>7. U = {}
  <2> SUFFICES ASSUME U # {} PROVE FALSE
    OBVIOUS
  <2>1. U \in SUBSET Nat /\ \A i \in 1 .. n : i \in U <=> f[i] \notin Seq(S)
    OBVIOUS
  <2>2. U \subseteq 1 .. n
    OBVIOUS
  <2> HIDE DEF U, n
  <2>3. PICK m \in U : \A k \in U : m <= k
    BY <2>1, LeastNumber
  <2>4. m \in 1 .. n /\ (m # 1 => m \in 2 .. n /\ m - 1 \in 1 .. n /\ m - 1 \notin U)
    BY <1>0, <2>2, <2>3
  <2>5. CASE m = 1
    BY <1>0, <1>6, <2>1, <2>3, <2>4, <2>5
  <2>6. CASE m # 1
    <3>1. f[m - 1] \in Seq(S) /\ ss[m] \in Seq(S) /\ f[m] = f[m - 1] \o ss[m]
      BY <1>0, <1>6, <2>1, <2>4, <2>6
    <3>2. f[m] \in Seq(S)
      BY <3>1, ConcatProperties
    <3> QED  BY <2>1, <2>3, <2>4, <3>2
  <2> QED  BY <2>5, <2>6
<1> QED  BY <1>4, <1>6, <1>7

\* Joined pieces stand one after the other in what they are joined to.
LEMMA PiecesAreLaid ==
  ASSUME NEW S, NEW ss \in Seq(Seq(S))
  PROVE  FlattenSeq(ss) \in Seq(S) /\ \E P : Laid(FlattenSeq(ss), ss, P)
<1> DEFINE n == Len(ss)
<1>0. n \in Nat /\ \A i \in 1 .. n : ss[i] \in Seq(S)
  BY LenProperties, ElementOfSeq
<1>1. CASE n = 0
  <2>1. ss = << >> /\ FlattenSeq(ss) = ss
    BY <1>1, EmptySeq DEF FlattenSeq
  <2>2. << >> \in Seq(S) /\ Len(<< >>) = 0
    BY EmptySeq
  <2> DEFINE P == [i \in {1} |-> 1]
  <2>3. Laid(<< >>, << >>, P)
    BY <2>2 DEF Laid
  <2> QED  BY <2>1, <2>2, <2>3
<1>2. CASE n # 0
  <2>1. PICK f : /\ FlattenSeq(ss) = f[n]
                 /\ f[1] = ss[1]
                 /\ \A i \in 2 .. n : f[i] = f[i - 1] \o ss[i]
                 /\ \A i \in 1 .. n : f[i] \in Seq(S)
    BY <1>2, Joins
  <2> HIDE DEF n
  <2> DEFINE P == [i \in 1 .. n + 1 |-> IF i = 1 THEN 1 ELSE Len(f[i - 1]) + 1]
  <2>2. \A i \in 1 .. n : Len(f[i]) \in Nat /\ Len(ss[i]) \in Nat
    BY <1>0, <2>1, LenProperties
  <2>3. /\ P[1] = 1 /\ \A i \in 1 .. n : P[i + 1] = Len(f[i]) + 1
    BY <1>0
  <2>4. \A i \in 1 .. n + 1 : P[i] \in Nat \ {0}
    BY <1>0, <2>2
  <2> HIDE DEF P
  \* A piece stands at the end of what is joined up to it.
  <2>5. ASSUME NEW i \in 1 .. n
        PROVE  /\ P[i + 1] = P[i] + Len(ss[i])
               /\ \A k \in 1 .. Len(ss[i]) : f[i][P[i] + k - 1] = ss[i][k]
    <3>1. CASE i = 1
      BY <2>1, <2>2, <2>3, <3>1
    <3>2. CASE i # 1
      <4>1. i \in 2 .. n /\ i - 1 \in 1 .. n /\ (i - 1) + 1 = i
        BY <1>0, <3>2
      <4>2. /\ f[i] = f[i - 1] \o ss[i] /\ f[i - 1] \in Seq(S) /\ ss[i] \in Seq(S)
            /\ P[i] = Len(f[i - 1]) + 1 /\ P[i + 1] = Len(f[i]) + 1
            /\ Len(f[i - 1]) \in Nat /\ Len(ss[i]) \in Nat
        BY <1>0, <2>1, <2>2, <2>3, <4>1
      <4> DEFINE u == f[i - 1]
                 v == ss[i]
      <4> HIDE DEF u, v
      <4>3. /\ Len(u \o v) = Len(u) + Len(v)
            /\ \A k \in 1 .. Len(u) + Len(v) :
                   (u \o v)[k] = IF k <= Len(u) THEN u[k] ELSE v[k - Len(u)]
        BY <4>2, ConcatProperties DEF u, v
      <4>4. \A k \in 1 .. Len(v) : (u \o v)[Len(u) + 1 + k - 1] = v[k]
        <5> SUFFICES ASSUME NEW k \in 1 .. Len(v) PROVE (u \o v)[Len(u) + 1 + k - 1] = v[k]
          OBVIOUS
        <5>1. Len(u) \in Nat /\ Len(v) \in Nat
          BY <4>2 DEF u, v
        <5>2. /\ Len(u) + 1 + k - 1 \in 1 .. Len(u) + Len(v)
              /\ ~(Len(u) + 1 + k - 1 <= Len(u)) /\ (Len(u) + 1 + k - 1) - Len(u) = k
          BY ONLY <5>1, k \in 1 .. Len(v)
        <5> QED  BY <4>3, <5>2
      <4>5. Len(f[i]) = Len(f[i - 1]) + Len(ss[i])
        BY <4>2, <4>3 DEF u, v
      <4>6. \A k \in 1 .. Len(ss[i]) : f[i][Len(f[i - 1]) + 1 + k - 1] = ss[i][k]
        BY <4>2, <4>4 DEF u, v
      <4>7. \A k \in 1 .. Len(ss[i]) : f[i][P[i] + k - 1] = ss[i][k]
        BY ONLY <4>2, <4>6
      <4>8. P[i + 1] = P[i] + Len(ss[i])
        <5>1. \A a, b \in Nat : (a + b) + 1 = (a + 1) + b
          OBVIOUS
        <5> QED  BY <4>2, <4>5, <5>1
      <4> QED  BY <4>7, <4>8
    <3> QED  BY <3>1, <3>2
  \* What is joined stays.
  <2>6. ASSUME NEW i \in 1 .. n, NEW k \in 1 .. Len(f[i])
        PROVE  \A j \in i .. n : k \in 1 .. Len(f[j]) /\ f[j][k] = f[i][k]
    <3> DEFINE T == {j \in i .. n : ~(k \in 1 .. Len(f[j]) /\ f[j][k] = f[i][k])}
    <3> SUFFICES ASSUME T # {} PROVE FALSE
      OBVIOUS
    <3>1. T \in SUBSET Nat /\ T \subseteq i .. n
      OBVIOUS
    <3>2. \A j \in i .. n : j \in T <=> ~(k \in 1 .. Len(f[j]) /\ f[j][k] = f[i][k])
      OBVIOUS
    <3> HIDE DEF T
    <3>3. PICK j \in T : \A x \in T : j <= x
      BY <3>1, LeastNumber
    <3>4. j # i /\ j \in i .. n
      BY <3>1, <3>2, <3>3
    <3>5. /\ j - 1 \in i .. n /\ j - 1 \notin T /\ j - 1 \in 1 .. n /\ j \in 2 .. n
          /\ j \in 1 .. n
      BY <1>0, <3>3, <3>4
    <3>6. k \in 1 .. Len(f[j - 1]) /\ f[j - 1][k] = f[i][k]
      BY <3>2, <3>5
    <3> DEFINE u == f[j - 1]
               v == ss[j]
    <3>7. f[j] = u \o v /\ u \in Seq(S) /\ v \in Seq(S) /\ Len(u) \in Nat /\ Len(v) \in Nat
      BY <1>0, <2>1, <2>2, <3>5
    <3>8. k \in 1 .. Len(u) /\ u[k] = f[i][k]
      BY <3>6
    <3> HIDE DEF u, v
    <3>9. /\ Len(u \o v) = Len(u) + Len(v)
          /\ \A x \in 1 .. Len(u) + Len(v) :
                 (u \o v)[x] = IF x <= Len(u) THEN u[x] ELSE v[x - Len(u)]
      BY <3>7, ConcatProperties
    <3>10. k \in 1 .. Len(u) + Len(v) /\ k <= Len(u)
      BY <3>7, <3>8
    <3>11. k \in 1 .. Len(f[j]) /\ f[j][k] = f[i][k]
      BY <3>7, <3>8, <3>9, <3>10
    <3> QED  BY <3>2, <3>3, <3>4, <3>11
  <2>7. ASSUME NEW i \in 1 .. n, NEW k \in 1 .. Len(ss[i])
        PROVE  f[n][P[i] + k - 1] = ss[i][k]
    <3>1. f[i][P[i] + k - 1] = ss[i][k]
      BY <2>5
    <3>2. P[i] \in Nat \ {0} /\ Len(f[i]) = P[i] + Len(ss[i]) - 1 /\ Len(ss[i]) \in Nat
      <4>1. Len(f[i]) + 1 = P[i] + Len(ss[i]) /\ i \in 1 .. n + 1
        BY <1>0, <2>3, <2>5
      <4>2. P[i] \in Nat \ {0} /\ Len(f[i]) \in Nat /\ Len(ss[i]) \in Nat
        BY <2>2, <2>4, <4>1
      <4>3. \A a, b, c \in Nat : a + 1 = b + c => a = b + c - 1
        OBVIOUS
      <4> QED  BY <4>1, <4>2, <4>3
    <3>3. P[i] + k - 1 \in 1 .. Len(f[i]) /\ n \in i .. n
      BY <1>0, <3>2
    <3> QED  BY <2>6, <3>1, <3>3
  <2>8. n \in 1 .. n
    BY <1>0, <1>2
  <2>9. Laid(f[n], ss, P)
    BY <2>3, <2>4, <2>5, <2>7, <2>8 DEF Laid, n
  <2> QED  BY <2>1, <2>8, <2>9 DEF n
<1> QED  BY <1>1, <1>2

-----------------------------------------------------------------------------
(* The lexemes, and a declaration between its markers.                       *)

\* The lexemes a declaration is written in, none of them a marker.
Signs == {"const", "bs", "tick", "qq", "nl", "$", "{", "#", "+", "r#", ";"}
Letters == Signs \cup UNION {ToSet(g) : g \in Grammars}

\* What stands around a declaration in a source file.
Framed(d) == <<"head">> \o <<"BEGIN", "nl">> \o d \o <<"nl", "END">> \o <<"tail">>

Alphabet == Letters \cup {"head", "BEGIN", "END", "tail"}

\* The signs of a declaration and its frame are in the alphabet.
LEMMA AlphabetHolds ==
  /\ Signs \subseteq Letters /\ Letters \subseteq Alphabet
  /\ \A c \in {"head", "BEGIN", "nl", "END", "tail"} : c \in Alphabet
<1>1. Signs \subseteq Letters /\ Letters \subseteq Alphabet
  BY DEF Letters, Alphabet
<1>2. "nl" \in Signs
  BY DEF Signs
<1>3. {"head", "BEGIN", "END", "tail"} \subseteq Alphabet
  BY DEF Alphabet
<1> QED  BY <1>1, <1>2, <1>3

\* Short texts, written out and joined.
LEMMA Tuples ==
  ASSUME NEW S, NEW x \in S, NEW y \in S, NEW z \in S
  PROVE  /\ <<x>> \in Seq(S) /\ <<x, y>> \in Seq(S) /\ <<x, y, z>> \in Seq(S)
         /\ <<x>> \o <<y, z>> = <<x, y, z>> /\ <<x, y>> \o <<z>> = <<x, y, z>>
<1>1. <<x>> \in Seq(S) /\ <<y, z>> \in Seq(S) /\ <<x, y>> \in Seq(S) /\ <<z>> \in Seq(S)
      /\ <<x, y, z>> \in Seq(S)
  OBVIOUS
<1>2. Len(<<x>>) = 1 /\ Len(<<y, z>>) = 2 /\ Len(<<x, y>>) = 2 /\ Len(<<z>>) = 1
      /\ Len(<<x, y, z>>) = 3
  OBVIOUS
<1>3. <<x>> \o <<y, z>> = <<x, y, z>>
  <2> DEFINE u == <<x>>
             v == <<y, z>>
             w == <<x, y, z>>
  <2>1. /\ u \in Seq(S) /\ v \in Seq(S) /\ w \in Seq(S)
        /\ Len(u) = 1 /\ Len(v) = 2 /\ Len(w) = 3
        /\ u[1] = w[1] /\ v[1] = w[2] /\ v[2] = w[3]
    BY <1>1, <1>2
  <2> HIDE DEF u, v, w
  <2>2. /\ u \o v \in Seq(S) /\ Len(u \o v) = Len(u) + Len(v)
        /\ \A i \in 1 .. Len(u) + Len(v) : (u \o v)[i] = IF i <= Len(u) THEN u[i] ELSE v[i - Len(u)]
    BY <2>1, ConcatProperties
  <2>3. u \o v = w
    <3>1. \A i \in 1 .. 3 : i = 1 \/ i = 2 \/ i = 3
      OBVIOUS
    <3>2. (u \o v)[1] = w[1] /\ (u \o v)[2] = w[2] /\ (u \o v)[3] = w[3]
      BY <2>1, <2>2
    <3> QED  BY <2>1, <2>2, <3>1, <3>2, SeqEqual
  <2> QED  BY <2>3 DEF u, v, w
<1>4. <<x, y>> \o <<z>> = <<x, y, z>>
  <2> DEFINE u == <<x, y>>
             v == <<z>>
             w == <<x, y, z>>
  <2>1. /\ u \in Seq(S) /\ v \in Seq(S) /\ w \in Seq(S)
        /\ Len(u) = 2 /\ Len(v) = 1 /\ Len(w) = 3
        /\ u[1] = w[1] /\ u[2] = w[2] /\ v[1] = w[3]
    BY <1>1, <1>2
  <2> HIDE DEF u, v, w
  <2>2. /\ u \o v \in Seq(S) /\ Len(u \o v) = Len(u) + Len(v)
        /\ \A i \in 1 .. Len(u) + Len(v) : (u \o v)[i] = IF i <= Len(u) THEN u[i] ELSE v[i - Len(u)]
    BY <2>1, ConcatProperties
  <2>3. u \o v = w
    <3>1. \A i \in 1 .. 3 : i = 1 \/ i = 2 \/ i = 3
      OBVIOUS
    <3>2. (u \o v)[1] = w[1] /\ (u \o v)[2] = w[2] /\ (u \o v)[3] = w[3]
      BY <2>1, <2>2
    <3> QED  BY <2>1, <2>2, <3>1, <3>2, SeqEqual
  <2> QED  BY <2>3 DEF u, v, w
<1> QED  BY <1>1, <1>3, <1>4

\* A grammar is written in letters, and no letter is a marker.
LEMMA LettersAreNoMarkers ==
  /\ Letters \cap {"BEGIN", "END", "eof"} = {}
  /\ \A g \in Grammars : g \in Seq(Letters) /\ ToSet(g) \subseteq Letters
<1>1. ASSUME NEW c \in Letters PROVE c \notin {"BEGIN", "END", "eof"}
  <2>1. CASE \E g \in Grammars : c \in ToSet(g)
    BY <2>1, GrammarsAssumption
  <2>2. CASE c \in Signs
    BY <2>2 DEF Signs
  <2> QED  BY <2>1, <2>2 DEF Letters
<1>2. ASSUME NEW g \in Grammars PROVE g \in Seq(Letters) /\ ToSet(g) \subseteq Letters
  <2>1. g \in Seq(ToSet(g)) /\ ToSet(g) \subseteq Letters
    BY GrammarsAssumption DEF Letters
  <2> QED  BY <2>1, SeqMonotonic
<1> QED  BY <1>1, <1>2

\* A text between two others.
LEMMA Around ==
  ASSUME NEW S, NEW a \in Seq(S), NEW d \in Seq(S), NEW b \in Seq(S)
  PROVE  /\ a \o d \o b \in Seq(S)
         /\ Len(a \o d \o b) = Len(a) + Len(d) + Len(b)
         /\ \A i \in 1 .. Len(a) : (a \o d \o b)[i] = a[i]
         /\ \A i \in 1 .. Len(d) : (a \o d \o b)[Len(a) + i] = d[i]
         /\ \A i \in 1 .. Len(b) : (a \o d \o b)[Len(a) + Len(d) + i] = b[i]
<1>1. Len(a) \in Nat /\ Len(d) \in Nat /\ Len(b) \in Nat
  BY LenProperties
<1>2. /\ a \o d \in Seq(S) /\ Len(a \o d) = Len(a) + Len(d)
      /\ \A i \in 1 .. Len(a) + Len(d) :
             (a \o d)[i] = IF i <= Len(a) THEN a[i] ELSE d[i - Len(a)]
  BY ConcatProperties
<1> DEFINE ad == a \o d
<1> HIDE DEF ad
<1>3. /\ ad \o b \in Seq(S) /\ Len(ad \o b) = Len(ad) + Len(b)
      /\ \A i \in 1 .. Len(ad) + Len(b) :
             (ad \o b)[i] = IF i <= Len(ad) THEN ad[i] ELSE b[i - Len(ad)]
  BY <1>2, ConcatProperties DEF ad
<1> DEFINE x == Len(a)
           y == Len(d)
           z == Len(b)
<1>4. /\ x \in Nat /\ y \in Nat /\ z \in Nat /\ Len(ad) = x + y
      /\ \A i \in 1 .. x + y : ad[i] = IF i <= x THEN a[i] ELSE d[i - x]
      /\ \A i \in 1 .. (x + y) + z : (ad \o b)[i] = IF i <= x + y THEN ad[i] ELSE b[i - (x + y)]
  BY <1>1, <1>2, <1>3 DEF ad
<1> HIDE DEF x, y, z
<1>5. \A i \in 1 .. x : (ad \o b)[i] = a[i]
  BY ONLY <1>4
<1>6. \A i \in 1 .. y : (ad \o b)[x + i] = d[i]
  <2> SUFFICES ASSUME NEW i \in 1 .. y PROVE (ad \o b)[x + i] = d[i]
    OBVIOUS
  <2>1. /\ x + i \in 1 .. x + y /\ x + i \in 1 .. (x + y) + z
        /\ ~(x + i <= x) /\ (x + i) - x = i /\ x + i <= x + y
    BY ONLY <1>4, i \in 1 .. y
  <2> QED  BY <1>4, <2>1
<1>7. \A i \in 1 .. z : (ad \o b)[x + y + i] = b[i]
  <2> SUFFICES ASSUME NEW i \in 1 .. z PROVE (ad \o b)[x + y + i] = b[i]
    OBVIOUS
  <2>1. x + y + i \in 1 .. (x + y) + z /\ ~(x + y + i <= x + y) /\ (x + y + i) - (x + y) = i
    BY ONLY <1>4, i \in 1 .. z
  <2> QED  BY <1>4, <2>1
<1>8. Len(ad \o b) = x + y + z
  BY <1>3, <1>4 DEF x, y, z
<1> QED  BY <1>3, <1>5, <1>6, <1>7, <1>8 DEF ad, x, y, z

\* A framed declaration is one between two texts of three lexemes.
LEMMA FrameIsAround ==
  ASSUME NEW d \in Seq(Letters)
  PROVE  /\ Framed(d) = <<"head", "BEGIN", "nl">> \o d \o <<"nl", "END", "tail">>
         /\ Framed(d) \in Seq(Alphabet)
<1> DEFINE a == <<"head", "BEGIN", "nl">>
<1>0. \A c \in {"head", "BEGIN", "nl", "END", "tail"} : c \in Alphabet
  BY AlphabetHolds
<1>1. a \in Seq(Alphabet) /\ <<"nl", "END">> \in Seq(Alphabet) /\ <<"tail">> \in Seq(Alphabet)
      /\ <<"nl", "END", "tail">> \in Seq(Alphabet)
  BY <1>0, Tuples
<1>2. d \in Seq(Alphabet)
  BY SeqMonotonic DEF Alphabet
<1>3. <<"head">> \o <<"BEGIN", "nl">> = a
  BY <1>0, Tuples
<1>4. <<"nl", "END">> \o <<"tail">> = <<"nl", "END", "tail">>
  BY <1>0, Tuples
<1>5. a \o d \in Seq(Alphabet)
  BY <1>1, <1>2, ConcatProperties
<1> DEFINE ad == a \o d
<1>6. ad \o <<"nl", "END">> \o <<"tail">> = ad \o <<"nl", "END", "tail">>
  <2> HIDE DEF ad
  <2>1. ad \in Seq(Alphabet)
    BY <1>5 DEF ad
  <2> QED  BY <1>1, <1>4, <2>1, ConcatAssociative
<1>7. Framed(d) = ad \o <<"nl", "END">> \o <<"tail">>
  BY <1>3 DEF Framed
<1>8. a \o d \o <<"nl", "END", "tail">> \in Seq(Alphabet)
  BY <1>1, <1>2, Around
<1> QED  BY <1>6, <1>7, <1>8

\* The only markers of a framed declaration are its own.
LEMMA FrameHolds ==
  ASSUME NEW d \in Seq(Letters)
  PROVE  LET f == Framed(d)
             n == Len(d)
         IN  /\ n \in Nat /\ f \in Seq(Alphabet) /\ Len(f) = n + 6
             /\ f[1] = "head" /\ f[2] = "BEGIN" /\ f[3] = "nl"
             /\ \A i \in 1 .. n : f[3 + i] = d[i]
             /\ f[n + 4] = "nl" /\ f[n + 5] = "END" /\ f[n + 6] = "tail"
             /\ \A i \in 1 .. Len(f) : /\ f[i] = "BEGIN" <=> i = 2
                                       /\ f[i] = "END" <=> i = n + 5
<1> DEFINE f == Framed(d)
           n == Len(d)
           a == <<"head", "BEGIN", "nl">>
           b == <<"nl", "END", "tail">>
<1>1. a \in Seq(Alphabet) /\ b \in Seq(Alphabet) /\ d \in Seq(Alphabet)
  <2>1. \A c \in {"head", "BEGIN", "nl", "END", "tail"} : c \in Alphabet
    BY AlphabetHolds
  <2>2. Letters \subseteq Alphabet
    BY DEF Alphabet
  <2> QED  BY <2>1, <2>2, Tuples, SeqMonotonic
<1>2. f = a \o d \o b
  BY FrameIsAround
<1>3. Len(a) = 3 /\ Len(b) = 3 /\ n \in Nat
  BY LenProperties
<1>4. /\ f \in Seq(Alphabet)
      /\ Len(f) = Len(a) + Len(d) + Len(b)
      /\ \A i \in 1 .. Len(a) : f[i] = a[i]
      /\ \A i \in 1 .. Len(d) : f[Len(a) + i] = d[i]
      /\ \A i \in 1 .. Len(b) : f[Len(a) + Len(d) + i] = b[i]
  <2> HIDE DEF a, b, f
  <2>1. /\ a \o d \o b \in Seq(Alphabet)
        /\ Len(a \o d \o b) = Len(a) + Len(d) + Len(b)
        /\ \A i \in 1 .. Len(a) : (a \o d \o b)[i] = a[i]
        /\ \A i \in 1 .. Len(d) : (a \o d \o b)[Len(a) + i] = d[i]
        /\ \A i \in 1 .. Len(b) : (a \o d \o b)[Len(a) + Len(d) + i] = b[i]
    BY <1>1, Around
  <2> QED  BY <1>2, <2>1
<1>5. \A i \in 1 .. n : d[i] # "BEGIN" /\ d[i] # "END"
  <2>1. \A i \in 1 .. n : d[i] \in Letters
    BY ElementOfSeq
  <2> QED  BY <2>1, LettersAreNoMarkers
<1> HIDE DEF f, n
<1>6. Len(f) = n + 6
  BY <1>3, <1>4 DEF n
<1>7. f[1] = "head" /\ f[2] = "BEGIN" /\ f[3] = "nl"
  BY <1>3, <1>4
<1>8. \A i \in 1 .. n : f[3 + i] = d[i]
  BY <1>3, <1>4 DEF n
<1>9. \A i \in 1 .. 3 : f[3 + n + i] = b[i]
  BY <1>3, <1>4 DEF n
<1>10. f[n + 4] = "nl" /\ f[n + 5] = "END" /\ f[n + 6] = "tail"
  <2>1. 3 + n + 1 = n + 4 /\ 3 + n + 2 = n + 5 /\ 3 + n + 3 = n + 6
    BY <1>3
  <2>2. f[3 + n + 1] = "nl" /\ f[3 + n + 2] = "END" /\ f[3 + n + 3] = "tail"
    BY <1>9
  <2> QED  BY <2>1, <2>2
<1>11. ASSUME NEW i \in 1 .. Len(f)
       PROVE  (f[i] = "BEGIN" <=> i = 2) /\ (f[i] = "END" <=> i = n + 5)
  <2>1. \/ i = 1 \/ i = 2 \/ i = 3 \/ i = n + 4 \/ i = n + 5 \/ i = n + 6
        \/ i - 3 \in 1 .. n /\ 3 + (i - 3) = i /\ i # 2 /\ i # n + 5
    BY <1>3, <1>6
  <2>2. CASE i - 3 \in 1 .. n /\ 3 + (i - 3) = i /\ i # 2 /\ i # n + 5
    BY <1>5, <1>8, <2>2
  <2>3. CASE i = 1 \/ i = 2 \/ i = 3
    BY <1>3, <1>7, <2>3
  <2>4. CASE i = n + 4 \/ i = n + 5 \/ i = n + 6
    BY <1>3, <1>10, <2>4
  <2> QED  BY <2>1, <2>2, <2>3, <2>4
<1> QED  BY <1>3, <1>4, <1>6, <1>7, <1>8, <1>10, <1>11 DEF f, n

\* What embed-grammar.js finds in a framed declaration.
LEMMA FrameReads ==
  ASSUME NEW d \in Seq(Letters)
  PROVE  LET f == Framed(d)
         IN  /\ MarkersFound(f)
             /\ Before(f) = <<"head">> /\ After(f) = <<"tail">>
             /\ SubSeq(f, Begin(f) + 2, End(f) - 1) = d \o <<"nl">>
<1> DEFINE f == Framed(d)
           n == Len(d)
<1>1. /\ n \in Nat /\ f \in Seq(Alphabet) /\ Len(f) = n + 6
      /\ f[1] = "head" /\ f[2] = "BEGIN" /\ f[3] = "nl"
      /\ \A i \in 1 .. n : f[3 + i] = d[i]
      /\ f[n + 4] = "nl" /\ f[n + 5] = "END" /\ f[n + 6] = "tail"
      /\ \A i \in 1 .. Len(f) : /\ f[i] = "BEGIN" <=> i = 2
                                /\ f[i] = "END" <=> i = n + 5
  BY FrameHolds
<1>2. d \in Seq(Alphabet) /\ <<"nl">> \in Seq(Alphabet)
  <2>1. "nl" \in Alphabet /\ Letters \subseteq Alphabet
    BY AlphabetHolds
  <2> QED  BY <2>1, Tuples, SeqMonotonic
<1> HIDE DEF f
<1>3. \A i \in 1 .. Len(f) : f[i] \in Alphabet
  BY <1>1, ElementOfSeq
<1>4. MarkersFound(f)
  <2>1. 2 \in DOMAIN f /\ n + 5 \in DOMAIN f
    <3>1. DOMAIN f = 1 .. Len(f)
      BY <1>1, LenProperties
    <3> QED  BY <1>1, <3>1
  <2> QED  BY <1>1, <2>1 DEF MarkersFound, ToSet
<1>5. Begin(f) = 2
  <2>1. {i \in 1 .. Len(f) : f[i] = "BEGIN"} = {2}
    BY <1>1
  <2>2. Min({2}) = 2
    BY DEF Min
  <2> QED  BY <2>1, <2>2 DEF Begin, SelectInSeq
<1>6. End(f) = n + 5
  <2>1. {i \in 1 .. Len(f) : f[i] = "END"} = {n + 5}
    BY <1>1
  <2>2. Min({n + 5}) = n + 5
    BY <1>1 DEF Min
  <2> QED  BY <2>1, <2>2 DEF End, SelectInSeq
<1>7. Before(f) = <<"head">>
  <2>1. /\ SubSeq(f, 1, 1) \in Seq(Alphabet) /\ Len(SubSeq(f, 1, 1)) = 1
        /\ SubSeq(f, 1, 1)[1] = "head"
    <3>1. \A i \in 1 .. 1 : f[i] \in Alphabet
      BY <1>1, <1>3
    <3>2. /\ SubSeq(f, 1, 1) \in Seq(Alphabet)
          /\ Len(SubSeq(f, 1, 1)) = IF 1 <= 1 THEN 1 - 1 + 1 ELSE 0
          /\ \A i \in 1 .. 1 - 1 + 1 : SubSeq(f, 1, 1)[i] = f[1 + i - 1]
      BY <3>1, SubSeqProperties
    <3> QED  BY <1>1, <3>2
  <2>2. <<"head">> \in Seq(Alphabet) /\ Len(<<"head">>) = 1 /\ <<"head">>[1] = "head"
    <3>1. "head" \in Alphabet
      BY DEF Alphabet
    <3> QED  BY <3>1, Tuples
  <2>3. SubSeq(f, 1, 1) = <<"head">>
    <3> DEFINE u == SubSeq(f, 1, 1)
               v == <<"head">>
    <3>1. u \in Seq(Alphabet) /\ v \in Seq(Alphabet) /\ Len(u) = 1 /\ Len(v) = 1 /\ u[1] = v[1]
      BY <2>1, <2>2
    <3>2. \A i \in 1 .. 1 : i = 1
      OBVIOUS
    <3> HIDE DEF u, v
    <3>3. u = v
      BY <3>1, <3>2, SeqEqual
    <3> QED  BY <3>3 DEF u, v
  <2> QED  BY <1>5, <2>3 DEF Before
<1>8. After(f) = <<"tail">>
  <2>1. /\ SubSeq(f, n + 6, n + 6) \in Seq(Alphabet) /\ Len(SubSeq(f, n + 6, n + 6)) = 1
        /\ SubSeq(f, n + 6, n + 6)[1] = "tail"
    <3>1. \A i \in n + 6 .. n + 6 : f[i] \in Alphabet
      BY <1>1, <1>3
    <3>2. /\ SubSeq(f, n + 6, n + 6) \in Seq(Alphabet)
          /\ Len(SubSeq(f, n + 6, n + 6)) = IF n + 6 <= n + 6 THEN (n + 6) - (n + 6) + 1 ELSE 0
          /\ \A i \in 1 .. (n + 6) - (n + 6) + 1 :
                 SubSeq(f, n + 6, n + 6)[i] = f[(n + 6) + i - 1]
      BY <1>1, <3>1, SubSeqProperties
    <3>3. (n + 6) + 1 - 1 = n + 6 /\ 1 \in 1 .. (n + 6) - (n + 6) + 1
      BY <1>1
    <3> QED  BY <1>1, <3>2, <3>3
  <2>2. <<"tail">> \in Seq(Alphabet) /\ Len(<<"tail">>) = 1 /\ <<"tail">>[1] = "tail"
    <3>1. "tail" \in Alphabet
      BY DEF Alphabet
    <3> QED  BY <3>1, Tuples
  <2>3. SubSeq(f, n + 6, n + 6) = <<"tail">>
    <3> DEFINE u == SubSeq(f, n + 6, n + 6)
               v == <<"tail">>
    <3>1. u \in Seq(Alphabet) /\ v \in Seq(Alphabet) /\ Len(u) = 1 /\ Len(v) = 1 /\ u[1] = v[1]
      BY <2>1, <2>2
    <3>2. \A i \in 1 .. 1 : i = 1
      OBVIOUS
    <3> HIDE DEF u, v
    <3>3. u = v
      BY <3>1, <3>2, SeqEqual
    <3> QED  BY <3>3 DEF u, v
  <2>4. (n + 5) + 1 = n + 6
    BY <1>1
  <2> QED  BY <1>1, <1>6, <2>3, <2>4 DEF After
<1>9. SubSeq(f, 4, n + 4) = d \o <<"nl">>
  <2> DEFINE s == SubSeq(f, 4, n + 4)
             t == d \o <<"nl">>
  <2>1. \A i \in 4 .. n + 4 : f[i] \in Alphabet
    BY <1>1, <1>3
  <2>2. /\ s \in Seq(Alphabet)
        /\ Len(s) = IF 4 <= n + 4 THEN (n + 4) - 4 + 1 ELSE 0
        /\ \A i \in 1 .. (n + 4) - 4 + 1 : s[i] = f[4 + i - 1]
    BY <1>1, <2>1, SubSeqProperties
  <2>3. /\ t \in Seq(Alphabet) /\ Len(t) = n + Len(<<"nl">>)
        /\ \A i \in 1 .. n + Len(<<"nl">>) : t[i] = IF i <= n THEN d[i] ELSE <<"nl">>[i - n]
    BY <1>2, ConcatProperties
  <2> HIDE DEF s, t, n
  <2>4. Len(s) = n + 1 /\ \A i \in 1 .. n + 1 : s[i] = f[3 + i]
    <3>1. (n + 4) - 4 + 1 = n + 1 /\ 4 <= n + 4 /\ \A i \in 1 .. n + 1 : 4 + i - 1 = 3 + i
      BY <1>1
    <3> QED  BY <2>2, <3>1
  <2>5. Len(t) = n + 1 /\ \A i \in 1 .. n + 1 : t[i] = IF i <= n THEN d[i] ELSE <<"nl">>[i - n]
    BY <2>3
  <2>6. \A i \in 1 .. n + 1 : s[i] = t[i]
    <3> SUFFICES ASSUME NEW i \in 1 .. n + 1 PROVE s[i] = t[i]
      OBVIOUS
    <3>1. CASE i <= n
      <4>1. i \in 1 .. n
        BY <1>1, <3>1
      <4> QED  BY <1>1, <2>4, <2>5, <3>1, <4>1
    <3>2. CASE i = n + 1
      <4>1. i - n = 1 /\ ~(i <= n) /\ 3 + i = n + 4
        BY <1>1, <3>2
      <4>2. t[i] = "nl"
        BY <2>5, <4>1
      <4>3. s[i] = "nl"
        BY <1>1, <2>4, <4>1
      <4> QED  BY <4>2, <4>3
    <3> QED  BY <1>1, <3>1, <3>2
  <2> QED  BY <2>2, <2>3, <2>4, <2>5, <2>6, SeqEqual DEF s, t
<1>10. Begin(f) + 2 = 4 /\ End(f) - 1 = n + 4
  BY <1>1, <1>5, <1>6
<1> QED  BY <1>4, <1>7, <1>8, <1>9, <1>10 DEF f

-----------------------------------------------------------------------------
(* What a replace does with a text, and readers.                             *)

\* What holds at the end, and before wherever it holds, holds everywhere.
LEMMA Backwards ==
  ASSUME NEW n \in Nat, NEW T, n + 1 \in T, \A i \in 1 .. n : i + 1 \in T => i \in T
  PROVE  \A i \in 1 .. n + 1 : i \in T
<1> DEFINE U == {k \in 0 .. n : n + 1 - k \notin T}
<1>1. U = {}
  <2> SUFFICES ASSUME U # {} PROVE FALSE
    OBVIOUS
  <2>1. U \in SUBSET Nat /\ U \subseteq 0 .. n
    OBVIOUS
  <2>2. \A k \in 0 .. n : k \in U <=> n + 1 - k \notin T
    OBVIOUS
  <2> HIDE DEF U
  <2>3. PICK k \in U : \A y \in U : k <= y
    BY <2>1, LeastNumber
  <2>4. k \in 0 .. n /\ n + 1 - k \notin T
    BY <2>1, <2>2
  <2>5. k # 0
    BY <2>4
  <2>6. k - 1 \in 0 .. n /\ k - 1 \notin U
    BY <2>3, <2>4, <2>5
  <2>7. n + 1 - (k - 1) \in T
    BY <2>2, <2>6
  <2>8. n + 1 - k \in 1 .. n /\ (n + 1 - k) + 1 = n + 1 - (k - 1)
    BY <2>4, <2>5
  <2> QED  BY <2>4, <2>7, <2>8
<1>2. ASSUME NEW i \in 1 .. n + 1 PROVE i \in T
  <2>1. n + 1 - i \in 0 .. n /\ n + 1 - (n + 1 - i) = i
    OBVIOUS
  <2>2. \A k \in 0 .. n : k \notin U => n + 1 - k \in T
    OBVIOUS
  <2> QED  BY <1>1, <2>1, <2>2
<1> QED  BY <1>2

\* What is laid is in its text.
LEMMA LaidInside ==
  ASSUME NEW S, NEW ss \in Seq(Seq(S)), NEW out \in Seq(S), NEW P, Laid(out, ss, P)
  PROVE  \A i \in 1 .. Len(ss) : \A k \in 1 .. Len(ss[i]) : P[i] + k - 1 \in 1 .. Len(out)
<1> DEFINE n == Len(ss)
           T == {i \in 1 .. n + 1 : P[i] <= P[n + 1]}
<1>1. /\ n \in Nat /\ Len(out) \in Nat
      /\ \A i \in 1 .. n : Len(ss[i]) \in Nat
  BY LenProperties, ElementOfSeq
<1>2. /\ P[n + 1] = Len(out) + 1
      /\ \A i \in 1 .. n + 1 : P[i] \in Nat \ {0}
      /\ \A i \in 1 .. n : P[i + 1] = P[i] + Len(ss[i])
  BY DEF Laid
<1> HIDE DEF n
<1>3. \A i \in 1 .. n + 1 : i \in T
  <2>1. \A i \in 1 .. n + 1 : i \in T <=> P[i] <= P[n + 1]
    OBVIOUS
  <2> HIDE DEF T
  <2>2. n + 1 \in T
    BY <1>1, <1>2, <2>1
  <2>3. ASSUME NEW i \in 1 .. n, i + 1 \in T PROVE i \in T
    <3>1. i \in 1 .. n + 1 /\ i + 1 \in 1 .. n + 1
      BY <1>1
    <3>2. P[i + 1] <= P[n + 1] /\ P[i + 1] = P[i] + Len(ss[i]) /\ Len(ss[i]) \in Nat /\ P[i] \in Nat
      BY <1>1, <1>2, <2>1, <2>3, <3>1
    <3>3. \A a, b, c, d \in Nat : a <= d /\ a = b + c => b <= d
      OBVIOUS
    <3>4. P[n + 1] \in Nat /\ P[i + 1] \in Nat
      BY <1>1, <1>2, <3>1
    <3>5. P[i] <= P[n + 1]
      BY <3>2, <3>3, <3>4
    <3> QED  BY <2>1, <3>1, <3>5
  <2> QED  BY <1>1, <2>2, <2>3, Backwards
<1>4. ASSUME NEW i \in 1 .. n, NEW k \in 1 .. Len(ss[i])
      PROVE  P[i] + k - 1 \in 1 .. Len(out)
  <2>1. i \in 1 .. n + 1 /\ i + 1 \in 1 .. n + 1
    BY <1>1
  <2>2. /\ P[i + 1] <= Len(out) + 1 /\ P[i + 1] = P[i] + Len(ss[i])
        /\ P[i] \in Nat \ {0} /\ Len(ss[i]) \in Nat
    BY <1>1, <1>2, <1>3, <2>1
  <2>3. \A a, b, c \in Nat : a # 0 /\ a + b <= c + 1 => \A x \in 1 .. b : a + x - 1 \in 1 .. c
    OBVIOUS
  <2> QED  BY <1>1, <2>2, <2>3
<1> QED  BY <1>4 DEF n

\* A replace that puts a backslash before the lexemes at X and keeps the rest:
\* the lexeme at i, or its backslash, stands at P[i].
Doubled(out, text, X, P) ==
    /\ P[1] = 1 /\ P[Len(text) + 1] = Len(out) + 1
    /\ \A i \in 1 .. Len(text) :
           /\ P[i] \in 1 .. Len(out)
           /\ i \in X => /\ P[i + 1] = P[i] + 2 /\ P[i] + 1 \in 1 .. Len(out)
                         /\ out[P[i]] = "bs" /\ out[P[i] + 1] = text[i]
           /\ i \notin X => P[i + 1] = P[i] + 1 /\ out[P[i]] = text[i]

\* Such a replace has places for all it was given.
LEMMA ReplaceDoubles ==
  ASSUME NEW text \in Seq(Letters), NEW X, NEW out,
         out = FlattenSeq([i \in DOMAIN text |->
                   IF i \in X THEN <<"bs", text[i]>> ELSE <<text[i]>>])
  PROVE  out \in Seq(Letters) /\ \E P : Doubled(out, text, X, P)
<1> DEFINE n == Len(text)
           ss == [i \in 1 .. n |-> IF i \in X THEN <<"bs", text[i]>> ELSE <<text[i]>>]
<1>1. n \in Nat /\ DOMAIN text = 1 .. n /\ \A i \in 1 .. n : text[i] \in Letters
  BY LenProperties, ElementOfSeq
<1>2. "bs" \in Letters
  BY AlphabetHolds DEF Signs
<1>3. ASSUME NEW i \in 1 .. n
      PROVE  /\ ss[i] \in Seq(Letters)
             /\ i \in X => Len(ss[i]) = 2 /\ ss[i][1] = "bs" /\ ss[i][2] = text[i]
             /\ i \notin X => Len(ss[i]) = 1 /\ ss[i][1] = text[i]
  <2>1. text[i] \in Letters
    BY <1>1
  <2>2. ss[i] = IF i \in X THEN <<"bs", text[i]>> ELSE <<text[i]>>
    OBVIOUS
  <2>3. <<"bs", text[i]>> \in Seq(Letters) /\ <<text[i]>> \in Seq(Letters)
    BY <1>2, <2>1, Tuples
  <2> HIDE DEF ss
  <2>4. CASE i \in X
    BY <2>2, <2>3, <2>4
  <2>5. CASE i \notin X
    BY <2>2, <2>3, <2>5
  <2> QED  BY <2>4, <2>5
<1>4. out = FlattenSeq(ss)
  BY <1>1
<1>5. ss \in Seq(Seq(Letters)) /\ Len(ss) = n
  <2>1. ss = [i \in 1 .. n |-> ss[i]]
    OBVIOUS
  <2> HIDE DEF ss, n
  <2>2. ss \in [1 .. n -> Seq(Letters)]
    BY <1>3, <2>1
  <2> QED  BY <1>1, <2>2
<1> HIDE DEF ss, n
<1>6. out \in Seq(Letters) /\ \E P : Laid(out, ss, P)
  BY <1>4, <1>5, PiecesAreLaid
<1>7. PICK P : Laid(out, ss, P)
  BY <1>6
<1>8. \A i \in 1 .. n : \A k \in 1 .. Len(ss[i]) : P[i] + k - 1 \in 1 .. Len(out)
  BY <1>5, <1>6, <1>7, LaidInside
<1>9. /\ P[1] = 1 /\ P[n + 1] = Len(out) + 1
      /\ \A i \in 1 .. n + 1 : P[i] \in Nat \ {0}
      /\ \A i \in 1 .. n : /\ P[i + 1] = P[i] + Len(ss[i])
                           /\ \A k \in 1 .. Len(ss[i]) : out[P[i] + k - 1] = ss[i][k]
  BY <1>5, <1>7 DEF Laid
<1>10. ASSUME NEW i \in 1 .. n
       PROVE  /\ P[i] \in 1 .. Len(out)
              /\ i \in X => /\ P[i + 1] = P[i] + 2 /\ P[i] + 1 \in 1 .. Len(out)
                            /\ out[P[i]] = "bs" /\ out[P[i] + 1] = text[i]
              /\ i \notin X => P[i + 1] = P[i] + 1 /\ out[P[i]] = text[i]
  <2>1. P[i] \in Nat /\ P[i] + 1 - 1 = P[i] /\ P[i] + 2 - 1 = P[i] + 1
    BY <1>1, <1>9
  <2>2. 1 \in 1 .. Len(ss[i]) /\ (i \in X => 2 \in 1 .. Len(ss[i]))
    BY <1>3
  <2>3. P[i] \in 1 .. Len(out) /\ out[P[i]] = ss[i][1]
    BY <1>8, <1>9, <2>1, <2>2
  <2>4. i \in X => P[i] + 1 \in 1 .. Len(out) /\ out[P[i] + 1] = ss[i][2]
    BY <1>8, <1>9, <2>1, <2>2
  <2>5. P[i + 1] = P[i] + Len(ss[i])
    BY <1>9
  <2> QED  BY <1>3, <2>3, <2>4, <2>5
<1>11. Doubled(out, text, X, P)
  BY <1>9, <1>10 DEF Doubled, n
<1> QED  BY <1>6, <1>11

\* A reader that says something at each place and goes on from a later one.
Reads(f, D, ends, silent, said, next) ==
    f = [d \in D |-> IF d \in ends THEN said[d]
                     ELSE IF d \in silent THEN f[next[d]] ELSE said[d] \o f[next[d]]]

\* Such a function is, when it only goes on to places of a lower rank.
LEMMA ReaderExists ==
  ASSUME NEW D, NEW rank, NEW top \in Nat, NEW ends, NEW silent, NEW said, NEW next,
         \A d \in D : rank[d] \in 0 .. top,
         \A d \in D : d \notin ends => next[d] \in D /\ rank[next[d]] < rank[d]
  PROVE  \E f : Reads(f, D, ends, silent, said, next)
<1> DEFINE To(m) == {d \in D : rank[d] <= m}
           Good(f, m) == f = [d \in To(m) |-> IF d \in ends THEN said[d]
                          ELSE IF d \in silent THEN f[next[d]] ELSE said[d] \o f[next[d]]]
           T == {m \in Nat : ~ \E f : Good(f, m)}
<1>1. T = {}
  <2> SUFFICES ASSUME T # {} PROVE FALSE
    OBVIOUS
  <2>1. T \in SUBSET Nat
    OBVIOUS
  <2> HIDE DEF T
  <2>2. PICK m \in T : \A k \in T : m <= k
    BY <2>1, LeastNumber
  <2>3. m \in Nat /\ ~ \E f : Good(f, m)
    BY <2>2 DEF T
  <2>4. \E f : m # 0 => f = [d \in To(m - 1) |->
               IF d \in ends THEN said[d]
               ELSE IF d \in silent THEN f[next[d]] ELSE said[d] \o f[next[d]]]
    <3>1. CASE m = 0
      BY <3>1
    <3>2. CASE m # 0
      <4>1. m - 1 \in Nat /\ m - 1 \notin T
        BY <2>2, <2>3, <3>2
      <4> QED  BY <4>1 DEF T
    <3> QED  BY <3>1, <3>2
  <2>5. PICK f : m # 0 => f = [d \in To(m - 1) |->
               IF d \in ends THEN said[d]
               ELSE IF d \in silent THEN f[next[d]] ELSE said[d] \o f[next[d]]]
    BY <2>4
  <2> DEFINE later(d) == IF m # 0 /\ rank[next[d]] < m THEN f[next[d]] ELSE << >>
             g == [d \in To(m) |-> IF d \in ends THEN said[d]
                                   ELSE IF d \in silent THEN later(d) ELSE said[d] \o later(d)]
  \* The values f has are g's.
  <2>6. ASSUME NEW d \in D, m # 0, rank[d] <= m - 1 PROVE d \in To(m) /\ g[d] = f[d]
    <3>1. d \in To(m - 1) /\ d \in To(m) /\ rank[d] \in Nat
      BY <2>3, <2>6
    <3>2. f[d] = IF d \in ends THEN said[d]
                ELSE IF d \in silent THEN f[next[d]] ELSE said[d] \o f[next[d]]
      BY <2>5, <2>6, <3>1
    <3>3. d \notin ends => rank[next[d]] \in Nat /\ rank[next[d]] < rank[d]
      OBVIOUS
    <3>4. d \notin ends => rank[next[d]] < m
      BY <2>3, <2>6, <3>1, <3>3
    <3> QED  BY <2>6, <3>1, <3>2, <3>4
  <2>7. ASSUME NEW d \in To(m)
        PROVE  g[d] = IF d \in ends THEN said[d]
                     ELSE IF d \in silent THEN g[next[d]] ELSE said[d] \o g[next[d]]
    <3>1. d \in D /\ rank[d] \in Nat /\ rank[d] <= m
      OBVIOUS
    <3>2. CASE d \in ends
      BY <3>2
    <3>3. CASE d \notin ends
      <4>1. next[d] \in D /\ rank[next[d]] \in Nat /\ rank[next[d]] < rank[d]
        BY <3>1, <3>3
      <4>2. m # 0 /\ rank[next[d]] < m /\ rank[next[d]] <= m - 1
        BY <2>3, <3>1, <4>1
      <4>3. g[next[d]] = f[next[d]]
        BY <2>6, <4>1, <4>2
      <4> QED  BY <3>3, <4>2, <4>3
    <3> QED  BY <3>2, <3>3
  <2>8. g = [d \in To(m) |-> g[d]]
    OBVIOUS
  <2> HIDE DEF g
  <2>9. Good(g, m)
    BY <2>7, <2>8
  <2> QED  BY <2>3, <2>9
<1>2. To(top) = D
  OBVIOUS
<1>3. \E f : Good(f, top)
  BY <1>1
<1> QED  BY <1>2, <1>3 DEF Reads

-----------------------------------------------------------------------------
(* TypeScript's content.                                                     *)

\* The replace of one lexeme everywhere, as tsContent uses it.
LEMMA EscapedDoubles ==
  ASSUME NEW text \in Seq(Letters), NEW c
  PROVE  /\ Escaped(text, c) \in Seq(Letters)
         /\ \E P : Doubled(Escaped(text, c), text, {i \in DOMAIN text : text[i] = c}, P)
<1> DEFINE X == {i \in DOMAIN text : text[i] = c}
           out == Escaped(text, c)
           ss == [i \in DOMAIN text |-> IF text[i] = c THEN <<"bs", c>> ELSE <<text[i]>>]
           tt == [i \in DOMAIN text |-> IF i \in X THEN <<"bs", text[i]>> ELSE <<text[i]>>]
<1>1. out = FlattenSeq(ss)
  BY DEF Escaped, Replaced
<1>2. \A i \in DOMAIN text : ss[i] = tt[i]
  OBVIOUS
<1>3. ss = tt
  BY <1>2
<1>4. out = FlattenSeq(tt)
  BY <1>1, <1>3
<1> HIDE DEF X, out
<1> QED  BY <1>4, ReplaceDoubles DEF X, out

\* The replace of the dollars that stand before a brace.
LEMMA BracesDouble ==
  ASSUME NEW text \in Seq(Letters)
  PROVE  /\ BracesEscaped(text) \in Seq(Letters)
         /\ \E P : Doubled(BracesEscaped(text), text,
                           {i \in DOMAIN text : text[i] = "$" /\ At(text, i + 1) = "{"}, P)
<1> DEFINE X == {i \in DOMAIN text : text[i] = "$" /\ At(text, i + 1) = "{"}
           out == BracesEscaped(text)
           ss == [i \in DOMAIN text |-> IF text[i] = "$" /\ At(text, i + 1) = "{"
                                          THEN <<"bs", "$">> ELSE <<text[i]>>]
           tt == [i \in DOMAIN text |-> IF i \in X THEN <<"bs", text[i]>> ELSE <<text[i]>>]
<1>1. out = FlattenSeq(ss)
  BY DEF BracesEscaped, Replaced
<1>2. \A i \in DOMAIN text : ss[i] = tt[i]
  OBVIOUS
<1>3. ss = tt
  BY <1>2
<1>4. out = FlattenSeq(tt)
  BY <1>1, <1>3
<1> HIDE DEF X, out
<1> QED  BY <1>4, ReplaceDoubles DEF X, out

\* A template literal's content says the text: what stands at Q[i] names the
\* lexeme at i, itself or behind a backslash, and no "${" is left.
SaysTs(out, text, Q) ==
    /\ Q[1] = 1 /\ Q[Len(text) + 1] = Len(out) + 1
    /\ \A i \in 1 .. Len(text) :
           /\ Q[i] \in 1 .. Len(out)
           /\ \/ /\ Q[i + 1] = Q[i] + 2 /\ Q[i] + 1 \in 1 .. Len(out)
                 /\ out[Q[i]] = "bs" /\ out[Q[i] + 1] = text[i]
                 /\ text[i] \in {"bs", "tick", "$"}
              \/ /\ Q[i + 1] = Q[i] + 1 /\ out[Q[i]] = text[i]
                 /\ text[i] \notin {"bs", "tick"}
                 /\ text[i] = "$" /\ Q[i] + 1 \in 1 .. Len(out) => out[Q[i] + 1] # "{"

\* tsContent's three replaces, one after the other, still say the text.
LEMMA ContentSays ==
  ASSUME NEW text \in Seq(Letters)
  PROVE  tsContent(text) \in Seq(Letters) /\ \E Q : SaysTs(tsContent(text), text, Q)
<1> DEFINE E1 == Escaped(text, "bs")
           E2 == Escaped(E1, "tick")
           E3 == BracesEscaped(E2)
           X1 == {i \in DOMAIN text : text[i] = "bs"}
           X2 == {i \in DOMAIN E1 : E1[i] = "tick"}
           X3 == {i \in DOMAIN E2 : E2[i] = "$" /\ At(E2, i + 1) = "{"}
           n == Len(text)
<1>1. E1 \in Seq(Letters) /\ \E P : Doubled(E1, text, X1, P)
  BY EscapedDoubles
<1> HIDE DEF E1
<1>2. E2 \in Seq(Letters) /\ \E P : Doubled(E2, E1, X2, P)
  BY <1>1, EscapedDoubles
<1> HIDE DEF E2
<1>3. E3 \in Seq(Letters) /\ \E P : Doubled(E3, E2, X3, P)
  BY <1>2, BracesDouble
<1> HIDE DEF E3
<1>4. PICK P1 : Doubled(E1, text, X1, P1)
  BY <1>1
<1>5. PICK P2 : Doubled(E2, E1, X2, P2)
  BY <1>2
<1>6. PICK P3 : Doubled(E3, E2, X3, P3)
  BY <1>3
<1>7. /\ n \in Nat /\ Len(E1) \in Nat /\ Len(E2) \in Nat /\ Len(E3) \in Nat
      /\ DOMAIN text = 1 .. n /\ DOMAIN E1 = 1 .. Len(E1) /\ DOMAIN E2 = 1 .. Len(E2)
  BY <1>1, <1>2, <1>3, LenProperties
<1>8. /\ \A i \in 1 .. n : i \in X1 <=> text[i] = "bs"
      /\ \A i \in 1 .. Len(E1) : i \in X2 <=> E1[i] = "tick"
      /\ \A i \in 1 .. Len(E2) : i \in X3 <=> E2[i] = "$" /\ At(E2, i + 1) = "{"
  BY <1>7
<1> HIDE DEF X1, X2, X3, n
<1> DEFINE R == [i \in 1 .. n + 1 |-> P2[P1[i]]]
           Q == [i \in 1 .. n + 1 |-> P3[R[i]]]
<1>9. \A i \in 1 .. n : i \in 1 .. n + 1 /\ i + 1 \in 1 .. n + 1
  BY <1>7
<1>10. /\ P1[1] = 1 /\ P1[n + 1] = Len(E1) + 1 /\ P2[1] = 1 /\ P2[Len(E1) + 1] = Len(E2) + 1
       /\ P3[1] = 1 /\ P3[Len(E2) + 1] = Len(E3) + 1
       /\ 1 \in 1 .. n + 1 /\ n + 1 \in 1 .. n + 1
  BY <1>4, <1>5, <1>6, <1>7 DEF Doubled, n
<1>11. R[1] = 1 /\ R[n + 1] = Len(E2) + 1 /\ Q[1] = 1 /\ Q[n + 1] = Len(E3) + 1
  BY <1>10
<1>12. /\ \A i \in 1 .. n + 1 : R[i] = P2[P1[i]] /\ Q[i] = P3[R[i]]
  OBVIOUS
<1> HIDE DEF R, Q
\* The backslashes and backticks have theirs.
<1>13. ASSUME NEW i \in 1 .. n
       PROVE  /\ R[i] \in 1 .. Len(E2)
              /\ text[i] \in {"bs", "tick"} =>
                     /\ R[i + 1] = R[i] + 2 /\ R[i] + 1 \in 1 .. Len(E2)
                     /\ E2[R[i]] = "bs" /\ E2[R[i] + 1] = text[i]
              /\ text[i] \notin {"bs", "tick"} => R[i + 1] = R[i] + 1 /\ E2[R[i]] = text[i]
  <2> DEFINE p == P1[i]
  <2>1. /\ p \in 1 .. Len(E1)
        /\ text[i] = "bs" => /\ P1[i + 1] = p + 2 /\ p + 1 \in 1 .. Len(E1)
                             /\ E1[p] = "bs" /\ E1[p + 1] = text[i]
        /\ text[i] # "bs" => P1[i + 1] = p + 1 /\ E1[p] = text[i]
    BY <1>4, <1>8 DEF Doubled, n
  <2>2. R[i] = P2[p] /\ R[i + 1] = P2[P1[i + 1]]
    BY <1>9, <1>12
  <2>3. \A j \in 1 .. Len(E1) :
           /\ P2[j] \in 1 .. Len(E2)
           /\ E1[j] = "tick" => /\ P2[j + 1] = P2[j] + 2 /\ P2[j] + 1 \in 1 .. Len(E2)
                                /\ E2[P2[j]] = "bs" /\ E2[P2[j] + 1] = E1[j]
           /\ E1[j] # "tick" => P2[j + 1] = P2[j] + 1 /\ E2[P2[j]] = E1[j]
    BY <1>5, <1>8 DEF Doubled
  <2> HIDE DEF p
  <2>4. CASE text[i] = "bs"
    <3>1. P2[p + 1] = P2[p] + 1 /\ E2[P2[p]] = "bs" /\ P2[p] \in 1 .. Len(E2)
      BY <2>1, <2>3, <2>4
    <3>2. P2[(p + 1) + 1] = P2[p + 1] + 1 /\ E2[P2[p + 1]] = "bs" /\ P2[p + 1] \in 1 .. Len(E2)
      BY <2>1, <2>3, <2>4
    <3>3. (p + 1) + 1 = p + 2 /\ (P2[p] + 1) + 1 = P2[p] + 2
      BY <1>7, <2>1, <3>1
    <3> QED  BY <2>1, <2>2, <2>4, <3>1, <3>2, <3>3
  <2>5. CASE text[i] = "tick"
    BY <2>1, <2>2, <2>3, <2>5
  <2>6. CASE text[i] \notin {"bs", "tick"}
    BY <2>1, <2>2, <2>3, <2>6
  <2> QED  BY <2>4, <2>5, <2>6
<1>14. \A j \in 1 .. Len(E2) :
          /\ P3[j] \in 1 .. Len(E3)
          /\ j \in X3 => /\ P3[j + 1] = P3[j] + 2 /\ P3[j] + 1 \in 1 .. Len(E3)
                         /\ E3[P3[j]] = "bs" /\ E3[P3[j] + 1] = E2[j]
          /\ j \notin X3 => P3[j + 1] = P3[j] + 1 /\ E3[P3[j]] = E2[j]
  BY <1>6 DEF Doubled
<1>15. ASSUME NEW i \in 1 .. n
       PROVE  /\ Q[i] \in 1 .. Len(E3)
              /\ \/ /\ Q[i + 1] = Q[i] + 2 /\ Q[i] + 1 \in 1 .. Len(E3)
                    /\ E3[Q[i]] = "bs" /\ E3[Q[i] + 1] = text[i]
                    /\ text[i] \in {"bs", "tick", "$"}
                 \/ /\ Q[i + 1] = Q[i] + 1 /\ E3[Q[i]] = text[i]
                    /\ text[i] \notin {"bs", "tick"}
                    /\ text[i] = "$" /\ Q[i] + 1 \in 1 .. Len(E3) => E3[Q[i] + 1] # "{"
  <2> DEFINE r == R[i]
  <2>1. /\ r \in 1 .. Len(E2)
        /\ text[i] \in {"bs", "tick"} =>
               /\ R[i + 1] = r + 2 /\ r + 1 \in 1 .. Len(E2)
               /\ E2[r] = "bs" /\ E2[r + 1] = text[i]
        /\ text[i] \notin {"bs", "tick"} => R[i + 1] = r + 1 /\ E2[r] = text[i]
    BY <1>13
  <2>2. Q[i] = P3[r] /\ Q[i + 1] = P3[R[i + 1]]
    BY <1>9, <1>12
  <2> HIDE DEF r
  <2>3. CASE text[i] \in {"bs", "tick"}
    <3>1. r \notin X3 /\ r + 1 \notin X3
      BY <1>8, <2>1, <2>3
    <3>2. P3[r + 1] = P3[r] + 1 /\ E3[P3[r]] = "bs" /\ P3[r] \in 1 .. Len(E3)
      BY <1>14, <2>1, <2>3, <3>1
    <3>3. P3[(r + 1) + 1] = P3[r + 1] + 1 /\ E3[P3[r + 1]] = text[i] /\ P3[r + 1] \in 1 .. Len(E3)
      BY <1>14, <2>1, <2>3, <3>1
    <3>4. (r + 1) + 1 = r + 2 /\ (P3[r] + 1) + 1 = P3[r] + 2
      BY <1>7, <2>1, <3>2
    <3> QED  BY <2>1, <2>2, <2>3, <3>2, <3>3, <3>4
  <2>4. CASE text[i] \notin {"bs", "tick"} /\ r \in X3
    <3>1. text[i] = "$"
      BY <1>8, <2>1, <2>4
    <3> QED  BY <1>14, <2>1, <2>2, <2>4, <3>1
  <2>5. CASE text[i] \notin {"bs", "tick"} /\ r \notin X3
    <3>1. /\ Q[i + 1] = Q[i] + 1 /\ E3[Q[i]] = text[i] /\ Q[i] \in 1 .. Len(E3)
          /\ P3[r + 1] = Q[i] + 1
      BY <1>14, <2>1, <2>2, <2>5
    <3>2. ASSUME text[i] = "$", Q[i] + 1 \in 1 .. Len(E3) PROVE E3[Q[i] + 1] # "{"
      <4>1. At(E2, r + 1) # "{"
        BY <1>8, <2>1, <2>5, <3>2
      <4>2. CASE r = Len(E2)
        <5>1. P3[r + 1] = Len(E3) + 1
          BY ONLY <1>10, <4>2
        <5>2. Len(E3) + 1 \in 1 .. Len(E3)
          BY ONLY <3>1, <3>2, <5>1
        <5>3. \A m \in Nat : m + 1 \notin 1 .. m
          OBVIOUS
        <5> QED  BY ONLY <1>7, <5>2, <5>3
      <4>3. CASE r # Len(E2)
        <5>1. r + 1 \in 1 .. Len(E2)
          <6>1. \A m \in Nat : \A x \in 1 .. m : x # m => x + 1 \in 1 .. m
            OBVIOUS
          <6> QED  BY ONLY <1>7, <2>1, <4>3, <6>1
        <5>2. E2[r + 1] # "{"
          BY <1>7, <4>1, <5>1 DEF At
        <5>3. CASE r + 1 \in X3
          BY <1>14, <3>1, <5>1, <5>3
        <5>4. CASE r + 1 \notin X3
          BY <1>14, <3>1, <5>1, <5>2, <5>4
        <5> QED  BY <5>3, <5>4
      <4> QED  BY <4>2, <4>3
    <3> QED  BY <2>5, <3>1, <3>2
  <2> QED  BY <2>3, <2>4, <2>5
<1>16. SaysTs(E3, text, Q)
  BY <1>11, <1>15 DEF SaysTs, n
<1>17. tsContent(text) = E3
  BY DEF tsContent, E1, E2, E3
<1> QED  BY <1>3, <1>16, <1>17

-----------------------------------------------------------------------------
(* What TypeScript reads.                                                    *)

\* What is left of the grammar's meaning from its lexeme at i.
From(g, i) == [k \in 1 .. Len(g) + 1 - i |-> Line(g[i + k - 1])]

\* The meaning of a text, from its end to its first lexeme.
LEMMA FromStep ==
  ASSUME NEW g \in Seq(Letters)
  PROVE  /\ From(g, Len(g) + 1) = << >>
         /\ From(g, 1) = [i \in DOMAIN g |-> Line(g[i])]
         /\ \A i \in 1 .. Len(g) + 1 : From(g, i) \in Seq(Letters)
         /\ \A i \in 1 .. Len(g) : From(g, i) = <<Line(g[i])>> \o From(g, i + 1)
<1> DEFINE n == Len(g)
<1>1. n \in Nat /\ DOMAIN g = 1 .. n /\ \A i \in 1 .. n : g[i] \in Letters
  BY LenProperties, ElementOfSeq
<1>2. \A c \in Letters : Line(c) \in Letters
  BY AlphabetHolds DEF Line, Signs
<1> HIDE DEF n
<1>3. ASSUME NEW i \in 1 .. n + 1
      PROVE  /\ From(g, i) \in Seq(Letters) /\ Len(From(g, i)) = n + 1 - i
             /\ \A k \in 1 .. n + 1 - i : From(g, i)[k] = Line(g[i + k - 1])
  <2> DEFINE s == From(g, i)
             m == n + 1 - i
  <2>1. m \in Nat /\ \A k \in 1 .. m : i + k - 1 \in 1 .. n
    BY <1>1
  <2>2. s = [k \in 1 .. m |-> Line(g[i + k - 1])]
    BY DEF From, n
  <2> HIDE DEF s, m
  <2>3. \A k \in 1 .. m : Line(g[i + k - 1]) \in Letters
    BY <1>1, <1>2, <2>1
  <2>4. s \in [1 .. m -> Letters]
    BY <2>2, <2>3
  <2>5. s \in Seq(Letters) /\ Len(s) = m
    BY <2>1, <2>4
  <2> QED  BY <2>2, <2>5 DEF s, m
<1>4. From(g, n + 1) = << >>
  <2>1. n + 1 \in 1 .. n + 1 /\ n + 1 - (n + 1) = 0
    BY <1>1
  <2>2. From(g, n + 1) \in Seq(Letters) /\ Len(From(g, n + 1)) = 0
    BY <1>3, <2>1
  <2> QED  BY <2>2, EmptySeq
<1>5. From(g, 1) = [i \in DOMAIN g |-> Line(g[i])]
  <2>1. n + 1 - 1 = n /\ \A i \in 1 .. n : 1 + i - 1 = i
    BY <1>1
  <2> QED  BY <1>1, <2>1 DEF From, n
<1>6. ASSUME NEW i \in 1 .. n PROVE From(g, i) = <<Line(g[i])>> \o From(g, i + 1)
  <2> DEFINE s == From(g, i)
             t == From(g, i + 1)
             h == <<Line(g[i])>>
  <2>1. i \in 1 .. n + 1 /\ i + 1 \in 1 .. n + 1
    BY <1>1
  <2>2. h \in Seq(Letters) /\ Len(h) = 1 /\ h[1] = Line(g[i])
    <3>1. Line(g[i]) \in Letters
      BY <1>1, <1>2
    <3> QED  BY <3>1, Tuples
  <2>3. /\ s \in Seq(Letters) /\ Len(s) = n + 1 - i
        /\ \A k \in 1 .. n + 1 - i : s[k] = Line(g[i + k - 1])
        /\ t \in Seq(Letters) /\ Len(t) = n + 1 - (i + 1)
        /\ \A k \in 1 .. n + 1 - (i + 1) : t[k] = Line(g[(i + 1) + k - 1])
    BY <1>3, <2>1
  <2> HIDE DEF s, t, h
  <2>4. /\ h \o t \in Seq(Letters) /\ Len(h \o t) = Len(h) + Len(t)
        /\ \A k \in 1 .. Len(h) + Len(t) : (h \o t)[k] = IF k <= Len(h) THEN h[k] ELSE t[k - Len(h)]
    BY <2>2, <2>3, ConcatProperties
  <2>5. Len(h \o t) = n + 1 - i /\ Len(h) + Len(t) = n + 1 - i
    BY <1>1, <2>2, <2>3, <2>4
  <2>6. ASSUME NEW k \in 1 .. n + 1 - i PROVE s[k] = (h \o t)[k]
    <3>1. CASE k = 1
      <4>1. i + 1 - 1 = i
        BY <1>1
      <4> QED  BY <2>2, <2>3, <2>4, <2>5, <3>1, <4>1
    <3>2. CASE k # 1
      <4>1. k - 1 \in 1 .. n + 1 - (i + 1) /\ (i + 1) + (k - 1) - 1 = i + k - 1 /\ ~(k <= 1)
        BY <1>1, <3>2
      <4> QED  BY <2>2, <2>3, <2>4, <2>5, <4>1
    <3> QED  BY <3>1, <3>2
  <2>7. s = h \o t
    BY <2>3, <2>4, <2>5, <2>6, SeqEqual
  <2> QED  BY <2>7 DEF s, t, h
<1> QED  BY <1>3, <1>4, <1>5, <1>6 DEF n

\* The end of a text, blank or not.
LEMMA BlankEnds ==
  ASSUME NEW S, NEW text \in Seq(S), NEW i \in Nat \ {0}
  PROVE  /\ (\A k \in i .. Len(text) : text[k] = "nl") => Blank(Rest(text, i))
         /\ i <= Len(text) /\ text[i] # "nl" => ~ Blank(Rest(text, i))
<1> DEFINE n == Len(text)
           r == Rest(text, i)
<1>1. n \in Nat /\ \A k \in 1 .. n : text[k] \in S
  BY LenProperties, ElementOfSeq
<1> HIDE DEF n
<1>2. \A k \in i .. n : text[k] \in S
  BY <1>1
<1>3. /\ SubSeq(text, i, n) \in Seq(S)
      /\ Len(SubSeq(text, i, n)) = IF i <= n THEN n - i + 1 ELSE 0
      /\ \A k \in 1 .. n - i + 1 : SubSeq(text, i, n)[k] = text[i + k - 1]
  BY <1>1, <1>2, SubSeqProperties
<1>4. r = SubSeq(text, i, n)
  BY DEF Rest, n
<1> HIDE DEF r
<1>5. DOMAIN r = 1 .. Len(r)
  BY <1>3, <1>4, LenProperties
<1>6. ASSUME \A k \in i .. n : text[k] = "nl" PROVE Blank(r)
  <2> SUFFICES ASSUME NEW k \in 1 .. Len(r) PROVE r[k] = "nl"
    BY <1>5 DEF Blank
  <2>1. k \in 1 .. n - i + 1 /\ i + k - 1 \in i .. n
    BY <1>1, <1>3, <1>4
  <2> QED  BY <1>3, <1>4, <1>6, <2>1
<1>7. ASSUME i <= n, text[i] # "nl" PROVE ~ Blank(r)
  <2>1. 1 \in 1 .. n - i + 1 /\ 1 \in 1 .. Len(r) /\ i + 1 - 1 = i
    BY <1>1, <1>3, <1>4, <1>7
  <2>2. r[1] = text[i]
    BY <1>3, <1>4, <2>1
  <2> QED  BY <1>5, <1>7, <2>1, <2>2 DEF Blank
<1> QED  BY <1>6, <1>7 DEF r, n

\* The signs one by one.
LEMMA LettersAreWords ==
  /\ \A c \in {"const", "bs", "tick", "qq", "nl", "$", "{", "#", "+", "r#", ";"} : c \in Letters
BY AlphabetHolds DEF Signs

\* A reader's next place is inside its bounds and nearer to the end.
LEMMA GoesOn ==
  ASSUME NEW n \in Nat, NEW i \in 1 .. n, NEW x \in {i + 1, i + 2}
  PROVE  x \in 1 .. n + 2 /\ n + 2 - x < n + 2 - i
OBVIOUS

\* The function CompiledTs is, with one body for each lexeme.
LEMMA TsReaderExists ==
  ASSUME NEW text \in Seq(Letters)
  PROVE  \E f : f = [i \in 1 .. Len(text) + 2 |->
            CASE At(text, i) = "tick" -> IF Blank(Rest(text, i + 1)) THEN <<>> ELSE <<"broken">>
              [] At(text, i) = "eof" -> <<"broken">>
              [] At(text, i) = "$" /\ At(text, i + 1) = "{" -> <<"broken">>
              [] At(text, i) = "bs" ->
                     <<IF At(text, i + 1) \in {"bs", "tick", "$", "{", "qq"}
                         THEN text[i + 1] ELSE "escape">> \o f[i + 2]
              [] OTHER -> <<Line(text[i])>> \o f[i + 1]]
<1> DEFINE n == Len(text)
           D == 1 .. n + 2
           rank == [i \in D |-> n + 2 - i]
           ends == {i \in D : \/ At(text, i) \in {"tick", "eof"}
                              \/ At(text, i) = "$" /\ At(text, i + 1) = "{"}
           next == [i \in D |-> IF At(text, i) = "bs" THEN i + 2 ELSE i + 1]
           silent == {}
           said == [i \in D |->
             CASE At(text, i) = "tick" -> IF Blank(Rest(text, i + 1)) THEN <<>> ELSE <<"broken">>
               [] At(text, i) = "eof" -> <<"broken">>
               [] At(text, i) = "$" /\ At(text, i + 1) = "{" -> <<"broken">>
               [] At(text, i) = "bs" ->
                      <<IF At(text, i + 1) \in {"bs", "tick", "$", "{", "qq"}
                          THEN text[i + 1] ELSE "escape">>
               [] OTHER -> <<Line(text[i])>>]
<1>1. n \in Nat /\ DOMAIN text = 1 .. n
  BY LenProperties
<1>2. \A i \in D : i \notin ends => i \in 1 .. n
  BY <1>1 DEF At
<1> HIDE DEF n
<1>3. \A i \in D : rank[i] \in 0 .. n + 2
  BY <1>1
<1>4. \A i \in D : i \notin ends => next[i] \in D /\ rank[next[i]] < rank[i]
  <2> SUFFICES ASSUME NEW i \in D, i \notin ends PROVE next[i] \in D /\ rank[next[i]] < rank[i]
    OBVIOUS
  <2>1. i \in 1 .. n /\ next[i] \in {i + 1, i + 2}
    BY <1>2
  <2>2. next[i] \in D /\ n + 2 - next[i] < n + 2 - i
    <3>1. \A x \in {i + 1, i + 2} : x \in 1 .. n + 2 /\ n + 2 - x < n + 2 - i
      <4>1. i \in 1 .. n
        BY <2>1
      <4> QED  BY <1>1, <4>1, GoesOn
    <3> HIDE DEF next
    <3> QED  BY <2>1, <3>1
  <2>3. rank[i] = n + 2 - i /\ rank[next[i]] = n + 2 - next[i]
    BY <2>2
  <2> QED  BY <2>2, <2>3
<1>5. n + 2 \in Nat
  BY <1>1
<1> HIDE DEF rank
<1>6. \E f : Reads(f, D, ends, silent, said, next)
  <2> HIDE DEF D, ends, silent, said, next
  <2> QED  BY <1>3, <1>4, <1>5, ReaderExists
<1>7. PICK f : f = [d \in D |-> IF d \in ends THEN said[d]
                               ELSE IF d \in silent THEN f[next[d]] ELSE said[d] \o f[next[d]]]
  BY <1>6 DEF Reads
<1> DEFINE body(i) ==
             CASE At(text, i) = "tick" -> IF Blank(Rest(text, i + 1)) THEN <<>> ELSE <<"broken">>
              [] At(text, i) = "eof" -> <<"broken">>
              [] At(text, i) = "$" /\ At(text, i + 1) = "{" -> <<"broken">>
              [] At(text, i) = "bs" ->
                     <<IF At(text, i + 1) \in {"bs", "tick", "$", "{", "qq"}
                         THEN text[i + 1] ELSE "escape">> \o f[i + 2]
              [] OTHER -> <<Line(text[i])>> \o f[i + 1]
<1>8. ASSUME NEW i \in D PROVE f[i] = body(i)
  <2>1. f[i] = IF i \in ends THEN said[i] ELSE said[i] \o f[next[i]]
    BY <1>7
  <2>2. CASE At(text, i) = "tick"
    BY <2>1, <2>2
  <2>3. CASE At(text, i) = "eof"
    BY <2>1, <2>3
  <2>4. CASE At(text, i) = "$" /\ At(text, i + 1) = "{"
    BY <2>1, <2>4
  <2>5. CASE At(text, i) = "bs"
    BY <2>1, <2>5
  <2>6. CASE /\ At(text, i) \notin {"tick", "eof", "bs"}
             /\ ~(At(text, i) = "$" /\ At(text, i + 1) = "{")
    BY <2>1, <2>6
  <2> QED  BY <2>2, <2>3, <2>4, <2>5, <2>6
<1>9. f = [i \in D |-> f[i]]
  BY <1>7
<1>10. f = [i \in D |-> body(i)]
  <2> HIDE DEF body, D
  <2> QED  BY <1>8, <1>9
<1> QED  BY <1>10 DEF n

\* Two texts of one lexeme joined.
LEMMA Pairs ==
  ASSUME NEW S, NEW x \in S, NEW y \in S
  PROVE  <<x>> \o <<y>> = <<x, y>>
<1> DEFINE u == <<x>>
           v == <<y>>
           w == <<x, y>>
<1>1. u \in Seq(S) /\ v \in Seq(S) /\ w \in Seq(S)
  BY Tuples
<1>2. Len(u) = 1 /\ Len(v) = 1 /\ Len(w) = 2 /\ u[1] = w[1] /\ v[1] = w[2]
  OBVIOUS
<1> HIDE DEF u, v, w
<1>3. /\ u \o v \in Seq(S) /\ Len(u \o v) = Len(u) + Len(v)
      /\ \A i \in 1 .. Len(u) + Len(v) : (u \o v)[i] = IF i <= Len(u) THEN u[i] ELSE v[i - Len(u)]
  BY <1>1, ConcatProperties
<1>4. \A i \in 1 .. 2 : i = 1 \/ i = 2
  OBVIOUS
<1>5. (u \o v)[1] = w[1] /\ (u \o v)[2] = w[2]
  BY <1>2, <1>3
<1>6. u \o v = w
  BY <1>1, <1>2, <1>3, <1>4, <1>5, SeqEqual
<1> QED  BY <1>6 DEF u, v, w

\* A lexeme's place in a declaration.
LEMMA Places ==
  ASSUME NEW m \in Nat, NEW p \in 1 .. m
  PROVE  /\ 3 + p \in 1 .. m + 5 /\ (3 + p) + 1 \in 1 .. m + 5
         /\ (3 + p) + 1 = 3 + (p + 1) /\ (3 + p) + 2 = 3 + (p + 2)
OBVIOUS

\* TypeScript's declaration, lexeme by lexeme.
LEMMA TsDeclares ==
  ASSUME NEW g \in Seq(Letters)
  PROVE  LET out == tsContent(g)
             text == Declaration("ts", g) \o <<"nl">>
             m == Len(out)
         IN  /\ m \in Nat /\ Declaration("ts", g) \in Seq(Letters)
             /\ text \in Seq(Letters) /\ Len(text) = m + 5
             /\ text[3] = "nl" /\ \A k \in 1 .. m : text[3 + k] = out[k]
             /\ text[m + 4] = "tick" /\ text[m + 5] = "nl"
<1> DEFINE out == tsContent(g)
           m == Len(out)
           a == <<"const", "tick", "nl">>
           b == <<"tick", "nl">>
           text == Declaration("ts", g) \o <<"nl">>
<1>1. out \in Seq(Letters)
  BY ContentSays
<1>2. m \in Nat
  BY <1>1, LenProperties
<1>3. /\ a \in Seq(Letters) /\ b \in Seq(Letters) /\ <<"tick">> \in Seq(Letters)
      /\ <<"nl">> \in Seq(Letters) /\ <<"tick">> \o <<"nl">> = b
  <2>1. "const" \in Letters /\ "tick" \in Letters /\ "nl" \in Letters
    BY LettersAreWords
  <2>2. <<"tick">> \o <<"nl">> = b
    BY <2>1, Pairs
  <2> QED  BY <2>1, <2>2, Tuples
<1>4. Len(a) = 3 /\ Len(b) = 2 /\ a[3] = "nl" /\ b[1] = "tick" /\ b[2] = "nl"
  OBVIOUS
<1>5. Declaration("ts", g) = a \o out \o <<"tick">>
  BY DEF Declaration
<1> HIDE DEF a, b, out, m
<1>6. Declaration("ts", g) \in Seq(Letters) /\ a \o out \in Seq(Letters)
  <2> DEFINE ao == a \o out
  <2>1. ao \in Seq(Letters)
    BY <1>1, <1>3, ConcatProperties
  <2> HIDE DEF ao
  <2>2. ao \o <<"tick">> \in Seq(Letters)
    BY <1>3, <2>1, ConcatProperties
  <2> QED  BY <1>5, <2>1, <2>2 DEF ao
<1>7. text = a \o out \o b
  <2> DEFINE ao == a \o out
  <2> HIDE DEF ao
  <2>1. (ao \o <<"tick">>) \o <<"nl">> = ao \o (<<"tick">> \o <<"nl">>)
    BY <1>3, <1>6, ConcatAssociative DEF ao
  <2> QED  BY <1>3, <1>5, <2>1 DEF ao
<1> HIDE DEF text
<1>8. /\ text \in Seq(Letters) /\ Len(text) = 3 + m + 2
      /\ \A i \in 1 .. 3 : text[i] = a[i]
      /\ \A i \in 1 .. m : text[3 + i] = out[i]
      /\ \A i \in 1 .. 2 : text[3 + m + i] = b[i]
  <2>1. /\ a \o out \o b \in Seq(Letters)
        /\ Len(a \o out \o b) = Len(a) + Len(out) + Len(b)
        /\ \A i \in 1 .. Len(a) : (a \o out \o b)[i] = a[i]
        /\ \A i \in 1 .. Len(out) : (a \o out \o b)[Len(a) + i] = out[i]
        /\ \A i \in 1 .. Len(b) : (a \o out \o b)[Len(a) + Len(out) + i] = b[i]
    BY <1>1, <1>3, Around
  <2> QED  BY <1>4, <1>7, <2>1 DEF m
<1>9. 3 + m + 2 = m + 5 /\ 3 + m + 1 = m + 4 /\ 1 \in 1 .. 2 /\ 2 \in 1 .. 2 /\ 3 \in 1 .. 3
  BY <1>2
<1>10. text[3] = "nl" /\ text[3 + m + 1] = "tick" /\ text[3 + m + 2] = "nl"
  BY <1>4, <1>8, <1>9
<1> QED  BY <1>2, <1>6, <1>8, <1>9, <1>10 DEF text, m, out

\* A template literal holding tsContent reads as a line end and the text.
LEMMA TsReads ==
  ASSUME NEW g \in Seq(Letters)
  PROVE  CompiledTs(Declaration("ts", g) \o <<"nl">>) = Meant("ts", g)
<1> DEFINE out == tsContent(g)
           text == Declaration("ts", g) \o <<"nl">>
           m == Len(out)
           n == Len(g)
<1>1. /\ m \in Nat /\ text \in Seq(Letters) /\ Len(text) = m + 5
      /\ text[3] = "nl" /\ \A k \in 1 .. m : text[3 + k] = out[k]
      /\ text[m + 4] = "tick" /\ text[m + 5] = "nl"
  BY TsDeclares
<1> HIDE DEF text
<1>2. PICK Q : SaysTs(out, g, Q)
  BY ContentSays
<1>3. n \in Nat /\ \A i \in 1 .. n : g[i] \in Letters
  BY LenProperties, ElementOfSeq
<1>4. /\ DOMAIN text = 1 .. m + 5
      /\ \A i \in 1 .. m + 5 : At(text, i) = text[i] /\ text[i] # "eof"
  <2>1. DOMAIN text = 1 .. m + 5
    BY <1>1, LenProperties
  <2>2. \A i \in 1 .. m + 5 : text[i] \in Letters
    BY <1>1, ElementOfSeq
  <2>3. "eof" \notin Letters
    BY LettersAreNoMarkers
  <2> QED  BY <2>1, <2>2, <2>3 DEF At
<1> DEFINE Read(f) == f = [i \in 1 .. Len(text) + 2 |->
            CASE At(text, i) = "tick" -> IF Blank(Rest(text, i + 1)) THEN <<>> ELSE <<"broken">>
              [] At(text, i) = "eof" -> <<"broken">>
              [] At(text, i) = "$" /\ At(text, i + 1) = "{" -> <<"broken">>
              [] At(text, i) = "bs" ->
                     <<IF At(text, i + 1) \in {"bs", "tick", "$", "{", "qq"}
                         THEN text[i + 1] ELSE "escape">> \o f[i + 2]
              [] OTHER -> <<Line(text[i])>> \o f[i + 1]]
<1>5. \E f : Read(f)
  BY <1>1, TsReaderExists
<1>6. CompiledTs(text) = (CHOOSE f : Read(f))[3]
  BY DEF CompiledTs
<1>7. PICK f : Read(f) /\ CompiledTs(text) = f[3]
  BY <1>5, <1>6
\* What is read at each place of the text.
<1>8. ASSUME NEW i \in 1 .. m + 5
      PROVE  /\ text[i] = "tick" /\ Blank(Rest(text, i + 1)) => f[i] = <<>>
             /\ text[i] = "bs" /\ i + 1 \in 1 .. m + 5 /\ text[i + 1] \in {"bs", "tick", "$"}
                    => f[i] = <<text[i + 1]>> \o f[i + 2]
             /\ text[i] \notin {"tick", "bs"} /\ ~(text[i] = "$" /\ At(text, i + 1) = "{")
                    => f[i] = <<Line(text[i])>> \o f[i + 1]
  <2>1. i \in 1 .. Len(text) + 2 /\ At(text, i) = text[i] /\ text[i] # "eof"
    BY <1>1, <1>4
  <2>2. f[i] =
            CASE At(text, i) = "tick" -> IF Blank(Rest(text, i + 1)) THEN <<>> ELSE <<"broken">>
              [] At(text, i) = "eof" -> <<"broken">>
              [] At(text, i) = "$" /\ At(text, i + 1) = "{" -> <<"broken">>
              [] At(text, i) = "bs" ->
                     <<IF At(text, i + 1) \in {"bs", "tick", "$", "{", "qq"}
                         THEN text[i + 1] ELSE "escape">> \o f[i + 2]
              [] OTHER -> <<Line(text[i])>> \o f[i + 1]
    BY <1>7, <2>1
  <2>3. i + 1 \in 1 .. m + 5 => At(text, i + 1) = text[i + 1]
    BY <1>4
  <2> HIDE DEF Read
  <2> QED  BY <2>1, <2>2, <2>3
<1> HIDE DEF Read, out, m, n
<1>9. /\ Q[1] = 1 /\ Q[n + 1] = m + 1
      /\ \A i \in 1 .. n :
           /\ Q[i] \in 1 .. m
           /\ \/ /\ Q[i + 1] = Q[i] + 2 /\ Q[i] + 1 \in 1 .. m
                 /\ out[Q[i]] = "bs" /\ out[Q[i] + 1] = g[i]
                 /\ g[i] \in {"bs", "tick", "$"}
              \/ /\ Q[i + 1] = Q[i] + 1 /\ out[Q[i]] = g[i]
                 /\ g[i] \notin {"bs", "tick"}
                 /\ g[i] = "$" /\ Q[i] + 1 \in 1 .. m => out[Q[i] + 1] # "{"
  BY <1>2 DEF SaysTs, m, n
<1> DEFINE T == {i \in 1 .. n + 1 : f[3 + Q[i]] = From(g, i)}
<1>10. n + 1 \in T
  <2>1. m + 4 \in 1 .. m + 5 /\ 3 + (m + 1) = m + 4 /\ (m + 4) + 1 = m + 5 /\ m + 5 \in Nat \ {0}
        /\ n + 1 \in 1 .. n + 1
    BY <1>1, <1>3
  <2>2. \A k \in m + 5 .. Len(text) : text[k] = "nl"
    BY <1>1
  <2>3. Blank(Rest(text, m + 5))
    BY <1>1, <2>1, <2>2, BlankEnds
  <2>4. f[m + 4] = << >>
    BY <1>1, <1>8, <2>1, <2>3
  <2>5. From(g, n + 1) = << >>
    BY FromStep DEF n
  <2> QED  BY <1>9, <2>1, <2>4, <2>5
<1>11. ASSUME NEW i \in 1 .. n, i + 1 \in T PROVE i \in T
  <2> DEFINE q == 3 + Q[i]
  <2>1. i \in 1 .. n + 1 /\ Q[i] \in 1 .. m /\ q \in 1 .. m + 5 /\ text[q] = out[Q[i]]
    <3>1. Q[i] \in 1 .. m
      BY <1>9
    <3>2. i \in 1 .. n + 1
      BY ONLY <1>3, i \in 1 .. n
    <3> QED  BY <1>1, <3>1, <3>2, Places
  <2>2. f[3 + Q[i + 1]] = From(g, i + 1)
    BY <1>11
  <2>3. From(g, i) = <<Line(g[i])>> \o From(g, i + 1)
    BY FromStep DEF n
  <2>4. CASE /\ Q[i + 1] = Q[i] + 2 /\ Q[i] + 1 \in 1 .. m
             /\ out[Q[i]] = "bs" /\ out[Q[i] + 1] = g[i]
             /\ g[i] \in {"bs", "tick", "$"}
    <3>1. q + 1 = 3 + (Q[i] + 1) /\ q + 2 = 3 + Q[i + 1] /\ q + 1 \in 1 .. m + 5
      BY <1>1, <2>1, <2>4, Places
    <3>2. text[q + 1] = g[i]
      BY <1>1, <2>4, <3>1
    <3>3. Line(g[i]) = g[i]
      BY <2>4 DEF Line
    <3> HIDE DEF q
    <3>4. f[q] = <<g[i]>> \o f[q + 2]
      BY <1>8, <2>1, <2>4, <3>1, <3>2
    <3>5. f[q] = From(g, i)
      BY <2>2, <2>3, <3>1, <3>3, <3>4
    <3> QED  BY <2>1, <3>5 DEF q
  <2>5. CASE /\ Q[i + 1] = Q[i] + 1 /\ out[Q[i]] = g[i]
             /\ g[i] \notin {"bs", "tick"}
             /\ g[i] = "$" /\ Q[i] + 1 \in 1 .. m => out[Q[i] + 1] # "{"
    <3>1. q + 1 = 3 + Q[i + 1] /\ q + 1 = 3 + (Q[i] + 1) /\ q + 1 \in 1 .. m + 5
      BY <1>1, <2>1, <2>5, Places
    <3>2. ASSUME g[i] = "$" PROVE At(text, q + 1) # "{"
      <4>1. CASE Q[i] + 1 \in 1 .. m
        BY <1>1, <1>4, <2>5, <3>1, <3>2, <4>1
      <4>2. CASE Q[i] + 1 \notin 1 .. m
        <5>1. Q[i] = m
          BY <1>1, <2>1, <4>2
        <5>2. q + 1 = m + 4
          BY <1>1, <5>1
        <5> QED  BY <1>1, <1>4, <3>1, <5>2
      <4> QED  BY <4>1, <4>2
    <3> HIDE DEF q
    <3>3. f[q] = <<Line(g[i])>> \o f[q + 1]
      BY <1>8, <2>1, <2>5, <3>2
    <3>4. f[q] = From(g, i)
      BY <2>2, <2>3, <3>1, <3>3
    <3> QED  BY <2>1, <3>4 DEF q
  <2> QED  BY <1>9, <2>4, <2>5
<1>12. f[4] = From(g, 1)
  <2>1. \A i \in 1 .. n + 1 : i \in T
    <3> HIDE DEF T
    <3> QED  BY <1>3, <1>10, <1>11, Backwards
  <2>2. 1 \in 1 .. n + 1
    BY <1>3
  <2>3. f[3 + Q[1]] = From(g, 1)
    BY <2>1, <2>2
  <2>4. 3 + 1 = 4
    OBVIOUS
  <2> HIDE DEF T
  <2> QED  BY <1>9, <2>3, <2>4
<1>13. f[3] = <<"nl">> \o f[4]
  <2>1. 3 \in 1 .. m + 5 /\ Line("nl") = "nl"
    BY <1>1 DEF Line
  <2>2. f[3] = <<Line(text[3])>> \o f[3 + 1]
    BY <1>1, <1>8, <2>1
  <2> QED  BY <1>1, <2>1, <2>2
<1>14. Meant("ts", g) = <<"nl">> \o From(g, 1)
  BY FromStep DEF Meant
<1> QED  BY <1>7, <1>12, <1>13, <1>14 DEF text

-----------------------------------------------------------------------------
(* What Rust reads.                                                          *)

\* The function CompiledRs is, with one body for each lexeme.
LEMMA RsReaderExists ==
  ASSUME NEW text \in Seq(Letters)
  PROVE  \E f : f = [i \in 1 .. Len(text) + 1 |->
            CASE At(text, i) = "eof" -> <<"broken">>
              [] At(text, i) = "qq" /\ At(text, i + 1) = "#" ->
                     IF At(text, i + 2) = ";" /\ Blank(Rest(text, i + 3))
                       THEN <<>> ELSE <<"broken">>
              [] OTHER -> <<Line(text[i])>> \o f[i + 1]]
<1> DEFINE n == Len(text)
           D == 1 .. n + 1
           rank == [i \in D |-> n + 1 - i]
           ends == {i \in D : \/ At(text, i) = "eof"
                              \/ At(text, i) = "qq" /\ At(text, i + 1) = "#"}
           next == [i \in D |-> i + 1]
           silent == {}
           said == [i \in D |->
             CASE At(text, i) = "eof" -> <<"broken">>
               [] At(text, i) = "qq" /\ At(text, i + 1) = "#" ->
                      IF At(text, i + 2) = ";" /\ Blank(Rest(text, i + 3))
                        THEN <<>> ELSE <<"broken">>
               [] OTHER -> <<Line(text[i])>>]
<1>1. n \in Nat /\ DOMAIN text = 1 .. n
  BY LenProperties
<1>2. \A i \in D : i \notin ends => i \in 1 .. n
  BY <1>1 DEF At
<1> HIDE DEF n
<1>3. \A i \in D : rank[i] \in 0 .. n + 1
  BY <1>1
<1>4. \A i \in D : i \notin ends => next[i] \in D /\ rank[next[i]] < rank[i]
  <2> SUFFICES ASSUME NEW i \in D, i \notin ends PROVE next[i] \in D /\ rank[next[i]] < rank[i]
    OBVIOUS
  <2>1. i \in 1 .. n /\ next[i] = i + 1
    BY <1>2
  <2>2. i + 1 \in D /\ n + 1 - (i + 1) < n + 1 - i
    BY <1>1, <2>1
  <2> QED  BY <2>1, <2>2
<1>5. n + 1 \in Nat
  BY <1>1
<1>6. \E f : Reads(f, D, ends, silent, said, next)
  <2> HIDE DEF D, ends, silent, said, next, rank
  <2> QED  BY <1>3, <1>4, <1>5, ReaderExists
<1>7. PICK f : f = [d \in D |-> IF d \in ends THEN said[d]
                               ELSE IF d \in silent THEN f[next[d]] ELSE said[d] \o f[next[d]]]
  BY <1>6 DEF Reads
<1> DEFINE body(i) ==
            CASE At(text, i) = "eof" -> <<"broken">>
              [] At(text, i) = "qq" /\ At(text, i + 1) = "#" ->
                     IF At(text, i + 2) = ";" /\ Blank(Rest(text, i + 3))
                       THEN <<>> ELSE <<"broken">>
              [] OTHER -> <<Line(text[i])>> \o f[i + 1]
<1>8. ASSUME NEW i \in D PROVE f[i] = body(i)
  <2>1. f[i] = IF i \in ends THEN said[i] ELSE said[i] \o f[next[i]]
    BY <1>7
  <2>2. CASE At(text, i) = "eof"
    BY <2>1, <2>2
  <2>3. CASE At(text, i) = "qq" /\ At(text, i + 1) = "#"
    BY <2>1, <2>3
  <2>4. CASE At(text, i) # "eof" /\ ~(At(text, i) = "qq" /\ At(text, i + 1) = "#")
    BY <2>1, <2>4
  <2> QED  BY <2>2, <2>3, <2>4
<1>9. f = [i \in D |-> f[i]]
  BY <1>7
<1>10. f = [i \in D |-> body(i)]
  <2> HIDE DEF body, D
  <2> QED  BY <1>8, <1>9
<1> QED  BY <1>10 DEF n

\* Rust's declaration, lexeme by lexeme.
LEMMA RsDeclares ==
  ASSUME NEW g \in Seq(Letters)
  PROVE  LET text == Declaration("rs", g) \o <<"nl">>
             m == Len(g)
         IN  /\ m \in Nat /\ Declaration("rs", g) \in Seq(Letters)
             /\ text \in Seq(Letters) /\ Len(text) = m + 7
             /\ \A k \in 1 .. m : text[3 + k] = g[k]
             /\ text[m + 4] = "qq" /\ text[m + 5] = "#" /\ text[m + 6] = ";"
             /\ text[m + 7] = "nl"
<1> DEFINE m == Len(g)
           a == <<"const", "r#", "qq">>
           b == <<"qq", "#", ";">>
           d == Declaration("rs", g)
           text == d \o <<"nl">>
<1>1. /\ m \in Nat /\ a \in Seq(Letters) /\ b \in Seq(Letters) /\ <<"nl">> \in Seq(Letters)
  BY LenProperties, LettersAreWords, Tuples
<1>2. Len(a) = 3 /\ Len(b) = 3 /\ b[1] = "qq" /\ b[2] = "#" /\ b[3] = ";"
      /\ Len(<<"nl">>) = 1 /\ <<"nl">>[1] = "nl"
  OBVIOUS
<1>3. d = a \o g \o b
  BY DEF Declaration
<1> DEFINE e == <<"nl">>
<1> HIDE DEF a, b, m, d, e
<1>4. /\ d \in Seq(Letters) /\ Len(d) = 3 + m + 3
      /\ \A i \in 1 .. m : d[3 + i] = g[i]
      /\ \A i \in 1 .. 3 : d[3 + m + i] = b[i]
  <2>1. /\ a \o g \o b \in Seq(Letters)
        /\ Len(a \o g \o b) = Len(a) + Len(g) + Len(b)
        /\ \A i \in 1 .. Len(g) : (a \o g \o b)[Len(a) + i] = g[i]
        /\ \A i \in 1 .. Len(b) : (a \o g \o b)[Len(a) + Len(g) + i] = b[i]
    BY <1>1, Around
  <2> QED  BY <1>2, <1>3, <2>1 DEF m
<1>5. /\ text \in Seq(Letters) /\ Len(text) = Len(d) + Len(e)
      /\ \A i \in 1 .. Len(d) + Len(e) : text[i] = IF i <= Len(d) THEN d[i] ELSE e[i - Len(d)]
  BY <1>1, <1>4, ConcatProperties DEF e
<1> HIDE DEF text
<1>6. Len(d) = m + 6 /\ Len(e) = 1 /\ e[1] = "nl" /\ Len(text) = m + 7
  <2>1. Len(e) = 1 /\ e[1] = "nl"
    BY <1>2 DEF e
  <2>2. 3 + m + 3 = m + 6 /\ (m + 6) + 1 = m + 7
    BY ONLY <1>1
  <2> QED  BY <1>4, <1>5, <2>1, <2>2
<1>7. \A i \in 1 .. m + 6 : text[i] = d[i]
  BY <1>1, <1>5, <1>6
<1>8. text[m + 7] = "nl"
  <2>1. m + 7 \in 1 .. (m + 6) + 1 /\ ~(m + 7 <= m + 6) /\ (m + 7) - (m + 6) = 1
    BY <1>1
  <2> QED  BY <1>5, <1>6, <2>1
<1>9. \A i \in 1 .. m : text[3 + i] = g[i]
  <2>1. \A i \in 1 .. m : 3 + i \in 1 .. m + 6
    BY <1>1
  <2> QED  BY <1>4, <1>7, <2>1
<1>10. text[m + 4] = "qq" /\ text[m + 5] = "#" /\ text[m + 6] = ";"
  <2>1. /\ 3 + m + 1 = m + 4 /\ 3 + m + 2 = m + 5 /\ 3 + m + 3 = m + 6
        /\ m + 4 \in 1 .. m + 6 /\ m + 5 \in 1 .. m + 6 /\ m + 6 \in 1 .. m + 6
    BY <1>1
  <2>2. d[3 + m + 1] = b[1] /\ d[3 + m + 2] = b[2] /\ d[3 + m + 3] = b[3]
    BY <1>4
  <2> QED  BY <1>2, <1>7, <2>1, <2>2
<1> QED  BY <1>1, <1>4, <1>5, <1>6, <1>8, <1>9, <1>10 DEF text, m, d, e

\* A raw string into which the text fits reads as the text.
LEMMA RsReads ==
  ASSUME NEW g \in Seq(Letters), FitsRaw(g)
  PROVE  CompiledRs(Declaration("rs", g) \o <<"nl">>) = Meant("rs", g)
<1> DEFINE text == Declaration("rs", g) \o <<"nl">>
           n == Len(g)
<1>1. /\ n \in Nat /\ text \in Seq(Letters) /\ Len(text) = n + 7
      /\ \A k \in 1 .. n : text[3 + k] = g[k]
      /\ text[n + 4] = "qq" /\ text[n + 5] = "#" /\ text[n + 6] = ";" /\ text[n + 7] = "nl"
  BY RsDeclares
<1> HIDE DEF text
<1>0. n \in Nat
  BY <1>1
<1>2. \A i \in 1 .. n - 1 : ~(g[i] = "qq" /\ g[i + 1] = "#")
  BY DEF FitsRaw
<1>3. /\ \A i \in 1 .. n + 7 : At(text, i) = text[i] /\ text[i] # "eof"
  <2>1. DOMAIN text = 1 .. n + 7
    BY <1>1, LenProperties
  <2>2. \A i \in 1 .. n + 7 : text[i] \in Letters
    BY <1>1, ElementOfSeq
  <2>3. "eof" \notin Letters
    BY LettersAreNoMarkers
  <2> QED  BY <2>1, <2>2, <2>3 DEF At
<1> DEFINE Read(f) == f = [i \in 1 .. Len(text) + 1 |->
            CASE At(text, i) = "eof" -> <<"broken">>
              [] At(text, i) = "qq" /\ At(text, i + 1) = "#" ->
                     IF At(text, i + 2) = ";" /\ Blank(Rest(text, i + 3))
                       THEN <<>> ELSE <<"broken">>
              [] OTHER -> <<Line(text[i])>> \o f[i + 1]]
<1>4. \E f : Read(f)
  BY <1>1, RsReaderExists
<1>5. CompiledRs(text) = (CHOOSE f : Read(f))[4]
  BY DEF CompiledRs
<1>6. PICK f : Read(f) /\ CompiledRs(text) = f[4]
  BY <1>4, <1>5
<1>7. ASSUME NEW i \in 1 .. n + 7
      PROVE  f[i] = CASE At(text, i) = "eof" -> <<"broken">>
                      [] At(text, i) = "qq" /\ At(text, i + 1) = "#" ->
                             IF At(text, i + 2) = ";" /\ Blank(Rest(text, i + 3))
                               THEN <<>> ELSE <<"broken">>
                      [] OTHER -> <<Line(text[i])>> \o f[i + 1]
  <2>1. i \in 1 .. Len(text) + 1
    <3> HIDE DEF Read, n
    <3>1. i \in 1 .. (n + 7) + 1
      BY ONLY <1>0, i \in 1 .. n + 7
    <3> QED  BY <1>1, <3>1
  <2> QED  BY <1>6, <2>1
<1> HIDE DEF Read, n
<1> DEFINE T == {i \in 1 .. n + 1 : f[3 + i] = From(g, i)}
<1>8. n + 1 \in T
  <2>1. /\ n + 4 \in 1 .. n + 7 /\ n + 5 \in 1 .. n + 7 /\ n + 6 \in 1 .. n + 7
        /\ (n + 4) + 1 = n + 5 /\ (n + 4) + 2 = n + 6 /\ (n + 4) + 3 = n + 7 /\ 3 + (n + 1) = n + 4
        /\ n + 7 \in Nat \ {0} /\ n + 1 \in 1 .. n + 1
    BY ONLY <1>0
  <2>2. \A k \in n + 7 .. Len(text) : text[k] = "nl"
    <3>1. \A k \in n + 7 .. n + 7 : k = n + 7
      BY ONLY <1>0
    <3> QED  BY <1>1, <3>1
  <2>3. Blank(Rest(text, n + 7))
    BY <1>1, <2>1, <2>2, BlankEnds
  <2>4. At(text, n + 4) = "qq" /\ At(text, n + 5) = "#" /\ At(text, n + 6) = ";"
    BY <1>1, <1>3, <2>1
  <2>5. f[n + 4] = << >>
    BY <1>7, <2>1, <2>3, <2>4
  <2>6. From(g, n + 1) = << >>
    BY FromStep DEF n
  <2> QED  BY <2>1, <2>5, <2>6
<1>9. ASSUME NEW i \in 1 .. n, i + 1 \in T PROVE i \in T
  <2>1. /\ i \in 1 .. n + 1 /\ 3 + i \in 1 .. n + 7 /\ (3 + i) + 1 = 3 + (i + 1)
        /\ (3 + i) + 1 \in 1 .. n + 7 /\ (i = n => (3 + i) + 1 = n + 4)
        /\ (i # n => i \in 1 .. n - 1 /\ i + 1 \in 1 .. n)
    BY ONLY <1>0, i \in 1 .. n
  <2>2. At(text, 3 + i) = g[i] /\ text[3 + i] = g[i] /\ g[i] # "eof"
    BY <1>1, <1>3, <2>1
  <2>3. ~(g[i] = "qq" /\ At(text, (3 + i) + 1) = "#")
    <3>1. CASE i = n
      BY <1>1, <1>3, <2>1, <3>1
    <3>2. CASE i # n
      <4>1. At(text, (3 + i) + 1) = g[i + 1]
        BY <1>1, <1>3, <2>1, <3>2
      <4> QED  BY <1>2, <2>1, <3>2, <4>1
    <3> QED  BY <3>1, <3>2
  <2>4. f[3 + i] = <<Line(g[i])>> \o f[(3 + i) + 1]
    BY <1>7, <2>1, <2>2, <2>3
  <2>5. From(g, i) = <<Line(g[i])>> \o From(g, i + 1)
    BY FromStep DEF n
  <2>6. f[3 + (i + 1)] = From(g, i + 1)
    BY <1>9
  <2> QED  BY <2>1, <2>4, <2>5, <2>6
<1>10. f[4] = From(g, 1)
  <2>1. 1 \in 1 .. n + 1 /\ 3 + 1 = 4
    BY ONLY <1>0
  <2>2. \A i \in 1 .. n + 1 : i \in T
    <3> HIDE DEF T
    <3> QED  BY <1>1, <1>8, <1>9, Backwards
  <2> QED  BY <2>1, <2>2
<1>11. Meant("rs", g) = << >> \o From(g, 1)
  BY FromStep DEF Meant
<1>12. << >> \o From(g, 1) = From(g, 1)
  <2>1. From(g, 1) \in Seq(Letters)
    <3>1. 1 \in 1 .. n + 1
      BY ONLY <1>0
    <3> QED  BY <3>1, FromStep DEF n
  <2> QED  BY <2>1, ConcatEmptySeq
<1> QED  BY <1>6, <1>10, <1>11, <1>12 DEF text

-----------------------------------------------------------------------------
(* What Go reads.                                                            *)

\* The raw strings of a Go sum say the text: what stands at P[i] names the
\* lexeme at i.
SaysGo(out, text, P) ==
    /\ P[1] = 1 /\ P[Len(text) + 1] = Len(out) + 1
    /\ \A i \in 1 .. Len(text) :
           /\ P[i] \in 1 .. Len(out)
           /\ text[i] # "tick" => P[i + 1] = P[i] + 1 /\ out[P[i]] = text[i]
           /\ text[i] = "tick" =>
                  /\ P[i + 1] = P[i] + 7 /\ P[i] + 6 \in 1 .. Len(out)
                  /\ out[P[i]] = "tick" /\ out[P[i] + 1] = "+" /\ out[P[i] + 2] = "qq"
                  /\ out[P[i] + 3] = "tick" /\ out[P[i] + 4] = "qq"
                  /\ out[P[i] + 5] = "+" /\ out[P[i] + 6] = "tick"

\* What goEscape puts between its outer backticks.
GoSum(text) ==
    Replaced(text, LAMBDA i : IF text[i] = "tick"
                                THEN <<"tick", "+", "qq", "tick", "qq", "+", "tick">>
                                ELSE <<text[i]>>)

\* Seven lexemes of three kinds.
LEMMA Sevens ==
  ASSUME NEW S, NEW a \in S, NEW b \in S, NEW c \in S
  PROVE  <<a, b, c, a, c, b, a>> \in Seq(S)
OBVIOUS

\* goEscape's replace says the text.
LEMMA SumSays ==
  ASSUME NEW text \in Seq(Letters)
  PROVE  GoSum(text) \in Seq(Letters) /\ \E P : SaysGo(GoSum(text), text, P)
<1> DEFINE n == Len(text)
           w == <<"tick", "+", "qq", "tick", "qq", "+", "tick">>
           out == GoSum(text)
           ss == [i \in DOMAIN text |-> IF text[i] = "tick" THEN w ELSE <<text[i]>>]
<1>1. n \in Nat /\ DOMAIN text = 1 .. n /\ \A i \in 1 .. n : text[i] \in Letters
  BY LenProperties, ElementOfSeq
<1>2. out = FlattenSeq(ss)
  BY DEF GoSum, Replaced
<1>3. /\ w \in Seq(Letters) /\ Len(w) = 7 /\ w[1] = "tick" /\ w[2] = "+" /\ w[3] = "qq"
      /\ w[4] = "tick" /\ w[5] = "qq" /\ w[6] = "+" /\ w[7] = "tick"
  <2>1. "tick" \in Letters /\ "+" \in Letters /\ "qq" \in Letters
    BY LettersAreWords
  <2>2. w \in Seq(Letters)
    BY <2>1, Sevens
  <2> QED  BY <2>2
<1> HIDE DEF w, out
<1>4. ASSUME NEW i \in 1 .. n
      PROVE  /\ ss[i] \in Seq(Letters)
             /\ text[i] = "tick" => ss[i] = w
             /\ text[i] # "tick" => Len(ss[i]) = 1 /\ ss[i][1] = text[i]
  <2>1. ss[i] = IF text[i] = "tick" THEN w ELSE <<text[i]>>
    BY <1>1
  <2>2. <<text[i]>> \in Seq(Letters)
    BY <1>1, Tuples
  <2> QED  BY <1>3, <2>1, <2>2
<1>5. ss \in Seq(Seq(Letters)) /\ Len(ss) = n
  <2>1. ss = [i \in 1 .. n |-> ss[i]]
    BY <1>1
  <2> HIDE DEF ss, n
  <2>2. ss \in [1 .. n -> Seq(Letters)]
    BY <1>4, <2>1
  <2> QED  BY <1>1, <2>2
<1> HIDE DEF ss, n
<1>6. out \in Seq(Letters) /\ \E P : Laid(out, ss, P)
  BY <1>2, <1>5, PiecesAreLaid
<1>7. PICK P : Laid(out, ss, P)
  BY <1>6
<1>8. \A i \in 1 .. n : \A k \in 1 .. Len(ss[i]) : P[i] + k - 1 \in 1 .. Len(out)
  BY <1>5, <1>6, <1>7, LaidInside
<1>9. /\ P[1] = 1 /\ P[n + 1] = Len(out) + 1
      /\ \A i \in 1 .. n + 1 : P[i] \in Nat \ {0}
      /\ \A i \in 1 .. n : /\ P[i + 1] = P[i] + Len(ss[i])
                           /\ \A k \in 1 .. Len(ss[i]) : out[P[i] + k - 1] = ss[i][k]
  BY <1>5, <1>7 DEF Laid
<1>10. ASSUME NEW i \in 1 .. n
       PROVE  /\ P[i] \in 1 .. Len(out)
              /\ text[i] # "tick" => P[i + 1] = P[i] + 1 /\ out[P[i]] = text[i]
              /\ text[i] = "tick" =>
                     /\ P[i + 1] = P[i] + 7 /\ P[i] + 6 \in 1 .. Len(out)
                     /\ out[P[i]] = "tick" /\ out[P[i] + 1] = "+" /\ out[P[i] + 2] = "qq"
                     /\ out[P[i] + 3] = "tick" /\ out[P[i] + 4] = "qq"
                     /\ out[P[i] + 5] = "+" /\ out[P[i] + 6] = "tick"
  <2>0. i \in 1 .. n + 1
    BY ONLY <1>1, i \in 1 .. n
  <2>1. P[i] \in Nat
    BY <1>9, <2>0
  <2>2. /\ P[i] + 1 - 1 = P[i] /\ P[i] + 2 - 1 = P[i] + 1 /\ P[i] + 3 - 1 = P[i] + 2
        /\ P[i] + 4 - 1 = P[i] + 3 /\ P[i] + 5 - 1 = P[i] + 4 /\ P[i] + 6 - 1 = P[i] + 5
        /\ P[i] + 7 - 1 = P[i] + 6
    BY ONLY <2>1
  <2>3. P[i + 1] = P[i] + Len(ss[i])
    BY <1>9
  <2>4. CASE text[i] # "tick"
    <3>1. 1 \in 1 .. Len(ss[i])
      BY <1>4, <2>4
    <3>2. P[i] + 1 - 1 \in 1 .. Len(out) /\ out[P[i] + 1 - 1] = ss[i][1]
      BY <1>8, <1>9, <3>1
    <3> QED  BY <1>4, <2>2, <2>3, <2>4, <3>2
  <2>5. CASE text[i] = "tick"
    <3>1. ss[i] = w /\ \A k \in 1 .. 7 : k \in 1 .. Len(ss[i])
      BY <1>3, <1>4, <2>5
    <3>2. \A k \in 1 .. 7 : P[i] + k - 1 \in 1 .. Len(out) /\ out[P[i] + k - 1] = w[k]
      BY <1>8, <1>9, <3>1
    <3>3. 1 \in 1 .. 7 /\ 2 \in 1 .. 7 /\ 3 \in 1 .. 7 /\ 4 \in 1 .. 7 /\ 5 \in 1 .. 7
          /\ 6 \in 1 .. 7 /\ 7 \in 1 .. 7
      OBVIOUS
    <3>4. P[i] \in 1 .. Len(out) /\ P[i] + 6 \in 1 .. Len(out)
      BY <2>2, <3>2, <3>3
    <3>5. /\ out[P[i]] = w[1] /\ out[P[i] + 1] = w[2] /\ out[P[i] + 2] = w[3]
          /\ out[P[i] + 3] = w[4] /\ out[P[i] + 4] = w[5]
          /\ out[P[i] + 5] = w[6] /\ out[P[i] + 6] = w[7]
      BY <2>2, <3>2, <3>3
    <3> QED  BY <1>3, <2>3, <2>5, <3>1, <3>4, <3>5
  <2> QED  BY <2>4, <2>5
<1>11. SaysGo(out, text, P)
  BY <1>9, <1>10 DEF SaysGo, n
<1> QED  BY <1>6, <1>11 DEF out

\* Go's declaration, lexeme by lexeme.
LEMMA GoDeclares ==
  ASSUME NEW g \in Seq(Letters)
  PROVE  LET out == GoSum(g)
             text == Declaration("go", g) \o <<"nl">>
             m == Len(out)
         IN  /\ m \in Nat /\ Declaration("go", g) \in Seq(Letters)
             /\ text \in Seq(Letters) /\ Len(text) = m + 5
             /\ \A k \in 1 .. m : text[2 + k] = out[k]
             /\ text[m + 3] = "tick" /\ text[m + 4] = "nl" /\ text[m + 5] = "nl"
<1> DEFINE out == GoSum(g)
           m == Len(out)
           t == <<"tick">>
           c == <<"const">>
           l == <<"nl">>
           e == goEscape(g)
           d == Declaration("go", g)
           text == d \o l
<1>1. out \in Seq(Letters)
  BY SumSays
<1>2. m \in Nat
  BY <1>1, LenProperties
<1>3. t \in Seq(Letters) /\ c \in Seq(Letters) /\ l \in Seq(Letters)
  BY LettersAreWords, Tuples
<1>4. Len(t) = 1 /\ Len(c) = 1 /\ Len(l) = 1 /\ t[1] = "tick" /\ l[1] = "nl"
  OBVIOUS
<1>5. e = t \o out \o t
  BY DEF goEscape, GoSum
<1>6. d = c \o e \o l
  BY DEF Declaration
<1>7. text = d \o l
  OBVIOUS
<1> HIDE DEF out, m, t, c, l, e, d, text
<1>8. /\ e \in Seq(Letters) /\ Len(e) = 1 + m + 1
      /\ \A i \in 1 .. m : e[1 + i] = out[i]
      /\ e[1 + m + 1] = "tick"
  <2>1. /\ t \o out \o t \in Seq(Letters)
        /\ Len(t \o out \o t) = Len(t) + Len(out) + Len(t)
        /\ \A i \in 1 .. Len(out) : (t \o out \o t)[Len(t) + i] = out[i]
        /\ \A i \in 1 .. Len(t) : (t \o out \o t)[Len(t) + Len(out) + i] = t[i]
    BY <1>1, <1>3, Around
  <2>2. 1 \in 1 .. 1
    OBVIOUS
  <2> QED  BY <1>4, <1>5, <2>1, <2>2 DEF m
<1>9. Len(e) = m + 2 /\ e[m + 2] = "tick"
  <2>1. 1 + m + 1 = m + 2
    BY ONLY <1>2
  <2> QED  BY <1>8, <2>1
<1>10. /\ d \in Seq(Letters) /\ Len(d) = 1 + (m + 2) + 1
       /\ \A i \in 1 .. m + 2 : d[1 + i] = e[i]
       /\ d[1 + (m + 2) + 1] = "nl"
  <2>1. /\ c \o e \o l \in Seq(Letters)
        /\ Len(c \o e \o l) = Len(c) + Len(e) + Len(l)
        /\ \A i \in 1 .. Len(e) : (c \o e \o l)[Len(c) + i] = e[i]
        /\ \A i \in 1 .. Len(l) : (c \o e \o l)[Len(c) + Len(e) + i] = l[i]
    <3>1. e \in Seq(Letters)
      BY <1>8
    <3> QED  BY ONLY <1>3, <3>1, Around
  <2>2. 1 \in 1 .. 1
    OBVIOUS
  <2> QED  BY <1>4, <1>6, <1>9, <2>1, <2>2
<1>11. Len(d) = m + 4 /\ d[m + 4] = "nl"
  <2>1. 1 + (m + 2) + 1 = m + 4
    BY ONLY <1>2
  <2> QED  BY <1>10, <2>1
<1>12. /\ text \in Seq(Letters) /\ Len(text) = Len(d) + Len(l)
       /\ \A i \in 1 .. Len(d) + Len(l) : text[i] = IF i <= Len(d) THEN d[i] ELSE l[i - Len(d)]
  BY <1>3, <1>7, <1>10, ConcatProperties
<1>13. /\ Len(text) = m + 5
       /\ \A i \in 1 .. m + 5 : text[i] = IF i <= m + 4 THEN d[i] ELSE l[i - (m + 4)]
  <2>1. (m + 4) + 1 = m + 5
    BY ONLY <1>2
  <2> QED  BY <1>4, <1>11, <1>12, <2>1
<1>14. \A k \in 1 .. m : text[2 + k] = out[k]
  <2> SUFFICES ASSUME NEW k \in 1 .. m PROVE text[2 + k] = out[k]
    OBVIOUS
  <2>1. /\ 2 + k \in 1 .. m + 5 /\ 2 + k <= m + 4 /\ 1 + k \in 1 .. m + 2 /\ 1 + (1 + k) = 2 + k
    BY ONLY <1>2, k \in 1 .. m
  <2>2. text[2 + k] = d[2 + k]
    BY <1>13, <2>1
  <2>3. d[2 + k] = e[1 + k]
    BY <1>10, <2>1
  <2> QED  BY <1>8, <2>2, <2>3
<1>15. text[m + 3] = "tick" /\ text[m + 4] = "nl" /\ text[m + 5] = "nl"
  <2>1. /\ m + 3 \in 1 .. m + 5 /\ m + 4 \in 1 .. m + 5 /\ m + 5 \in 1 .. m + 5
        /\ m + 3 <= m + 4 /\ m + 4 <= m + 4 /\ ~(m + 5 <= m + 4) /\ (m + 5) - (m + 4) = 1
        /\ m + 2 \in 1 .. m + 2 /\ 1 + (m + 2) = m + 3
    BY ONLY <1>2
  <2>2. text[m + 3] = d[m + 3] /\ text[m + 4] = d[m + 4] /\ text[m + 5] = l[1]
    BY <1>13, <2>1
  <2>3. d[m + 3] = e[m + 2]
    BY <1>10, <2>1
  <2> QED  BY <1>4, <1>9, <1>11, <2>2, <2>3
<1> QED  BY <1>2, <1>10, <1>12, <1>13, <1>14, <1>15 DEF text, d, l, m, out

\* Four lexemes.
LEMMA Fours ==
  ASSUME NEW S, NEW a \in S, NEW b \in S, NEW c \in S, NEW d \in S
  PROVE  <<a, b, c, d>> \in Seq(S)
OBVIOUS

\* Two and four lexemes on end.
LEMMA Pieces ==
  ASSUME NEW S, NEW text \in Seq(S), NEW i \in Nat \ {0}
  PROVE  /\ i + 1 <= Len(text) =>
                SubSeq(text, i, i + 1) = <<text[i], text[i + 1]>>
         /\ i + 3 <= Len(text) =>
                SubSeq(text, i, i + 3) = <<text[i], text[i + 1], text[i + 2], text[i + 3]>>
<1> DEFINE n == Len(text)
<1>1. n \in Nat /\ \A k \in 1 .. n : text[k] \in S
  BY LenProperties, ElementOfSeq
<1> HIDE DEF n
<1>2. ASSUME i + 1 <= n PROVE SubSeq(text, i, i + 1) = <<text[i], text[i + 1]>>
  <2> DEFINE u == SubSeq(text, i, i + 1)
             v == <<text[i], text[i + 1]>>
  <2>1. i \in 1 .. n /\ i + 1 \in 1 .. n /\ \A k \in i .. i + 1 : k \in 1 .. n
    BY ONLY <1>1, <1>2, i \in Nat \ {0}
  <2>2. v \in Seq(S) /\ Len(v) = 2 /\ v[1] = text[i] /\ v[2] = text[i + 1]
    BY <1>1, <2>1, Tuples
  <2>3. \A k \in i .. i + 1 : text[k] \in S
    BY <1>1, <2>1
  <2>4. /\ u \in Seq(S) /\ Len(u) = IF i <= i + 1 THEN (i + 1) - i + 1 ELSE 0
        /\ \A k \in 1 .. (i + 1) - i + 1 : u[k] = text[i + k - 1]
    BY <2>3, SubSeqProperties
  <2>5. (i + 1) - i + 1 = 2 /\ i <= i + 1 /\ i + 1 - 1 = i /\ i + 2 - 1 = i + 1
    BY ONLY i \in Nat \ {0}
  <2> HIDE DEF u, v
  <2>6. Len(u) = 2 /\ u[1] = text[i] /\ u[2] = text[i + 1]
    BY <2>4, <2>5
  <2>7. \A k \in 1 .. 2 : k = 1 \/ k = 2
    OBVIOUS
  <2>8. u = v
    BY <2>2, <2>4, <2>6, <2>7, SeqEqual
  <2> QED  BY <2>8 DEF u, v
<1>3. ASSUME i + 3 <= n
      PROVE  SubSeq(text, i, i + 3) = <<text[i], text[i + 1], text[i + 2], text[i + 3]>>
  <2> DEFINE u == SubSeq(text, i, i + 3)
             v == <<text[i], text[i + 1], text[i + 2], text[i + 3]>>
  <2>1. /\ i \in 1 .. n /\ i + 1 \in 1 .. n /\ i + 2 \in 1 .. n /\ i + 3 \in 1 .. n
        /\ \A k \in i .. i + 3 : k \in 1 .. n
    BY ONLY <1>1, <1>3, i \in Nat \ {0}
  <2>2. v \in Seq(S)
    <3>1. text[i] \in S /\ text[i + 1] \in S /\ text[i + 2] \in S /\ text[i + 3] \in S
      BY <1>1, <2>1
    <3> QED  BY <3>1, Fours
  <2>3. /\ Len(v) = 4 /\ v[1] = text[i] /\ v[2] = text[i + 1]
        /\ v[3] = text[i + 2] /\ v[4] = text[i + 3]
    OBVIOUS
  <2>4. \A k \in i .. i + 3 : text[k] \in S
    BY <1>1, <2>1
  <2>5. /\ u \in Seq(S) /\ Len(u) = IF i <= i + 3 THEN (i + 3) - i + 1 ELSE 0
        /\ \A k \in 1 .. (i + 3) - i + 1 : u[k] = text[i + k - 1]
    BY <2>4, SubSeqProperties
  <2>6. /\ (i + 3) - i + 1 = 4 /\ i <= i + 3 /\ i + 1 - 1 = i /\ i + 2 - 1 = i + 1
        /\ i + 3 - 1 = i + 2 /\ i + 4 - 1 = i + 3
    BY ONLY i \in Nat \ {0}
  <2> HIDE DEF u, v
  <2>7. /\ Len(u) = 4 /\ u[1] = text[i] /\ u[2] = text[i + 1]
        /\ u[3] = text[i + 2] /\ u[4] = text[i + 3]
    BY <2>5, <2>6
  <2>8. \A k \in 1 .. 4 : k = 1 \/ k = 2 \/ k = 3 \/ k = 4
    OBVIOUS
  <2>9. u = v
    <3>1. \A k \in 1 .. 4 : u[k] = v[k]
      BY ONLY <2>3, <2>7, <2>8
    <3>2. u \in Seq(S)
      BY <2>5
    <3> QED  BY ONLY <2>2, <2>3, <2>7, <3>1, <3>2, SeqEqual
  <2> QED  BY <2>9 DEF u, v
<1> QED  BY <1>2, <1>3 DEF n

\* What a Go compiler reads at a place, from what it reads further on.
GoBody(text, f, i, raw) ==
    IF raw
    THEN CASE At(text, i) = "eof"  -> <<"broken">>
           [] At(text, i) = "tick" -> f[<<i + 1, FALSE>>]
           [] OTHER -> <<Line(text[i])>> \o f[<<i + 1, TRUE>>]
    ELSE IF Blank(Rest(text, i)) THEN <<>>
    ELSE CASE SubSeq(text, i, i + 1) = <<"+", "tick">> -> f[<<i + 2, TRUE>>]
           [] SubSeq(text, i, i + 3) = <<"+", "qq", "tick", "qq">> ->
                  <<"tick">> \o f[<<i + 4, FALSE>>]
           [] OTHER -> <<"broken">>

\* A reader's next place is inside its bounds and nearer to the end.
LEMMA GoGoesOn ==
  ASSUME NEW n \in Nat, NEW i \in 1 .. n, NEW x \in {i + 1, i + 2, i + 4}
  PROVE  x \in 1 .. n + 4 /\ n + 4 - x < n + 4 - i
OBVIOUS

\* No place begins both a raw string and a quoted backtick.
LEMMA NotBoth ==
  ASSUME NEW text, NEW i \in Nat, SubSeq(text, i, i + 1) = <<"+", "tick">>
  PROVE  SubSeq(text, i, i + 3) # <<"+", "qq", "tick", "qq">>
<1> DEFINE S == {text[k] : k \in i .. i + 3}
<1>1. \A k \in i .. i + 3 : text[k] \in S
  OBVIOUS
<1> HIDE DEF S
<1>2. /\ (i + 1) - i + 1 = 2 /\ (i + 3) - i + 1 = 4 /\ i + 2 - 1 = i + 1
      /\ 2 \in 1 .. 2 /\ 2 \in 1 .. 4 /\ \A k \in i .. i + 1 : k \in i .. i + 3
  OBVIOUS
<1>3. \A k \in 1 .. (i + 1) - i + 1 : SubSeq(text, i, i + 1)[k] = text[i + k - 1]
  BY <1>1, <1>2, SubSeqProperties
<1>4. \A k \in 1 .. (i + 3) - i + 1 : SubSeq(text, i, i + 3)[k] = text[i + k - 1]
  BY <1>1, SubSeqProperties
<1>5. SubSeq(text, i, i + 1)[2] = text[i + 1] /\ SubSeq(text, i, i + 3)[2] = text[i + 1]
  BY <1>2, <1>3, <1>4
<1>6. <<"+", "tick">>[2] = "tick" /\ <<"+", "qq", "tick", "qq">>[2] = "qq"
  OBVIOUS
<1> QED  BY <1>5, <1>6

\* The function CompiledGo is, with one body in a raw string and one outside.
LEMMA GoReaderExists ==
  ASSUME NEW text \in Seq(Letters)
  PROVE  \E f : f = [at \in (1 .. Len(text) + 4) \X BOOLEAN |-> GoBody(text, f, at[1], at[2])]
<1> DEFINE n == Len(text)
           D == (1 .. n + 4) \X BOOLEAN
           plus(i) == SubSeq(text, i, i + 1) = <<"+", "tick">>
           sum(i) == SubSeq(text, i, i + 3) = <<"+", "qq", "tick", "qq">>
           rank == [d \in D |-> n + 4 - d[1]]
           ends == {d \in D : IF d[2] THEN At(text, d[1]) = "eof"
                              ELSE Blank(Rest(text, d[1])) \/ ~(plus(d[1]) \/ sum(d[1]))}
           silent == {d \in D : IF d[2] THEN At(text, d[1]) = "tick" ELSE plus(d[1])}
           next == [d \in D |-> IF d[2]
                                THEN IF At(text, d[1]) = "tick" THEN <<d[1] + 1, FALSE>>
                                     ELSE <<d[1] + 1, TRUE>>
                                ELSE IF plus(d[1]) THEN <<d[1] + 2, TRUE>>
                                ELSE <<d[1] + 4, FALSE>>]
           said == [d \in D |->
             IF d[2]
             THEN IF At(text, d[1]) = "eof" THEN <<"broken">> ELSE <<Line(text[d[1]])>>
             ELSE IF Blank(Rest(text, d[1])) THEN << >>
                  ELSE IF sum(d[1]) THEN <<"tick">> ELSE <<"broken">>]
<1>1. n \in Nat /\ DOMAIN text = 1 .. n
  BY LenProperties
<1>2. ASSUME NEW i \in 1 .. n + 4
      PROVE  /\ At(text, i) # "eof" => i \in 1 .. n
             /\ ~ Blank(Rest(text, i)) => i \in 1 .. n
  <2>1. At(text, i) # "eof" => i \in 1 .. n
    BY <1>1 DEF At
  <2>2. i \in Nat \ {0}
    OBVIOUS
  <2>3. ASSUME i \notin 1 .. n PROVE \A k \in i .. n : text[k] = "nl"
    BY <1>1, <2>2, <2>3
  <2> HIDE DEF n
  <2>4. (\A k \in i .. n : text[k] = "nl") => Blank(Rest(text, i))
    BY <2>2, BlankEnds DEF n
  <2> QED  BY <2>1, <2>3, <2>4
<1> HIDE DEF n, plus, sum
<1>3. \A d \in D : rank[d] \in 0 .. n + 4
  <2> SUFFICES ASSUME NEW d \in D PROVE rank[d] \in 0 .. n + 4
    OBVIOUS
  <2>1. d[1] \in 1 .. n + 4 /\ rank[d] = n + 4 - d[1]
    OBVIOUS
  <2>2. \A x \in 1 .. n + 4 : n + 4 - x \in 0 .. n + 4
    BY ONLY <1>1
  <2> QED  BY ONLY <2>1, <2>2
<1>4. \A d \in D : d \notin ends => next[d] \in D /\ rank[next[d]] < rank[d]
  <2> SUFFICES ASSUME NEW d \in D, d \notin ends PROVE next[d] \in D /\ rank[next[d]] < rank[d]
    OBVIOUS
  <2>0. d[1] \in 1 .. n + 4 /\ d[2] \in BOOLEAN
    OBVIOUS
  <2>1. d[1] \in 1 .. n
    BY <1>2, <2>0
  <2>2. PICK x \in {d[1] + 1, d[1] + 2, d[1] + 4} : next[d] = <<x, TRUE>> \/ next[d] = <<x, FALSE>>
    BY <2>0
  <2>3. x \in 1 .. n + 4 /\ n + 4 - x < n + 4 - d[1]
    BY ONLY <1>1, <2>1, <2>2, GoGoesOn
  <2>4. <<x, TRUE>> \in D /\ <<x, FALSE>> \in D
    BY ONLY <2>3 DEF D
  <2>5. rank[d] = n + 4 - d[1] /\ rank[<<x, TRUE>>] = n + 4 - x /\ rank[<<x, FALSE>>] = n + 4 - x
    <3> HIDE DEF D
    <3> QED  BY <2>4
  <2> HIDE DEF next, rank, D, ends
  <2> QED  BY <2>2, <2>3, <2>4, <2>5
<1>5. n + 4 \in Nat
  BY ONLY <1>1
<1>6. \E f : Reads(f, D, ends, silent, said, next)
  <2> HIDE DEF D, ends, silent, said, next, rank
  <2> QED  BY <1>3, <1>4, <1>5, ReaderExists
<1>7. PICK f : f = [d \in D |-> IF d \in ends THEN said[d]
                               ELSE IF d \in silent THEN f[next[d]] ELSE said[d] \o f[next[d]]]
  BY <1>6 DEF Reads
<1>8. ASSUME NEW d \in D PROVE f[d] = GoBody(text, f, d[1], d[2])
  <2>1. f[d] = IF d \in ends THEN said[d]
               ELSE IF d \in silent THEN f[next[d]] ELSE said[d] \o f[next[d]]
    BY <1>7
  <2>2. CASE d[2] /\ At(text, d[1]) = "eof"
    BY <2>1, <2>2 DEF GoBody
  <2>3. CASE d[2] /\ At(text, d[1]) = "tick"
    BY <2>1, <2>3 DEF GoBody
  <2>4. CASE d[2] /\ At(text, d[1]) \notin {"eof", "tick"}
    BY <2>1, <2>4 DEF GoBody
  <2>5. CASE ~ d[2] /\ Blank(Rest(text, d[1]))
    BY <2>1, <2>5 DEF GoBody
  <2>6. CASE ~ d[2] /\ ~ Blank(Rest(text, d[1])) /\ plus(d[1])
    <3>1. f[d] = f[<<d[1] + 2, TRUE>>]
      BY <2>1, <2>6
    <3>2. ~ sum(d[1])
      BY <2>6, NotBoth DEF plus, sum
    <3> QED  BY <2>6, <3>1, <3>2 DEF GoBody, plus, sum
  <2>7. CASE ~ d[2] /\ ~ Blank(Rest(text, d[1])) /\ ~ plus(d[1]) /\ sum(d[1])
    <3>1. f[d] = <<"tick">> \o f[<<d[1] + 4, FALSE>>]
      BY <2>1, <2>7
    <3> QED  BY <2>7, <3>1 DEF GoBody, plus, sum
  <2>8. CASE ~ d[2] /\ ~ Blank(Rest(text, d[1])) /\ ~ plus(d[1]) /\ ~ sum(d[1])
    <3>1. f[d] = <<"broken">>
      BY <2>1, <2>8
    <3> QED  BY <2>8, <3>1 DEF GoBody, plus, sum
  <2> QED  BY <2>2, <2>3, <2>4, <2>5, <2>6, <2>7, <2>8
<1>9. f = [d \in D |-> f[d]]
  BY <1>7
<1>10. f = [d \in D |-> GoBody(text, f, d[1], d[2])]
  <2> HIDE DEF D
  <2> QED  BY <1>8, <1>9
<1> QED  BY <1>10 DEF n, D

\* A lexeme's place in a declaration, and those of the seven a backtick becomes.
LEMMA GoPlaces ==
  ASSUME NEW m \in Nat, NEW p \in 1 .. m
  PROVE  /\ 2 + p \in 1 .. m + 5 /\ 2 + p \in 1 .. (m + 5) + 4 /\ (2 + p) + 1 = 2 + (p + 1)
         /\ p + 6 \in 1 .. m =>
                /\ \A k \in 1 .. 6 : /\ p + k \in 1 .. m /\ (2 + p) + k = 2 + (p + k)
                                     /\ (2 + p) + k \in 1 .. m + 5
                                     /\ (2 + p) + k \in 1 .. (m + 5) + 4
                /\ (2 + p) + 7 = 2 + (p + 7)
                /\ ((2 + p) + 1) + 3 <= m + 5 /\ ((2 + p) + 5) + 1 <= m + 5
                /\ ((2 + p) + 1) + 1 = (2 + p) + 2 /\ ((2 + p) + 1) + 2 = (2 + p) + 3
                /\ ((2 + p) + 1) + 3 = (2 + p) + 4 /\ ((2 + p) + 1) + 4 = (2 + p) + 5
                /\ ((2 + p) + 5) + 1 = (2 + p) + 6 /\ ((2 + p) + 5) + 2 = (2 + p) + 7
OBVIOUS

\* A sum of raw strings and quoted backticks reads as the text.
LEMMA GoReads ==
  ASSUME NEW g \in Seq(Letters)
  PROVE  CompiledGo(Declaration("go", g) \o <<"nl">>) = Meant("go", g)
<1> DEFINE out == GoSum(g)
           text == Declaration("go", g) \o <<"nl">>
           m == Len(out)
           n == Len(g)
<1>1. /\ m \in Nat /\ text \in Seq(Letters) /\ Len(text) = m + 5
      /\ \A k \in 1 .. m : text[2 + k] = out[k]
      /\ text[m + 3] = "tick" /\ text[m + 4] = "nl" /\ text[m + 5] = "nl"
  BY GoDeclares
<1> HIDE DEF text
<1>2. PICK P : SaysGo(out, g, P)
  BY SumSays
<1>3. n \in Nat
  BY LenProperties
<1>4. /\ \A i \in 1 .. m + 5 : At(text, i) = text[i] /\ text[i] # "eof"
  <2>1. DOMAIN text = 1 .. m + 5
    BY <1>1, LenProperties
  <2>2. \A i \in 1 .. m + 5 : text[i] \in Letters
    BY <1>1, ElementOfSeq
  <2>3. "eof" \notin Letters
    BY LettersAreNoMarkers
  <2> QED  BY <2>1, <2>2, <2>3 DEF At
<1> DEFINE Read(f) == f = [at \in (1 .. Len(text) + 4) \X BOOLEAN |-> GoBody(text, f, at[1], at[2])]
<1>5. \E f : Read(f)
  BY <1>1, GoReaderExists
<1>6. CompiledGo(text) = (CHOOSE f : Read(f))[<<3, TRUE>>]
  BY DEF CompiledGo, GoBody
<1>7. PICK f : Read(f) /\ CompiledGo(text) = f[<<3, TRUE>>]
  BY <1>5, <1>6
<1>8. ASSUME NEW i \in 1 .. (m + 5) + 4
      PROVE  /\ f[<<i, TRUE>>] = GoBody(text, f, i, TRUE)
             /\ f[<<i, FALSE>>] = GoBody(text, f, i, FALSE)
  BY <1>1, <1>7
<1> HIDE DEF Read, out, m, n
\* What is read at each place, in a raw string and between two.
<1>9. ASSUME NEW i \in 1 .. m + 5, i \in 1 .. (m + 5) + 4
      PROVE  /\ text[i] = "tick" => f[<<i, TRUE>>] = f[<<i + 1, FALSE>>]
             /\ text[i] # "tick" => f[<<i, TRUE>>] = <<Line(text[i])>> \o f[<<i + 1, TRUE>>]
  BY <1>4, <1>8, <1>9 DEF GoBody
<1>10. ASSUME NEW i \in 1 .. m + 5, i \in 1 .. (m + 5) + 4, Blank(Rest(text, i))
       PROVE  f[<<i, FALSE>>] = << >>
  BY <1>8, <1>10 DEF GoBody
<1>11. ASSUME NEW i \in 1 .. m + 5, i \in 1 .. (m + 5) + 4,
              i + 3 <= m + 5, text[i] = "+", text[i + 1] = "qq",
              text[i + 2] = "tick", text[i + 3] = "qq"
       PROVE  f[<<i, FALSE>>] = <<"tick">> \o f[<<i + 4, FALSE>>]
  <2>1. i \in Nat \ {0} /\ i <= Len(text) /\ i + 1 <= Len(text) /\ i + 3 <= Len(text)
    BY <1>1, <1>11
  <2>2. ~ Blank(Rest(text, i))
    BY <1>1, <1>11, <2>1, BlankEnds
  <2>3. SubSeq(text, i, i + 3) = <<"+", "qq", "tick", "qq">>
    BY <1>1, <1>11, <2>1, Pieces
  <2>4. SubSeq(text, i, i + 1) # <<"+", "tick">>
    BY <2>1, <2>3, NotBoth
  <2> QED  BY <1>8, <1>11, <2>2, <2>3, <2>4 DEF GoBody
<1>12. ASSUME NEW i \in 1 .. m + 5, i \in 1 .. (m + 5) + 4,
              i + 1 <= m + 5, text[i] = "+", text[i + 1] = "tick"
       PROVE  f[<<i, FALSE>>] = f[<<i + 2, TRUE>>]
  <2>1. i \in Nat \ {0} /\ i <= Len(text) /\ i + 1 <= Len(text)
    BY <1>1, <1>12
  <2>2. ~ Blank(Rest(text, i))
    BY <1>1, <1>12, <2>1, BlankEnds
  <2>3. SubSeq(text, i, i + 1) = <<"+", "tick">>
    BY <1>1, <1>12, <2>1, Pieces
  <2>4. SubSeq(text, i, i + 3) # <<"+", "qq", "tick", "qq">>
    BY <2>1, <2>3, NotBoth
  <2> QED  BY <1>8, <1>12, <2>2, <2>3, <2>4 DEF GoBody
<1>13. /\ P[1] = 1 /\ P[n + 1] = m + 1
       /\ \A i \in 1 .. n :
           /\ P[i] \in 1 .. m
           /\ g[i] # "tick" => P[i + 1] = P[i] + 1 /\ out[P[i]] = g[i]
           /\ g[i] = "tick" =>
                  /\ P[i + 1] = P[i] + 7 /\ P[i] + 6 \in 1 .. m
                  /\ out[P[i]] = "tick" /\ out[P[i] + 1] = "+" /\ out[P[i] + 2] = "qq"
                  /\ out[P[i] + 3] = "tick" /\ out[P[i] + 4] = "qq"
                  /\ out[P[i] + 5] = "+" /\ out[P[i] + 6] = "tick"
  BY <1>2 DEF SaysGo, m, n
<1> DEFINE T == {i \in 1 .. n + 1 : f[<<2 + P[i], TRUE>>] = From(g, i)}
<1>0. m \in Nat /\ n \in Nat
  BY <1>1, <1>3
<1>14. n + 1 \in T
  <2>1. /\ m + 3 \in 1 .. m + 5 /\ m + 3 \in 1 .. (m + 5) + 4 /\ 2 + (m + 1) = m + 3
        /\ m + 4 \in 1 .. m + 5 /\ m + 4 \in 1 .. (m + 5) + 4 /\ (m + 3) + 1 = m + 4
        /\ m + 4 \in Nat \ {0} /\ n + 1 \in 1 .. n + 1
        /\ \A k \in m + 4 .. m + 5 : k = m + 4 \/ k = m + 5
    BY ONLY <1>0
  <2>2. Blank(Rest(text, m + 4))
    <3>1. \A k \in m + 4 .. Len(text) : text[k] = "nl"
      BY <1>1, <2>1
    <3> QED  BY <1>1, <2>1, <3>1, BlankEnds
  <2>3. f[<<m + 3, TRUE>>] = f[<<m + 4, FALSE>>]
    BY <1>1, <1>9, <2>1
  <2>4. f[<<m + 4, FALSE>>] = << >>
    BY <1>10, <2>1, <2>2
  <2>5. From(g, n + 1) = << >>
    BY FromStep DEF n
  <2>6. 2 + P[n + 1] = m + 3
    BY <1>13, <2>1
  <2>7. f[<<2 + P[n + 1], TRUE>>] = From(g, n + 1)
    BY ONLY <2>3, <2>4, <2>5, <2>6
  <2> QED  BY <2>1, <2>7
<1>15. ASSUME NEW i \in 1 .. n, i + 1 \in T PROVE i \in T
  <2> DEFINE q == 2 + P[i]
  <2>1. P[i] \in 1 .. m
    BY <1>13
  <2>2. i \in 1 .. n + 1
    BY ONLY <1>0, i \in 1 .. n
  <2>3. q \in 1 .. m + 5 /\ q \in 1 .. (m + 5) + 4 /\ q + 1 = 2 + (P[i] + 1)
    BY ONLY <1>0, <2>1, GoPlaces
  <2>4. f[<<2 + P[i + 1], TRUE>>] = From(g, i + 1)
    BY <1>15
  <2>5. From(g, i) = <<Line(g[i])>> \o From(g, i + 1)
    BY FromStep DEF n
  <2>6. text[q] = out[P[i]]
    BY <1>1, <2>1
  <2>7. CASE g[i] # "tick"
    <3> HIDE DEF q
    <3>1. P[i + 1] = P[i] + 1 /\ text[q] = g[i]
      BY <1>13, <2>6, <2>7
    <3>2. f[<<q, TRUE>>] = <<Line(g[i])>> \o f[<<q + 1, TRUE>>]
      BY <1>9, <2>3, <2>7, <3>1
    <3>3. f[<<q, TRUE>>] = From(g, i)
      BY <2>3, <2>4, <2>5, <3>1, <3>2
    <3> QED  BY <2>2, <3>3 DEF q
  <2>8. CASE g[i] = "tick"
    <3>1. /\ P[i + 1] = P[i] + 7 /\ P[i] + 6 \in 1 .. m
          /\ out[P[i]] = "tick" /\ out[P[i] + 1] = "+" /\ out[P[i] + 2] = "qq"
          /\ out[P[i] + 3] = "tick" /\ out[P[i] + 4] = "qq"
          /\ out[P[i] + 5] = "+" /\ out[P[i] + 6] = "tick"
      BY <1>13, <2>8
    <3>2. /\ \A k \in 1 .. 6 : /\ P[i] + k \in 1 .. m /\ q + k = 2 + (P[i] + k)
                               /\ q + k \in 1 .. m + 5 /\ q + k \in 1 .. (m + 5) + 4
          /\ q + 7 = 2 + (P[i] + 7)
          /\ (q + 1) + 3 <= m + 5 /\ (q + 5) + 1 <= m + 5
          /\ (q + 1) + 1 = q + 2 /\ (q + 1) + 2 = q + 3
          /\ (q + 1) + 3 = q + 4 /\ (q + 1) + 4 = q + 5
          /\ (q + 5) + 1 = q + 6 /\ (q + 5) + 2 = q + 7
      BY ONLY <1>0, <2>1, <3>1, GoPlaces
    <3> HIDE DEF q
    <3>3. \A k \in 1 .. 6 : text[q + k] = out[P[i] + k]
      BY <1>1, <3>2
    <3>4. {1, 2, 3, 4, 5, 6} \subseteq 1 .. 6
      OBVIOUS
    <3>5. /\ text[q] = "tick" /\ text[q + 1] = "+" /\ text[(q + 1) + 1] = "qq"
          /\ text[(q + 1) + 2] = "tick" /\ text[(q + 1) + 3] = "qq"
          /\ text[q + 5] = "+" /\ text[(q + 5) + 1] = "tick"
      BY ONLY <2>6, <3>1, <3>2, <3>3, <3>4
    <3>6. f[<<q, TRUE>>] = f[<<q + 1, FALSE>>]
      BY <1>9, <2>3, <3>5
    <3>7. f[<<q + 1, FALSE>>] = <<"tick">> \o f[<<q + 5, FALSE>>]
      BY <1>11, <3>2, <3>4, <3>5
    <3>8. f[<<q + 5, FALSE>>] = f[<<q + 7, TRUE>>]
      BY <1>12, <3>2, <3>4, <3>5
    <3>9. Line(g[i]) = "tick"
      BY <2>8 DEF Line
    <3>10. f[<<q, TRUE>>] = From(g, i)
      BY <2>4, <2>5, <3>1, <3>2, <3>6, <3>7, <3>8, <3>9
    <3> QED  BY <2>2, <3>10 DEF q
  <2> QED  BY <2>7, <2>8
<1>16. f[<<3, TRUE>>] = From(g, 1)
  <2>1. 1 \in 1 .. n + 1 /\ 2 + 1 = 3
    BY ONLY <1>0
  <2>2. \A i \in 1 .. n + 1 : i \in T
    <3> HIDE DEF T
    <3> QED  BY <1>3, <1>14, <1>15, Backwards
  <2>3. f[<<2 + P[1], TRUE>>] = From(g, 1)
    BY <2>1, <2>2
  <2> HIDE DEF T
  <2> QED  BY <1>13, <2>1, <2>3
<1>17. Meant("go", g) = << >> \o From(g, 1)
  BY FromStep DEF Meant
<1>18. << >> \o From(g, 1) = From(g, 1)
  <2>1. From(g, 1) \in Seq(Letters)
    <3>1. 1 \in 1 .. n + 1
      BY ONLY <1>0
    <3> QED  BY <3>1, FromStep DEF n
  <2> QED  BY <2>1, ConcatEmptySeq
<1> QED  BY <1>7, <1>16, <1>17, <1>18 DEF text

-----------------------------------------------------------------------------
(* The declarations.                                                         *)

\* A declaration is written in letters.
LEMMA DeclarationsAreLetters ==
  ASSUME NEW p \in Ports, NEW g \in Grammars
  PROVE  g \in Seq(Letters) /\ Declaration(p, g) \in Seq(Letters)
<1>1. g \in Seq(Letters)
  BY LettersAreNoMarkers
<1> QED  BY <1>1, TsDeclares, GoDeclares, RsDeclares DEF Ports

\* What a port's compiler makes of a framed declaration.
LEMMA FramedConstant ==
  ASSUME NEW p \in Ports, NEW g \in Grammars, p = "rs" => FitsRaw(g)
  PROVE  Constant(p, Framed(Declaration(p, g))) = Meant(p, g)
<1> DEFINE d == Declaration(p, g)
           f == Framed(d)
<1>1. g \in Seq(Letters) /\ d \in Seq(Letters)
  BY DeclarationsAreLetters
<1> DEFINE text == SubSeq(f, Begin(f) + 2, End(f) - 1)
<1>2. text = d \o <<"nl">>
  BY <1>1, FrameReads
<1>0. Constant(p, f) = CASE p = "ts" -> CompiledTs(text)
                         [] p = "go" -> CompiledGo(text)
                         [] p = "rs" -> CompiledRs(text)
  BY DEF Constant
<1> HIDE DEF f, text
<1>3. CASE p = "ts"
  <2>1. Constant(p, f) = CompiledTs(text)
    BY ONLY <1>0, <1>3
  <2>2. CompiledTs(Declaration("ts", g) \o <<"nl">>) = Meant("ts", g)
    BY <1>1, TsReads
  <2> QED  BY <1>2, <1>3, <2>1, <2>2 DEF f
<1>4. CASE p = "go"
  <2>1. Constant(p, f) = CompiledGo(text)
    BY ONLY <1>0, <1>4
  <2>2. CompiledGo(Declaration("go", g) \o <<"nl">>) = Meant("go", g)
    BY <1>1, GoReads
  <2> QED  BY <1>2, <1>4, <2>1, <2>2 DEF f
<1>5. CASE p = "rs"
  <2>1. Constant(p, f) = CompiledRs(text)
    BY ONLY <1>0, <1>5
  <2>2. CompiledRs(Declaration("rs", g) \o <<"nl">>) = Meant("rs", g)
    BY <1>1, <1>5, RsReads
  <2> QED  BY <1>2, <1>5, <2>1, <2>2 DEF f
<1> QED  BY <1>3, <1>4, <1>5 DEF Ports, f

\* A source whose end marker was lost.
Lost == <<"head">> \o <<"BEGIN">> \o <<"tail">>

\* Such a source is one embed-grammar.js refuses.
LEMMA LostHasNoEnd == ~ MarkersFound(Lost)
<1>1. Lost = <<"head", "BEGIN", "tail">>
  <2>1. "head" \in Alphabet /\ "BEGIN" \in Alphabet /\ "tail" \in Alphabet
    BY AlphabetHolds
  <2>2. <<"head">> \o <<"BEGIN">> = <<"head", "BEGIN">>
    BY <2>1, Pairs
  <2> QED  BY <2>1, <2>2, Tuples DEF Lost
<1>2. \A i \in DOMAIN <<"head", "BEGIN", "tail">> : <<"head", "BEGIN", "tail">>[i] # "END"
  OBVIOUS
<1> QED  BY <1>1, <1>2 DEF MarkersFound, ToSet

\* The markers of a source nothing was embedded in yet.
LEMMA FirstFileFrames ==
  LET file == <<"head", "BEGIN", "END", "tail">>
  IN  Before(file) = <<"head">> /\ After(file) = <<"tail">>
<1> DEFINE file == <<"head", "BEGIN", "END", "tail">>
<1>1. /\ Len(file) = 4 /\ file[1] = "head" /\ file[2] = "BEGIN" /\ file[3] = "END"
      /\ file[4] = "tail"
  OBVIOUS
<1> HIDE DEF file
<1>2. \A i \in 1 .. 4 : i = 1 \/ i = 2 \/ i = 3 \/ i = 4
  OBVIOUS
<1>3. {i \in 1 .. Len(file) : file[i] = "BEGIN"} = {2}
  BY <1>1, <1>2
<1>4. {i \in 1 .. Len(file) : file[i] = "END"} = {3}
  BY <1>1, <1>2
<1>5. Min({2}) = 2 /\ Min({3}) = 3
  BY DEF Min
<1>6. Begin(file) = 2 /\ End(file) = 3
  BY <1>3, <1>4, <1>5 DEF Begin, End, SelectInSeq
<1>7. \A k \in 1 .. 1 : k = 1
  OBVIOUS
<1>8. \A k \in 4 .. 4 : k = 4
  OBVIOUS
<1>9. "head" \in Alphabet /\ "tail" \in Alphabet
  BY AlphabetHolds
<1> DEFINE h == <<"head">>
           t == <<"tail">>
           u == SubSeq(file, 1, 1)
           v == SubSeq(file, 4, 4)
<1>10. /\ h \in Seq(Alphabet) /\ Len(h) = 1 /\ h[1] = "head"
       /\ t \in Seq(Alphabet) /\ Len(t) = 1 /\ t[1] = "tail"
  BY <1>9, Tuples
<1>11. /\ u \in Seq(Alphabet) /\ Len(u) = IF 1 <= 1 THEN 1 - 1 + 1 ELSE 0
       /\ \A k \in 1 .. 1 - 1 + 1 : u[k] = file[1 + k - 1]
  <2>1. \A k \in 1 .. 1 : file[k] \in Alphabet
    BY <1>1, <1>7, <1>9
  <2> QED  BY <2>1, SubSeqProperties
<1>12. /\ v \in Seq(Alphabet) /\ Len(v) = IF 4 <= 4 THEN 4 - 4 + 1 ELSE 0
       /\ \A k \in 1 .. 4 - 4 + 1 : v[k] = file[4 + k - 1]
  <2>1. \A k \in 4 .. 4 : file[k] \in Alphabet
    BY <1>1, <1>8, <1>9
  <2> QED  BY <2>1, SubSeqProperties
<1> HIDE DEF h, t, u, v
<1>13. Len(u) = 1 /\ u[1] = "head" /\ Len(v) = 1 /\ v[1] = "tail"
  BY <1>1, <1>11, <1>12
<1>14. u = h /\ v = t
  BY <1>7, <1>10, <1>11, <1>12, <1>13, SeqEqual
<1>15. Before(file) = u /\ After(file) = v
  <2>1. 2 - 1 = 1 /\ 3 + 1 = 4
    OBVIOUS
  <2> QED  BY <1>1, <1>6, <2>1 DEF Before, After, u, v
<1> QED  BY <1>14, <1>15 DEF file, h, t

-----------------------------------------------------------------------------
(* What an embed that ended well has made.                                   *)

\* What an embed that ended well has made of the inputs, until the next edit,
\* and what it has made of them before its last step.
KeptInv ==
    /\ kept => pc = "idle" /\ \A r \in {"go", "rs"} : copies[r].manifest = spec
    /\ kept \/ pc = "copies" => translation = Generated

\* What the repository holds at first.
LEMMA InitKept == Init => KeptInv
BY DEF Init, KeptInv

\* Every step of an embed but the last leaves no claim, and so does an edit.
LEMMA StepKept == KeptInv /\ [Next]_vars => KeptInv'
<1> SUFFICES ASSUME KeptInv, [Next]_vars PROVE KeptInv'
  OBVIOUS
<1>1. CASE Start
  BY <1>1 DEF Start, KeptInv
<1>2. ASSUME NEW p \in Ports, NEW next \in {"go", "rs", "translate"}, EmbedInto(p, next)
      PROVE  KeptInv'
  <2>1. ~ kept
    BY <1>2 DEF EmbedInto, KeptInv, Ports
  <2> QED  BY <1>2, <2>1 DEF EmbedInto, Stop, KeptInv
<1>3. CASE EmbedTs \/ EmbedGo
  BY <1>2, <1>3 DEF EmbedTs, EmbedGo, Ports
<1>4. CASE EmbedRs
  BY <1>2, <1>4 DEF EmbedRs, Ports, Stop, KeptInv
<1>5. CASE EmbedTranslation
  <2>1. ~ kept /\ ~ kept'
    BY <1>5 DEF EmbedTranslation, Stop, KeptInv
  <2>2. UNCHANGED <<spec, alchemy>>
    BY <1>5 DEF EmbedTranslation, inputs
  <2>3. pc' = "copies" => translation' = Generated
    BY <1>5 DEF EmbedTranslation, Stop
  <2>4. Generated' = Generated
    BY <2>2 DEF Generated, part, Named
  <2> QED  BY <2>1, <2>3, <2>4 DEF KeptInv
<1>6. CASE CopyParts
  <2>1. UNCHANGED <<spec, alchemy, translation>> /\ pc = "copies" /\ pc' = "idle"
    BY <1>6 DEF CopyParts, inputs
  <2>2. \A r \in {"go", "rs"} : copies'[r].manifest = spec
    BY <1>6 DEF CopyParts
  <2>3. Generated' = Generated
    BY <2>1 DEF Generated, part, Named
  <2> QED  BY <2>1, <2>2, <2>3 DEF KeptInv
<1>7. CASE EditGrammar \/ EditManifest \/ EditAlchemy \/ LoseMarker \/ Merge
  BY <1>7 DEF EditGrammar, EditManifest, EditAlchemy, LoseMarker, Merge, Edit, KeptInv
<1>8. CASE UNCHANGED vars
  BY <1>8 DEF vars, inputs, KeptInv, Generated, part, Named
<1> QED  BY <1>1, <1>3, <1>4, <1>5, <1>6, <1>7, <1>8 DEF Next

\* Go and Rust write their list of parts by hand: what the suites accept of it
\* is what the manifest names.
LEMMA CopiedPartsAreNamed ==
  ASSUME NEW r \in {"go", "rs"}, translation = Generated, Suite("ts"), Suite(r),
         NEW k \in Kinds
  PROVE  TranslateCopied(r).parts[k] = part(k)
<1> DEFINE copied == TranslateCopied(r).parts
<1>1. CASE k = "lift"
  <2>1. copied["lift"] = none
    BY DEF TranslateCopied, Kinds, OwnParts
  <2>2. translation.parts["lift"] = none
    BY DEF Suite, Translate
  <2> QED  BY <1>1, <2>1, <2>2 DEF Generated, Kinds
<1>2. CASE k = "embed"
  <2>1. copied["embed"] = none
    BY DEF TranslateCopied, Kinds, OwnParts
  <2>2. Translate(r).parts["embed"] = none
    BY <2>1 DEF Translate
  <2>3. ~ IsFile(none, "embed", spec["embed"])
    BY DEF IsFile, none, EntryOf
  <2>4. spec["embed"] = "none"
    BY <2>2, <2>3 DEF Suite
  <2> QED  BY <1>2, <2>1, <2>4 DEF part
<1>3. CASE k = "render"
  <2>1. Translate(r).parts["render"] = copied["render"]
    BY DEF Translate
  <2>2. RenderHeld(r, copied["render"])
    BY <2>1 DEF Suite
  <2>3. RenderHeld("ts", part("render"))
    BY DEF Suite, Translate, Generated, Kinds
  <2>4. CASE r = "rs"
    BY <1>3, <2>2, <2>4 DEF RenderHeld, IsFile, part, Named, Files
  <2>5. CASE r = "go"
    BY <1>3, <2>2, <2>3, <2>5 DEF RenderHeld, IsFile
  <2> QED  BY <2>4, <2>5
<1>4. CASE k = "transduce"
  <2>1. Translate(r).parts["transduce"] = copied["transduce"]
    BY DEF Translate
  <2>2. spec["transduce"] = "transduce.alc" /\ IsFile(copied["transduce"], "transduce", "transduce.alc")
    BY <2>1 DEF Suite
  <2> QED  BY <1>4, <2>2 DEF IsFile, part, Named, Files
<1> QED  BY <1>1, <1>2, <1>3, <1>4 DEF Kinds

\* When the three suites are green after an embed, the three translate()
\* return the manifest's parts (translate.test.ts, translate_test.go,
\* translate_test.rs over embed-translate.js).
THEOREM GreenSuitesAgree == Spec => []SuitesHoldTheTranslations
<1>1. KeptInv => SuitesHoldTheTranslations
  <2> SUFFICES ASSUME KeptInv, kept, \A p \in Ports : Suite(p), NEW p \in Ports
               PROVE  Translate(p) = Generated
    BY DEF SuitesHoldTheTranslations
  <2>1. translation = Generated
    BY DEF KeptInv
  <2>2. CASE p = "ts"
    BY <2>1, <2>2 DEF Translate
  <2>3. CASE p \in {"go", "rs"}
    <3>1. \A k \in Kinds : TranslateCopied(p).parts[k] = part(k)
      BY <2>1, <2>3, CopiedPartsAreNamed DEF Ports
    <3>2. TranslateCopied(p).manifest = spec
      BY <2>3 DEF KeptInv, TranslateCopied
    <3>3. TranslateCopied(p).parts = [k \in Kinds |-> part(k)]
      <4>1. TranslateCopied(p).parts = [k \in Kinds |-> TranslateCopied(p).parts[k]]
        BY DEF TranslateCopied
      <4> QED  BY <3>1, <4>1
    <3> QED  BY <2>3, <3>2, <3>3 DEF Translate, TranslateCopied, Generated
  <2> QED  BY <2>2, <2>3 DEF Ports
<1> QED  BY <1>1, InitKept, StepKept, PTL DEF Spec

-----------------------------------------------------------------------------
(* The sources.                                                              *)

Written(p, g) == files[p] = Framed(Declaration(p, g)) /\ (p = "rs" => FitsRaw(g))

\* Each source has lost a marker, or holds the declaration of a grammar that
\* was there when an embed ran; an embed under way has written the current
\* grammar into the ports it is past, and one that ended well into all.
FilesInv ==
    /\ grammar \in Grammars
    /\ DOMAIN files = Ports
    /\ \A p \in Ports : files[p] = Lost \/ \E g \in Grammars : Written(p, g)
    /\ kept \/ pc \in {"go", "rs", "translate", "copies"} => Written("ts", grammar)
    /\ kept \/ pc \in {"rs", "translate", "copies"} => Written("go", grammar)
    /\ kept \/ pc \in {"translate", "copies"} => Written("rs", grammar)

\* At first every source holds the first grammar.
LEMMA InitFiles == Init => FilesInv
<1> SUFFICES ASSUME Init PROVE FilesInv
  OBVIOUS
<1>1. FirstGrammar \in Grammars /\ grammar = FirstGrammar
  BY GrammarsAssumption DEF Init
<1>2. DOMAIN files = Ports
  BY DEF Init
<1>3. ASSUME NEW p \in Ports PROVE Written(p, FirstGrammar)
  <2>1. files[p] = Framed(Declaration(p, FirstGrammar))
    BY FirstFileFrames DEF Init, embed, Framed
  <2>2. FitsRaw(FirstGrammar)
    BY DEF FitsRaw, FirstGrammar
  <2> QED  BY <2>1, <2>2 DEF Written
<1> QED  BY <1>1, <1>2, <1>3 DEF FilesInv, Ports

\* What an embed makes of a source that has its markers.
LEMMA EmbedFrames ==
  ASSUME FilesInv, NEW p \in Ports, MarkersFound(files[p]), NEW d \in Seq(Letters)
  PROVE  /\ Before(files[p]) = <<"head">> /\ After(files[p]) = <<"tail">>
         /\ embed(files[p], d) = Framed(d)
<1>1. PICK g \in Grammars : Written(p, g)
  BY LostHasNoEnd DEF FilesInv
<1>2. Declaration(p, g) \in Seq(Letters)
  BY DeclarationsAreLetters
<1>3. Before(files[p]) = <<"head">> /\ After(files[p]) = <<"tail">>
  BY <1>1, <1>2, FrameReads DEF Written
<1> QED  BY <1>3 DEF embed, Framed

\* A step of an embed that has found the markers writes the declaration;
\* one that has not ends it.
LEMMA EmbedStep ==
  ASSUME FilesInv, NEW p \in Ports, NEW next, EmbedInto(p, next), p = "rs" => FitsRaw(grammar)
  PROVE  \/ files' = files /\ pc' = "idle" /\ ~ kept' /\ grammar' = grammar
         \/ /\ MarkersFound(files[p]) /\ Written(p, grammar)'
            /\ \A q \in Ports \ {p} : files'[q] = files[q]
            /\ DOMAIN files' = Ports
            /\ pc = p /\ pc' = next /\ kept' = kept /\ grammar' = grammar
<1>1. grammar' = grammar /\ pc = p
  BY DEF EmbedInto, inputs
<1>2. CASE ~ MarkersFound(files[p])
  BY <1>1, <1>2 DEF EmbedInto, Stop
<1>3. CASE MarkersFound(files[p])
  <2>1. /\ files' = [files EXCEPT ![p] = embed(files[p], Declaration(p, grammar))]
        /\ pc' = next /\ kept' = kept
    BY <1>3 DEF EmbedInto
  <2>2. embed(files[p], Declaration(p, grammar)) = Framed(Declaration(p, grammar))
    BY <1>3, DeclarationsAreLetters, EmbedFrames DEF FilesInv
  <2>3. /\ files'[p] = Framed(Declaration(p, grammar)) /\ DOMAIN files' = Ports
        /\ \A q \in Ports \ {p} : files'[q] = files[q]
    BY <2>1, <2>2 DEF FilesInv
  <2> QED  BY <1>1, <1>3, <2>1, <2>3 DEF Written
<1> QED  BY <1>2, <1>3

\* Every step keeps what the sources hold.
LEMMA StepFiles == KeptInv /\ FilesInv /\ [Next]_vars => FilesInv'
<1> SUFFICES ASSUME KeptInv, FilesInv, [Next]_vars PROVE FilesInv'
  OBVIOUS
<1>0. kept => pc = "idle"
  BY DEF KeptInv
\* A step that leaves the sources and the grammar.
<1>1. ASSUME files' = files, grammar' = grammar,
             kept' => kept \/ pc = "copies",
             pc' = "idle" \/ pc' = "ts" \/ pc' = pc \/ (pc = "translate" /\ pc' = "copies")
      PROVE  FilesInv'
  <2>1. \A p \in Ports, g \in Grammars : Written(p, g)' = Written(p, g)
    BY <1>1 DEF Written
  <2>2. /\ Written("ts", grammar)' = Written("ts", grammar)
        /\ Written("go", grammar)' = Written("go", grammar)
        /\ Written("rs", grammar)' = Written("rs", grammar)
    BY <1>1 DEF Written
  <2> QED  BY <1>1, <2>1, <2>2 DEF FilesInv
<1>2. ASSUME NEW p \in Ports, NEW next, EmbedInto(p, next), p = "rs" => FitsRaw(grammar),
             <<p, next>> \in {<<"ts", "go">>, <<"go", "rs">>, <<"rs", "translate">>}
      PROVE  FilesInv'
  <2>1. CASE files' = files /\ pc' = "idle" /\ ~ kept' /\ grammar' = grammar
    BY <1>1, <2>1
  <2>2. CASE /\ MarkersFound(files[p]) /\ Written(p, grammar)'
             /\ \A q \in Ports \ {p} : files'[q] = files[q]
             /\ DOMAIN files' = Ports
             /\ pc = p /\ pc' = next /\ kept' = kept /\ grammar' = grammar
    <3>1. ~ kept /\ ~ kept' /\ grammar' \in Grammars
      BY <1>0, <2>2 DEF Ports, FilesInv
    <3>2. \A q \in Ports \ {p} : \A g \in Grammars : Written(q, g)' <=> Written(q, g)
      BY <2>2 DEF Written
    <3>3. files'[p] = Framed(Declaration(p, grammar')) /\ (p = "rs" => FitsRaw(grammar'))
      BY <2>2 DEF Written
    <3>4. \A q \in Ports : files'[q] = Lost \/ \E g \in Grammars : Written(q, g)'
      <4>1. files'[p] = Lost \/ \E g \in Grammars : Written(p, g)'
        BY <3>1, <3>3 DEF Written
      <4>2. \A q \in Ports \ {p} : files'[q] = Lost \/ \E g \in Grammars : Written(q, g)'
        BY <2>2, <3>2 DEF FilesInv
      <4> QED  BY <4>1, <4>2
    <3>5. \A q \in Ports \ {p} : Written(q, grammar)' <=> Written(q, grammar)
      BY <2>2 DEF Written
    <3>6. CASE p = "ts" /\ next = "go"
      BY <2>2, <3>1, <3>4, <3>6 DEF FilesInv
    <3>7. CASE p = "go" /\ next = "rs"
      BY <2>2, <3>1, <3>4, <3>5, <3>7 DEF FilesInv, Ports
    <3>8. CASE p = "rs" /\ next = "translate"
      BY <2>2, <3>1, <3>4, <3>5, <3>8 DEF FilesInv, Ports
    <3> QED  BY <1>2, <3>6, <3>7, <3>8
  <2> QED  BY <1>2, <2>1, <2>2, EmbedStep
<1>3. CASE Start
  BY <1>1, <1>3 DEF Start, inputs
<1>4. CASE EmbedTs
  BY <1>2, <1>4 DEF EmbedTs, Ports
<1>5. CASE EmbedGo
  BY <1>2, <1>5 DEF EmbedGo, Ports
<1>6. CASE EmbedRs
  <2>1. CASE FitsRaw(grammar) /\ EmbedInto("rs", "translate")
    BY <1>2, <2>1 DEF Ports
  <2>2. CASE pc = "rs" /\ ~ FitsRaw(grammar) /\ Stop /\ UNCHANGED <<inputs, edits>>
    BY <1>1, <2>2 DEF Stop, inputs
  <2> QED  BY <1>6, <2>1, <2>2 DEF EmbedRs
<1>7. CASE EmbedTranslation
  BY <1>1, <1>7 DEF EmbedTranslation, Stop, inputs
<1>8. CASE CopyParts
  BY <1>1, <1>8 DEF CopyParts, inputs
<1>9. CASE EditManifest \/ EditAlchemy \/ Merge
  BY <1>1, <1>9 DEF EditManifest, EditAlchemy, Merge, Edit, inputs
<1>10. CASE EditGrammar
  <2>1. grammar' \in Grammars /\ files' = files /\ pc' = "idle" /\ ~ kept'
    BY <1>10 DEF EditGrammar, Edit
  <2>2. \A p \in Ports, g \in Grammars : Written(p, g)' = Written(p, g)
    BY <2>1 DEF Written
  <2> QED  BY <2>1, <2>2 DEF FilesInv
<1>11. CASE LoseMarker
  <2>1. PICK p \in Ports :
           /\ MarkersFound(files[p])
           /\ files' = [files EXCEPT ![p] =
                           Before(files[p]) \o <<"BEGIN">> \o After(files[p])]
    BY <1>11 DEF LoseMarker
  <2>2. pc' = "idle" /\ ~ kept' /\ grammar' = grammar
    BY <1>11 DEF LoseMarker, Edit, inputs
  <2>3. Before(files[p]) = <<"head">> /\ After(files[p]) = <<"tail">>
    <3>1. << >> \in Seq(Letters)
      BY EmptySeq
    <3> QED  BY <2>1, <3>1, EmbedFrames
  <2>4. files'[p] = Lost /\ DOMAIN files' = Ports /\ \A q \in Ports \ {p} : files'[q] = files[q]
    BY <2>1, <2>3 DEF FilesInv, Lost
  <2>5. \A q \in Ports \ {p} : \A g \in Grammars : Written(q, g)' <=> Written(q, g)
    BY <2>4 DEF Written
  <2>6. \A q \in Ports : files'[q] = Lost \/ \E g \in Grammars : Written(q, g)'
    BY <2>4, <2>5 DEF FilesInv
  <2> QED  BY <2>2, <2>4, <2>6 DEF FilesInv
<1>12. CASE UNCHANGED vars
  BY <1>1, <1>12 DEF vars, inputs
<1> QED  BY <1>3, <1>4, <1>5, <1>6, <1>7, <1>8, <1>9, <1>10, <1>11, <1>12 DEF Next

\* After any sequence of edits, lost markers, merges and embeds, refused half
\* way or not, what each port's compiler reads between the markers is a whole
\* grammar, and after an embed that ended well the grammar
\* (ts/embed-grammar.js and the three languages' string literals).
THEOREM PortsReadWholeGrammars == Spec => []PortsReadTheGrammar
<1>1. FilesInv => PortsReadTheGrammar
  <2> SUFFICES ASSUME FilesInv PROVE PortsReadTheGrammar
    OBVIOUS
  <2>1. ASSUME NEW p \in Ports, NEW g \in Grammars, Written(p, g)
        PROVE  Constant(p, files[p]) = Meant(p, g)
    BY <2>1, FramedConstant DEF Written
  <2>2. ASSUME NEW p \in Ports, MarkersFound(files[p])
        PROVE  \E g \in Grammars : Constant(p, files[p]) = Meant(p, g)
    BY <2>1, <2>2, LostHasNoEnd DEF FilesInv
  <2>3. ASSUME kept, NEW p \in Ports PROVE Constant(p, files[p]) = Meant(p, grammar)
    BY <2>1, <2>3 DEF FilesInv, Ports
  <2> QED  BY <2>2, <2>3 DEF PortsReadTheGrammar
<1> QED  BY <1>1, InitKept, StepKept, InitFiles, StepFiles, PTL DEF Spec

\* A step of an embed changes nothing outside the markers and leaves a source
\* that a second embed would not change (embed in ts/embed-grammar.js).
THEOREM EmbedsBetweenTheMarkers == Spec => OnlyBetweenTheMarkers
<1> DEFINE Kept(p) == pc # "idle" /\ files'[p] # files[p] =>
                          /\ Before(files'[p]) = Before(files[p])
                          /\ After(files'[p]) = After(files[p])
                          /\ embed(files'[p], Declaration(p, grammar)) = files'[p]
<1>1. KeptInv /\ FilesInv /\ [Next]_vars => [\A p \in Ports : Kept(p)]_vars
  <2> SUFFICES ASSUME KeptInv, FilesInv, Next, NEW p \in Ports,
                      pc # "idle", files'[p] # files[p]
               PROVE  /\ Before(files'[p]) = Before(files[p])
                      /\ After(files'[p]) = After(files[p])
                      /\ embed(files'[p], Declaration(p, grammar)) = files'[p]
    BY DEF vars
  <2>1. ASSUME NEW q \in Ports, NEW next, EmbedInto(q, next), q = "rs" => FitsRaw(grammar)
        PROVE  q = p /\ MarkersFound(files[p]) /\ files'[p] = Framed(Declaration(p, grammar))
    <3>1. /\ MarkersFound(files[q]) /\ Written(q, grammar)' /\ grammar' = grammar
          /\ \A x \in Ports \ {q} : files'[x] = files[x]
      BY <2>1, EmbedStep
    <3> QED  BY <3>1 DEF Written
  <2>2. MarkersFound(files[p]) /\ files'[p] = Framed(Declaration(p, grammar))
    <3>1. CASE EmbedTs \/ EmbedGo
      BY <2>1, <3>1 DEF EmbedTs, EmbedGo, Ports
    <3>2. CASE EmbedRs
      BY <2>1, <3>2 DEF EmbedRs, Stop, Ports
    <3>3. CASE Start \/ EmbedTranslation \/ CopyParts
      BY <3>3 DEF Start, EmbedTranslation, Stop, CopyParts
    <3>4. CASE EditGrammar \/ EditManifest \/ EditAlchemy \/ LoseMarker \/ Merge
      BY <3>4 DEF EditGrammar, EditManifest, EditAlchemy, LoseMarker, Merge, Edit
    <3> QED  BY <3>1, <3>2, <3>3, <3>4 DEF Next
  <2>3. Declaration(p, grammar) \in Seq(Letters)
    BY DeclarationsAreLetters DEF FilesInv
  <2>4. Before(files[p]) = <<"head">> /\ After(files[p]) = <<"tail">>
    BY <2>2, <2>3, EmbedFrames
  <2>5. Before(files'[p]) = <<"head">> /\ After(files'[p]) = <<"tail">>
    BY <2>2, <2>3, FrameReads
  <2>6. embed(files'[p], Declaration(p, grammar)) = files'[p]
    BY <2>2, <2>5 DEF embed, Framed
  <2> QED  BY <2>4, <2>5, <2>6
<1> QED
  BY <1>1, InitKept, StepKept, InitFiles, StepFiles, PTL DEF Spec, OnlyBetweenTheMarkers

-----------------------------------------------------------------------------
(* The dependency check.                                                     *)

(* What compare has found is what is wrong with the names, the register's  *)
(* shape and the dependencies it has looked at, and its verdict is of all. *)
FoundInv ==
  /\ running = "compare" =>
       /\ todo \subseteq Looked
       /\ problems = NameProblems \cup ShapeProblems
                        \cup UNION {ProblemsOf(id) : id \in Looked \ todo}
  /\ running = "end" /\ exit # 2 => (exit = 0 <=> Faults = {})

(* What is compared rests on the repository and the ports read, of which   *)
(* compare changes nothing.                                                *)
LEMMA ComparedStays ==
  ASSUME UNCHANGED <<repo, ports>>
  PROVE  /\ Looked' = Looked /\ NameProblems' = NameProblems
         /\ ShapeProblems' = ShapeProblems
         /\ \A id : ProblemsOf(id)' = ProblemsOf(id)
<1>1. Present' = Present /\ Register' = Register
  BY DEF Present, Register
<1>2. Differ' = Differ
  BY <1>1 DEF Differ, Trusted
<1>3. Needed' = Needed /\ \A id : With(id)' = With(id)
  BY <1>1 DEF Needed, With
<1>4. Looked' = Looked
  BY <1>2, <1>3 DEF Looked
<1>5. NameProblems' = NameProblems
  BY <1>1 DEF NameProblems
<1>6. ShapeProblems' = ShapeProblems
  BY <1>1 DEF ShapeProblems
<1>7. ASSUME NEW id PROVE ProblemsOf(id)' = ProblemsOf(id)
  <2>1. Differs(id)' = Differs(id)
    BY <1>1, <1>3 DEF Differs
  <2>2. EntryProblems(id)' = EntryProblems(id)
    BY <1>2, <1>3 DEF EntryProblems
  <2> QED  BY <1>2, <2>1, <2>2 DEF ProblemsOf
<1> QED  BY <1>4, <1>5, <1>6, <1>7

LEMMA InitFound == DepsInit => FoundInv
BY DEF DepsInit, FoundInv

(* A program that stops on what it cannot read gives no verdict.           *)
LEMMA StopsFound ==
  ASSUME Exit(2)
  PROVE  FoundInv'
BY DEF Exit, FoundInv

(* The reader that comes next is none of the last two.                     *)
LEMMA EntersReader ==
  ASSUME NEW port \in {"none", "ts", "go", "rs"}, EnterAfter(port)
  PROVE  running' \in {"ts", "go", "rs", "register"}
BY DEF EnterAfter, Enter, Later

LEMMA ReadersFound ==
  ASSUME running' \notin {"compare", "end"}
  PROVE  FoundInv'
BY DEF FoundInv

(* The loop: a dependency looked at adds its problems, and no other.       *)
LEMMA CompareFound ==
  ASSUME FoundInv, Compare
  PROVE  FoundInv'
<1>1. PICK id \in todo : problems' = problems \cup ProblemsOf(id) /\ todo' = todo \ {id}
  BY DEF Compare
<1>2. running = "compare" /\ running' = "compare" /\ UNCHANGED <<repo, ports>>
  BY DEF Compare
<1>3. id \in Looked
  BY <1>1, <1>2 DEF FoundInv
<1> QED  BY <1>1, <1>2, <1>3, ComparedStays DEF FoundInv

LEMMA StepFound == FoundInv /\ [DepsNext]_depsVars => FoundInv'
<1> SUFFICES ASSUME FoundInv, [DepsNext]_depsVars PROVE FoundInv'
  OBVIOUS
<1>1. CASE Main
  <2>1. CASE EnterAfter("none")
    BY <2>1, EntersReader, ReadersFound
  <2> QED  BY <1>1, <2>1, StopsFound DEF Main
<1>2. CASE PackageJson
  <2>1. CASE EnterAfter("ts")
    BY <2>1, EntersReader, ReadersFound
  <2> QED  BY <1>2, <2>1, StopsFound DEF PackageJson, ReadPort
<1>3. CASE GoModLine \/ GoHeaderLine \/ GoToken \/ CargoStatement
  <2>1. running' \notin {"compare", "end"}
    BY <1>3 DEF GoModLine, GoHeaderLine, GoToken, CargoStatement, Reading
  <2> QED  BY <2>1, ReadersFound
<1>4. CASE GoModEnd
  BY <1>4, ReadersFound, StopsFound DEF GoModEnd
<1>5. CASE NextFile \/ GoHeaderEnd
  <2>1. running' \notin {"compare", "end"}
    BY <1>5 DEF NextFile, GoHeaderEnd
  <2> QED  BY <2>1, ReadersFound
<1>6. CASE GoFileEnd
  BY <1>6, ReadersFound, StopsFound DEF GoFileEnd
<1>7. CASE GoEnd
  <2>1. EnterAfter("go")
    BY <1>7 DEF GoEnd, ReadPort
  <2> QED  BY <2>1, EntersReader, ReadersFound
<1>8. CASE CargoEnd
  <2>1. CASE EnterAfter("rs")
    BY <2>1, EntersReader, ReadersFound
  <2> QED  BY <1>8, <2>1, StopsFound DEF CargoEnd, ReadPort
<1>9. CASE Unreadable
  BY <1>9, StopsFound DEF Unreadable
<1>10. CASE ReadRegister
  <2>1. CASE Exit(2)
    BY <2>1, StopsFound
  <2>2. CASE /\ running' = "compare" /\ problems' = NameProblems \cup ShapeProblems
             /\ todo' = Needed \cup DOMAIN Differ /\ UNCHANGED <<repo, ports>>
    <3>1. todo' = Looked' /\ problems' = NameProblems' \cup ShapeProblems'
      BY <2>2, ComparedStays DEF Looked
    <3>2. Looked' \ todo' = {}
      BY <3>1
    <3> QED  BY <2>2, <3>1, <3>2 DEF FoundInv
  <2> QED  BY <1>10, <2>1, <2>2 DEF ReadRegister
<1>11. CASE Compare
  BY <1>11, CompareFound
<1>12. CASE Verdict
  <2>1. running = "compare" /\ todo = {} /\ UNCHANGED <<repo, ports>>
    BY <1>12 DEF Verdict, Exit
  <2>2. problems = Faults
    BY <2>1 DEF FoundInv, Faults
  <2>3. Faults' = Faults
    BY <2>1, ComparedStays DEF Faults
  <2>4. running' = "end" /\ exit' = IF problems = {} THEN 0 ELSE 1
    BY <1>12 DEF Verdict, Exit
  <2> QED  BY <2>2, <2>3, <2>4 DEF FoundInv
<1>13. CASE Ended \/ UNCHANGED depsVars
  <2>1. UNCHANGED <<repo, ports, running, todo, problems, exit>>
    BY <1>13 DEF Ended, depsVars
  <2>2. Faults' = Faults
    BY <2>1, ComparedStays DEF Faults
  <2> QED  BY <2>1, <2>2, ComparedStays DEF FoundInv
<1> QED
  BY <1>1, <1>2, <1>3, <1>4, <1>5, <1>6, <1>7, <1>8, <1>9, <1>10, <1>11, <1>12, <1>13
     DEF DepsNext

(* Where nothing is wrong with any dependency, the register is the list of *)
(* the differences.                                                        *)
LEMMA FaultlessAgrees == Faults = {} => Agreement
<1> SUFFICES ASSUME Faults = {} PROVE Agreement
  OBVIOUS
<1>1. \A id \in Looked : ProblemsOf(id) = {}
  BY DEF Faults
<1>2. NameProblems = {} /\ ShapeProblems = {}
  BY DEF Faults
<1>3. \A p \in Present : ports[p].id # None
  BY <1>2 DEF NameProblems
<1>4. \A p, q \in Present : ports[p].id = ports[q].id
  BY <1>2, <1>3 DEF NameProblems
<1>5. /\ Register.object /\ ~Register.extra /\ Register.note # "other"
      /\ Register.differ # NotAnObject
  BY <1>2 DEF ShapeProblems
<1>6. ASSUME NEW id \in Looked
      PROVE  /\ Differs(id) <=> id \in DOMAIN Differ
             /\ id \in DOMAIN Differ => EntryProblems(id) = {}
  <2>1. ProblemsOf(id) = {}
    BY <1>1
  <2> QED  BY <2>1 DEF ProblemsOf
<1>7. DOMAIN Differ = {id \in Needed : With(id) # Present}
  BY <1>6 DEF Looked, Differs
<1>8. ASSUME NEW id \in DOMAIN Differ
      PROVE  /\ Differ[id].object /\ ~Differ[id].extra /\ Differ[id].ports = Sorted(With(id))
             /\ Differ[id].reason # "blank" /\ Differ[id].repair # "blank"
  <2>1. EntryProblems(id) = {}
    BY <1>6, <1>8 DEF Looked
  <2>2. Differ[id].object
    BY <2>1 DEF EntryProblems
  <2> QED  BY <2>1, <2>2 DEF EntryProblems
<1> QED  BY <1>3, <1>4, <1>5, <1>7, <1>8 DEF Agreement

(* And where that is so, there is nothing to find.                         *)
LEMMA AgreementIsFaultless == Agreement => Faults = {}
<1> SUFFICES ASSUME Agreement PROVE Faults = {}
  OBVIOUS
<1>1. NameProblems = {} /\ ShapeProblems = {}
  BY DEF Agreement, NameProblems, ShapeProblems
<1>2. ASSUME NEW id \in Looked PROVE ProblemsOf(id) = {}
  <2>1. Differs(id) <=> id \in DOMAIN Differ
    BY <1>2 DEF Agreement, Looked, Differs
  <2>2. id \in DOMAIN Differ => EntryProblems(id) = {}
    BY DEF Agreement, EntryProblems
  <2> QED  BY <2>1, <2>2 DEF ProblemsOf
<1> QED  BY <1>1, <1>2 DEF Faults

(* The ports behind the function that is running.                          *)
Behind(at) ==
  IF at \in {"main", "ts"} THEN {}
  ELSE IF at \in {"go", "goFiles", "goSource"} THEN {"ts"}
  ELSE IF at = "rs" THEN {"ts", "go"}
  ELSE {"ts", "go", "rs"}

(* The ports there may be up to one of them.                               *)
Through(port) ==
  IF port = "none" THEN {} ELSE IF port = "ts" THEN {"ts"}
  ELSE IF port = "go" THEN {"ts", "go"} ELSE {"ts", "go", "rs"}

(* No port that is there is passed over: those behind are read, and one is *)
(* entered only where it is.                                               *)
PortsInv ==
  /\ DOMAIN repo.manifests \subseteq {"ts", "go", "rs"}
  /\ running \in {"ts", "go", "rs"} => Has(running)
  /\ running \in {"goFiles", "goSource"} => Has("go")
  /\ ~(running = "end" /\ exit = 2) => Present = {p \in Behind(running) : Has(p)}

LEMMA InitPorts == DepsInit => PortsInv
<1>1. DepsInit => Present = {}
  BY DEF DepsInit, Present
<1> QED  BY <1>1, ReposAssumption DEF DepsInit, PortsInv, Behind

(* What comes after a port skips none that is there.                       *)
LEMMA EntersNext ==
  ASSUME NEW port \in {"none", "ts", "go", "rs"}, EnterAfter(port),
         DOMAIN repo.manifests \subseteq {"ts", "go", "rs"}, repo' = repo,
         Present' = {p \in Through(port) : Has(p)}
  PROVE  PortsInv'
<1>1. \A p : Has(p)' <=> Has(p)
  BY DEF Has
<1>2. Later["none"] = {"ts", "go", "rs"} /\ Later["ts"] = {"go", "rs"}
      /\ Later["go"] = {"rs"} /\ Later["rs"] = {}
  BY DEF Later
<1> DEFINE next == {p \in Later[port] : Has(p)}
<1>3. \/ next = {} /\ running' = "register"
      \/ \E p \in next : (\A q \in next \ {p} : q \in Later[p]) /\ running' = p
  BY DEF EnterAfter, Enter
<1>4. running' \in {"ts", "go", "rs", "register"} /\ (running' # "register" => Has(running'))
  BY <1>2, <1>3
<1>5. {p \in Through(port) : Has(p)} = {p \in Behind(running') : Has(p)}
  <2>1. CASE port = "none"
    BY <1>2, <1>3, <2>1 DEF Behind, Through
  <2>2. CASE port = "ts"
    BY <1>2, <1>3, <2>2 DEF Behind, Through
  <2>3. CASE port = "go"
    BY <1>2, <1>3, <2>3 DEF Behind, Through
  <2>4. CASE port = "rs"
    BY <1>2, <1>3, <2>4 DEF Behind, Through
  <2> QED  BY <2>1, <2>2, <2>3, <2>4
<1>6. {p \in Behind(running') : Has(p)'} = {p \in Behind(running') : Has(p)}
  BY <1>1
<1> QED  BY <1>1, <1>4, <1>5, <1>6 DEF PortsInv

(* A port that is read is one of those present.                            *)
LEMMA ReadIsPresent ==
  ASSUME NEW name, NEW port, ReadPort(name, port)
  PROVE  Present' = Present \cup {name}
BY DEF ReadPort, Present

(* A step on which the ports read do not depend.                           *)
LEMMA ReadStays ==
  ASSUME PortsInv, UNCHANGED <<repo, ports>>, running # "end",
         Behind(running') = Behind(running),
         running' \in {"ts", "go", "rs"} => Has(running'),
         running' \in {"goFiles", "goSource"} => Has("go")
  PROVE  PortsInv'
BY DEF PortsInv, Present, Has

LEMMA StopsReading ==
  ASSUME PortsInv, Exit(2)
  PROVE  PortsInv'
BY DEF Exit, PortsInv, Has

LEMMA StepPorts == PortsInv /\ [DepsNext]_depsVars => PortsInv'
<1> SUFFICES ASSUME PortsInv, [DepsNext]_depsVars PROVE PortsInv'
  OBVIOUS
<1>1. CASE Main
  <2>1. CASE ~Exit(2)
    <3>1. running = "main" /\ EnterAfter("none") /\ UNCHANGED <<repo, ports>>
      BY <1>1, <2>1 DEF Main
    <3>2. Present' = {p \in Through("none") : Has(p)}
      BY <3>1 DEF PortsInv, Present, Behind, Through
    <3> QED  BY <3>1, <3>2, EntersNext DEF PortsInv
  <2> QED  BY <2>1, StopsReading
<1>2. CASE PackageJson
  <2>1. CASE ~Exit(2)
    <3>1. running = "ts" /\ ReadPort("ts", ReadTs(repo.manifests.ts))
      BY <1>2, <2>1 DEF PackageJson
    <3>2. EnterAfter("ts") /\ repo' = repo
      BY <3>1 DEF ReadPort
    <3>3. Present' = Present \cup {"ts"}
      BY <3>1, ReadIsPresent
    <3>4. Present' = {p \in Through("ts") : Has(p)}
      BY <3>1, <3>3 DEF PortsInv, Behind, Through
    <3> QED  BY <3>2, <3>4, EntersNext DEF PortsInv
  <2> QED  BY <2>1, StopsReading
<1>3. CASE GoModLine \/ GoHeaderLine \/ GoToken \/ CargoStatement
  <2>1. running # "end" /\ UNCHANGED <<running, repo, ports>>
    BY <1>3 DEF GoModLine, GoHeaderLine, GoToken, CargoStatement, Reading
  <2> QED  BY <2>1, ReadStays DEF PortsInv
<1>4. CASE GoModEnd
  <2>1. CASE ~Exit(2)
    <3>1. running = "go" /\ running' = "goFiles" /\ UNCHANGED <<repo, ports>>
      BY <1>4, <2>1 DEF GoModEnd
    <3> QED  BY <3>1, ReadStays DEF PortsInv, Behind
  <2> QED  BY <2>1, StopsReading
<1>5. CASE NextFile \/ GoHeaderEnd
  <2>1. /\ running \in {"goFiles", "goSource"} /\ running' \in {"goFiles", "goSource"}
        /\ UNCHANGED <<repo, ports>>
    BY <1>5 DEF NextFile, GoHeaderEnd
  <2> QED  BY <2>1, ReadStays DEF PortsInv, Behind
<1>6. CASE GoFileEnd
  <2>1. CASE ~Exit(2)
    <3>1. running = "goSource" /\ running' = "goFiles" /\ UNCHANGED <<repo, ports>>
      BY <1>6, <2>1 DEF GoFileEnd
    <3> QED  BY <3>1, ReadStays DEF PortsInv, Behind
  <2> QED  BY <2>1, StopsReading
<1>7. CASE GoEnd
  <2>1. running = "goFiles" /\ ReadPort("go", GoPort(go))
    BY <1>7 DEF GoEnd
  <2>2. EnterAfter("go") /\ repo' = repo
    BY <2>1 DEF ReadPort
  <2>3. Present' = Present \cup {"go"}
    BY <2>1, ReadIsPresent
  <2>4. Present' = {p \in Through("go") : Has(p)}
    BY <2>1, <2>3 DEF PortsInv, Behind, Through
  <2> QED  BY <2>2, <2>4, EntersNext DEF PortsInv
<1>8. CASE CargoEnd
  <2>1. CASE ~Exit(2)
    <3>1. running = "rs" /\ ReadPort("rs", ReadRs(reader.doc))
      BY <1>8, <2>1 DEF CargoEnd
    <3>2. EnterAfter("rs") /\ repo' = repo
      BY <3>1 DEF ReadPort
    <3>3. Present' = Present \cup {"rs"}
      BY <3>1, ReadIsPresent
    <3>4. Present' = {p \in Through("rs") : Has(p)}
      BY <3>1, <3>3 DEF PortsInv, Behind, Through
    <3> QED  BY <3>2, <3>4, EntersNext DEF PortsInv
  <2> QED  BY <2>1, StopsReading
<1>9. CASE Unreadable
  BY <1>9, StopsReading DEF Unreadable
<1>10. CASE ReadRegister
  <2>1. CASE ~Exit(2)
    <3>1. running = "register" /\ running' = "compare" /\ UNCHANGED <<repo, ports>>
      BY <1>10, <2>1 DEF ReadRegister
    <3> QED  BY <3>1, ReadStays DEF Behind
  <2> QED  BY <2>1, StopsReading
<1>11. CASE Compare
  <2>1. running = "compare" /\ UNCHANGED <<running, repo, ports>>
    BY <1>11 DEF Compare
  <2> QED  BY <2>1, ReadStays DEF PortsInv
<1>12. CASE Verdict
  <2>1. running = "compare" /\ running' = "end" /\ UNCHANGED <<repo, ports>>
    BY <1>12 DEF Verdict, Exit
  <2> QED  BY <2>1, ReadStays DEF Behind
<1>13. CASE Ended \/ UNCHANGED depsVars
  <2>1. UNCHANGED <<repo, ports, running, exit>>
    BY <1>13 DEF Ended, depsVars
  <2> QED  BY <2>1 DEF PortsInv, Present, Has
<1> QED
  BY <1>1, <1>2, <1>3, <1>4, <1>5, <1>6, <1>7, <1>8, <1>9, <1>10, <1>11, <1>12, <1>13
     DEF DepsNext

(* A verdict is one about every port there is, and it is 0 exactly when    *)
(* the register records each difference between them as it is, in its      *)
(* proper shape, and nothing else (main and compare of port-deps.cjs).     *)
THEOREM VerdictsTellAgreement == DepsSpec => []VerdictIsAgreement
<1>1. FoundInv /\ PortsInv => VerdictIsAgreement
  <2> SUFFICES ASSUME FoundInv, PortsInv, running = "end", exit # 2
               PROVE  Present = DOMAIN repo.manifests /\ (exit = 0 <=> Agreement)
    BY DEF VerdictIsAgreement
  <2>1. Present = DOMAIN repo.manifests
    BY DEF PortsInv, Behind, Has
  <2>2. exit = 0 <=> Agreement
    BY FaultlessAgrees, AgreementIsFaultless DEF FoundInv
  <2> QED  BY <2>1, <2>2
<1> QED  BY <1>1, InitFound, StepFound, InitPorts, StepPorts, PTL DEF DepsSpec

-----------------------------------------------------------------------------
(* What the ts port is said to need.                                         *)

LEMMA NameStandsFor ==
  ASSUME NEW key, NEW wanted \in Seq(STRING), NEW real
  PROVE  StandsFor(key, wanted, real) <=> real = NpmName(key, wanted)
<1>1. CASE wanted = <<>> \/ Head(wanted) # "npm:"
  BY <1>1 DEF StandsFor, NpmName
<1>2. CASE ~(wanted = <<>> \/ Head(wanted) # "npm:")
  <2> DEFINE rest == Tail(wanted)
             ats == {i \in 2 .. Len(rest) : rest[i] = "@"}
  <2>1. NpmName(key, wanted) = IF ats = {} THEN rest ELSE SubSeq(rest, 1, Max(ats) - 1)
    BY <1>2 DEF NpmName
  <2>2. StandsFor(key, wanted, real) <=>
          \/ real = rest /\ \A i \in 2 .. Len(rest) : rest[i] # "@"
          \/ \E n \in 1 .. Len(rest) - 1 :
               /\ real = SubSeq(rest, 1, n) /\ rest[n + 1] = "@"
               /\ \A i \in n + 2 .. Len(rest) : rest[i] # "@"
    BY <1>2 DEF StandsFor
  <2>3. rest \in Seq(STRING) /\ Len(rest) \in Nat
    BY <1>2
  <2> HIDE DEF rest
  <2>4. CASE ats = {}
    <3>1. \A n \in 1 .. Len(rest) - 1 : n + 1 \in 2 .. Len(rest)
      BY <2>3
    <3>2. \A n \in 1 .. Len(rest) - 1 : rest[n + 1] # "@"
      BY <2>4, <3>1
    <3> QED  BY <2>1, <2>2, <2>4, <3>2
  <2>5. CASE ats # {}
    <3>1. PICK m \in ats : \A y \in ats : y <= m
      <4>1. ats \in SUBSET (1 .. Len(rest))
        BY <2>3
      <4> HIDE DEF ats
      <4> QED  BY <2>3, <2>5, <4>1, GreatestOf
    <3>2. m \in 2 .. Len(rest) /\ rest[m] = "@"
      OBVIOUS
    <3>3. \A i \in m + 1 .. Len(rest) : rest[i] # "@"
      <4>1. \A i \in m + 1 .. Len(rest) : i \in 2 .. Len(rest) /\ ~(i <= m)
        BY <2>3, <3>2
      <4> QED  BY <3>1, <4>1
    <3>4. Max(ats) = m
      <4>1. \A y \in ats : m >= y
        BY <2>3, <3>1
      <4>2. \A x \in ats : (\A y \in ats : x >= y) => x = m
        BY <2>3, <3>1, <3>2
      <4> HIDE DEF ats
      <4> QED  BY <3>1, <4>1, <4>2 DEF Max
    <3>5. ASSUME NEW n \in 1 .. Len(rest) - 1, rest[n + 1] = "@",
                 \A i \in n + 2 .. Len(rest) : rest[i] # "@"
          PROVE  n = m - 1
      <4>1. n + 1 \in ats
        BY <2>3, <3>5
      <4>2. n + 1 <= m
        BY <3>1, <4>1
      <4>3. ~(m \in n + 2 .. Len(rest))
        BY <3>2, <3>5
      <4> QED  BY <2>3, <3>2, <4>2, <4>3
    <3>6. m - 1 \in 1 .. Len(rest) - 1 /\ (m - 1) + 1 = m /\ (m - 1) + 2 = m + 1
      BY <2>3, <3>2
    <3>7. StandsFor(key, wanted, real) <=> real = SubSeq(rest, 1, m - 1)
      <4>1. ~ \A i \in 2 .. Len(rest) : rest[i] # "@"
        BY <3>2
      <4>2. real = SubSeq(rest, 1, m - 1) => StandsFor(key, wanted, real)
        BY <2>2, <3>2, <3>3, <3>6
      <4>3. ASSUME StandsFor(key, wanted, real) PROVE real = SubSeq(rest, 1, m - 1)
        <5>1. PICK n \in 1 .. Len(rest) - 1 :
                 /\ real = SubSeq(rest, 1, n) /\ rest[n + 1] = "@"
                 /\ \A i \in n + 2 .. Len(rest) : rest[i] # "@"
          BY <2>2, <4>1, <4>3
        <5> QED  BY <3>5, <5>1
      <4> QED  BY <4>2, <4>3
    <3> QED  BY <2>1, <2>5, <3>4, <3>7
  <2> QED  BY <2>4, <2>5
<1> QED  BY <1>1, <1>2

(* What readTs makes of a manifest is what npm makes of it.                *)
LEMMA TsNeeds ==
  ASSUME NEW pkg,
         \A s \in Sections : \A k \in DOMAIN pkg.sections[s] :
            pkg.sections[s][k] \in Seq(STRING)
  PROVE  NpmNeeds(ReadTs(pkg), pkg)
<1> DEFINE own == IdOf(NpmIds, pkg.name)
           Of(s, k) == IdOf(NpmIds, NpmName(k, pkg.sections[s][k]))
           runtime == UNION {{[name |-> NpmName(k, pkg.sections[s][k]),
                               optional |-> OptionalIn(pkg, k), at |-> <<s, k>>] :
                                 k \in DOMAIN pkg.sections[s]} : s \in RuntimeSections}
           dev == {NpmName(k, pkg.sections["devDependencies"][k]) :
                     k \in DOMAIN pkg.sections["devDependencies"]}
           listed == {d \in runtime : IdOf(NpmIds, d.name) \notin {None, own}}
           port == ReadTs(pkg)
<1>1. /\ port.id = own
      /\ port.runtime = {IdOf(NpmIds, d.name) : d \in listed}
      /\ port.optional = {i \in port.runtime :
                            \A d \in listed : IdOf(NpmIds, d.name) = i => d.optional}
      /\ port.dev = {IdOf(NpmIds, n) : n \in dev} \ (port.runtime \cup {None, own})
  BY DEF ReadTs, Fold
<1>2. ASSUME NEW s \in Sections, NEW k, NEW id, id # None
      PROVE  Declares(pkg, s, k, id) <=> k \in DOMAIN pkg.sections[s] /\ Of(s, k) = id
  <2>1. k \in DOMAIN pkg.sections[s] =>
          \A real : StandsFor(k, pkg.sections[s][k], real) <=> real = NpmName(k, pkg.sections[s][k])
    BY NameStandsFor
  <2> QED  BY <1>2, <2>1 DEF Declares, IdOf
<1>3. RuntimeSections \subseteq Sections /\ "devDependencies" \in Sections
      /\ RuntimeSections = {"dependencies", "peerDependencies", "optionalDependencies"}
  BY DEF RuntimeSections, Sections
<1>4. \A d : d \in runtime <=>
         \E s \in RuntimeSections : \E k \in DOMAIN pkg.sections[s] :
            d = [name |-> NpmName(k, pkg.sections[s][k]),
                 optional |-> OptionalIn(pkg, k), at |-> <<s, k>>]
  OBVIOUS
<1>5. \A id, k : id # None =>
         (k \in KeysOf(pkg, id) <=>
            \E s \in RuntimeSections : k \in DOMAIN pkg.sections[s] /\ Of(s, k) = id)
  BY <1>2, <1>3 DEF KeysOf
<1> HIDE DEF runtime, port
<1>6. ASSUME NEW id
      PROVE  id \in port.runtime <=>
               id \in Repositories \ {None, own} /\ KeysOf(pkg, id) # {}
  <2>1. id \in port.runtime <=>
           \E d \in runtime : IdOf(NpmIds, d.name) = id /\ id \notin {None, own}
    BY <1>1
  <2>2. (\E d \in runtime : IdOf(NpmIds, d.name) = id) <=>
           \E s \in RuntimeSections : \E k \in DOMAIN pkg.sections[s] : Of(s, k) = id
    <3>1. ASSUME NEW d \in runtime, IdOf(NpmIds, d.name) = id
          PROVE  \E s \in RuntimeSections : \E k \in DOMAIN pkg.sections[s] : Of(s, k) = id
      BY <1>4, <3>1
    <3>2. ASSUME NEW s \in RuntimeSections, NEW k \in DOMAIN pkg.sections[s], Of(s, k) = id
          PROVE  \E d \in runtime : IdOf(NpmIds, d.name) = id
      <4> DEFINE d == [name |-> NpmName(k, pkg.sections[s][k]),
                       optional |-> OptionalIn(pkg, k), at |-> <<s, k>>]
      <4>1. d \in runtime /\ IdOf(NpmIds, d.name) = id
        BY <1>4, <3>2
      <4> HIDE DEF d
      <4> QED  BY <4>1
    <3> QED  BY <3>1, <3>2
  <2>3. id # None => (KeysOf(pkg, id) # {} <=>
           \E s \in RuntimeSections : \E k \in DOMAIN pkg.sections[s] : Of(s, k) = id)
    BY <1>5
  <2>4. \A n : IdOf(NpmIds, n) # None => IdOf(NpmIds, n) \in Repositories
    BY DEF IdOf, Repositories
  <2> QED  BY <2>1, <2>2, <2>3, <2>4
<1>7. ASSUME NEW id, id # None, NEW k \in KeysOf(pkg, id)
      PROVE  OptionalIn(pkg, k) <=> ~Required(pkg, k)
  <2>1. \/ k \in DOMAIN pkg.sections["dependencies"]
        \/ k \in DOMAIN pkg.sections["peerDependencies"]
        \/ k \in DOMAIN pkg.sections["optionalDependencies"]
    <3>1. PICK s \in RuntimeSections : k \in DOMAIN pkg.sections[s]
      BY <1>5, <1>7
    <3> QED  BY <1>3, <3>1
  <2> QED  BY <2>1 DEF OptionalIn, Required
<1>8. ASSUME NEW id
      PROVE  id \in port.optional <=>
               id \in port.runtime /\ \A k \in KeysOf(pkg, id) : ~Required(pkg, k)
  <2>1. id \in port.optional <=>
           id \in port.runtime /\ \A d \in listed : IdOf(NpmIds, d.name) = id => d.optional
    BY <1>1
  <2> SUFFICES ASSUME id \in port.runtime
               PROVE  (\A d \in listed : IdOf(NpmIds, d.name) = id => d.optional)
                        <=> \A k \in KeysOf(pkg, id) : ~Required(pkg, k)
    BY <2>1
  <2>2. id \notin {None, own}
    BY <1>6
  <2>3. ASSUME \A d \in listed : IdOf(NpmIds, d.name) = id => d.optional,
               NEW k \in KeysOf(pkg, id)
        PROVE  ~Required(pkg, k)
    <3>1. PICK s \in RuntimeSections : k \in DOMAIN pkg.sections[s] /\ Of(s, k) = id
      BY <1>5, <2>2, <2>3
    <3> DEFINE d == [name |-> NpmName(k, pkg.sections[s][k]),
                     optional |-> OptionalIn(pkg, k), at |-> <<s, k>>]
    <3>2. d \in runtime /\ IdOf(NpmIds, d.name) = id /\ d.optional = OptionalIn(pkg, k)
      BY <1>4, <3>1
    <3> HIDE DEF d
    <3>3. OptionalIn(pkg, k)
      BY <2>2, <2>3, <3>2
    <3> QED  BY <1>7, <2>2, <2>3, <3>3
  <2>4. ASSUME \A k \in KeysOf(pkg, id) : ~Required(pkg, k),
               NEW d \in listed, IdOf(NpmIds, d.name) = id
        PROVE  d.optional
    <3>0. PICK s \in RuntimeSections : \E k \in DOMAIN pkg.sections[s] :
             d = [name |-> NpmName(k, pkg.sections[s][k]),
                  optional |-> OptionalIn(pkg, k), at |-> <<s, k>>]
      BY <1>4
    <3>1. PICK k \in DOMAIN pkg.sections[s] :
             d = [name |-> NpmName(k, pkg.sections[s][k]),
                  optional |-> OptionalIn(pkg, k), at |-> <<s, k>>]
      BY <3>0
    <3>2. k \in KeysOf(pkg, id)
      BY <1>5, <2>2, <2>4, <3>1
    <3>3. OptionalIn(pkg, k)
      BY <1>7, <2>2, <2>4, <3>2
    <3> QED  BY <3>1, <3>3
  <2> QED  BY <2>3, <2>4
<1>9. ASSUME NEW id
      PROVE  id \in port.dev <=>
               /\ id \in Repositories \ ({None, own} \cup port.runtime)
               /\ \E k \in DOMAIN pkg.sections["devDependencies"] :
                     Declares(pkg, "devDependencies", k, id)
  <2>1. id \in {IdOf(NpmIds, n) : n \in dev} <=>
           \E k \in DOMAIN pkg.sections["devDependencies"] : Of("devDependencies", k) = id
    OBVIOUS
  <2>2. ASSUME id # None
        PROVE  \A k \in DOMAIN pkg.sections["devDependencies"] :
                 Declares(pkg, "devDependencies", k, id) <=> Of("devDependencies", k) = id
    BY <1>2, <1>3, <2>2
  <2>3. \A n : IdOf(NpmIds, n) # None => IdOf(NpmIds, n) \in Repositories
    BY DEF IdOf, Repositories
  <2> HIDE DEF dev
  <2> QED  BY <1>1, <2>1, <2>2, <2>3
<1>10. port.runtime = {id \in Repositories \ {None, own} : KeysOf(pkg, id) # {}}
  BY <1>6
<1>11. port.optional = {id \in port.runtime : \A k \in KeysOf(pkg, id) : ~Required(pkg, k)}
  BY <1>8
<1>12. port.dev = {id \in (Repositories \ {None, own}) \ port.runtime :
                     \E k \in DOMAIN pkg.sections["devDependencies"] :
                       Declares(pkg, "devDependencies", k, id)}
  BY <1>9
<1>13. port.id = own
  BY <1>1
<1> QED  BY <1>10, <1>11, <1>12, <1>13 DEF NpmNeeds, port

(* The ts port is what readTs made of the manifest.                        *)
TsInv ==
  /\ repo \in Repos
  /\ "ts" \in Present =>
       /\ Has("ts") /\ TsUnderstood(repo.manifests.ts)
       /\ ports["ts"] = ReadTs(repo.manifests.ts)

LEMMA InitTs == DepsInit => TsInv
BY DEF DepsInit, TsInv, Present

(* A port that is read leaves the others as they are.                      *)
LEMMA OthersStay ==
  ASSUME TsInv, NEW name, name # "ts", NEW port, ReadPort(name, port)
  PROVE  TsInv'
<1>1. repo' = repo
  BY DEF ReadPort
<1>2. "ts" \in Present' => "ts" \in Present /\ ports'["ts"] = ports["ts"]
  BY DEF ReadPort, Present
<1> QED  BY <1>1, <1>2 DEF TsInv, Has

LEMMA StepTs == PortsInv /\ TsInv /\ [DepsNext]_depsVars => TsInv'
<1> SUFFICES ASSUME PortsInv, TsInv, [DepsNext]_depsVars PROVE TsInv'
  OBVIOUS
<1>1. ASSUME UNCHANGED <<repo, ports>> PROVE TsInv'
  BY <1>1 DEF TsInv, Present, Has
<1>2. CASE PackageJson
  <2>1. CASE TsUnderstood(repo.manifests.ts) /\ ReadPort("ts", ReadTs(repo.manifests.ts))
    <3>1. repo' = repo /\ ports'["ts"] = ReadTs(repo.manifests.ts)
      BY <2>1 DEF ReadPort
    <3>2. Has("ts")
      BY <1>2 DEF PackageJson, PortsInv
    <3> QED  BY <2>1, <3>1, <3>2 DEF TsInv, Has
  <2>2. CASE Exit(2)
    BY <1>1, <2>2 DEF Exit
  <2> QED  BY <1>2, <2>1, <2>2 DEF PackageJson
<1>3. CASE GoEnd
  BY <1>3, OthersStay DEF GoEnd
<1>4. CASE CargoEnd
  <2>1. CASE Exit(2)
    BY <1>1, <2>1 DEF Exit
  <2> QED  BY <1>4, <2>1, OthersStay DEF CargoEnd
<1>5. CASE \/ Main \/ GoModLine \/ GoModEnd \/ NextFile \/ GoHeaderLine \/ GoHeaderEnd
           \/ GoToken \/ GoFileEnd \/ CargoStatement \/ Unreadable
           \/ ReadRegister \/ Compare \/ Verdict \/ Ended \/ UNCHANGED depsVars
  <2>1. UNCHANGED <<repo, ports>>
    BY <1>5 DEF Main, GoModLine, GoModEnd, NextFile, GoHeaderLine, GoHeaderEnd, GoToken,
       GoFileEnd, CargoStatement, Unreadable, ReadRegister, Compare, Verdict, Ended, Reading,
       Exit, depsVars
  <2> QED  BY <1>1, <2>1
<1> QED  BY <1>2, <1>3, <1>4, <1>5 DEF DepsNext

(* Before the ts port is read nothing has failed, and where it is read it  *)
(* stays.                                                                  *)
TakenInv ==
  /\ running \in {"main", "ts"} => reader.ok
  /\ repo.directory /\ Has("ts") /\ running \notin {"main", "ts"}
       /\ TsUnderstood(repo.manifests.ts)
     => "ts" \in Present

LEMMA InitTaken == DepsInit => TakenInv
BY DEF DepsInit, TakenInv, Idle

\* What the next port is entered with.
LEMMA EntersWhole ==
  ASSUME NEW port \in {"none", "ts", "go", "rs"}, EnterAfter(port)
  PROVE  /\ running' \in {"main", "ts"} => reader'.ok
         /\ port = "none" /\ Has("ts") => running' = "ts"
<1>1. Later["none"] = {"ts", "go", "rs"} /\ Later["ts"] = {"go", "rs"}
      /\ Later["go"] = {"rs"} /\ Later["rs"] = {}
  BY DEF Later
<1>2. CASE running' = "register"
  BY <1>1, <1>2 DEF EnterAfter, Enter
<1>3. ASSUME NEW p \in {q \in Later[port] : Has(q)}, Enter(p),
             \A q \in {q \in Later[port] : Has(q)} \ {p} : q \in Later[p]
      PROVE  /\ running' \in {"main", "ts"} => reader'.ok
             /\ port = "none" /\ Has("ts") => running' = "ts"
  <2>1. running' = p /\ p \in {"ts", "go", "rs"}
    BY <1>1, <1>3 DEF Enter
  <2>2. p = "ts" => reader' = Idle
    BY <1>3 DEF Enter
  <2>3. port = "none" /\ Has("ts") => p = "ts"
    BY <1>1, <1>3, <2>1
  <2> QED  BY <2>1, <2>2, <2>3 DEF Idle
<1>4. \/ {q \in Later[port] : Has(q)} = {} /\ running' = "register" /\ reader' = Idle
      \/ \E p \in {q \in Later[port] : Has(q)} :
           (\A q \in {q \in Later[port] : Has(q)} \ {p} : q \in Later[p]) /\ Enter(p)
  BY DEF EnterAfter
<1>5. CASE {q \in Later[port] : Has(q)} = {} /\ running' = "register" /\ reader' = Idle
  BY <1>1, <1>5
<1> QED  BY <1>3, <1>4, <1>5

LEMMA StepTaken == PortsInv /\ TakenInv /\ [DepsNext]_depsVars => TakenInv'
<1> SUFFICES ASSUME PortsInv, TakenInv, [DepsNext]_depsVars PROVE TakenInv'
  OBVIOUS
<1>1. ASSUME UNCHANGED <<repo, ports>>, running \notin {"main", "ts"},
             running' \notin {"main", "ts"}
      PROVE  TakenInv'
  BY <1>1 DEF TakenInv, Present, Has
<1>2. ASSUME NEW name \in {"ts", "go", "rs"}, NEW port, ReadPort(name, port),
             running = "ts" => name = "ts", running # "main"
      PROVE  TakenInv'
  <2>1. repo' = repo /\ Present' = Present \cup {name}
    BY <1>2 DEF ReadPort, Present
  <2>2. running' \in {"main", "ts"} => reader'.ok
    BY <1>2, EntersWhole DEF ReadPort
  <2>3. "ts" \in Present \/ running = "ts" => "ts" \in Present'
    BY <1>2, <2>1
  <2> QED  BY <1>2, <2>1, <2>2, <2>3 DEF TakenInv, Has
<1>3. CASE Main
  <2>1. CASE ~repo.directory /\ Exit(2)
    BY <2>1 DEF TakenInv, Exit
  <2>2. CASE EnterAfter("none") /\ UNCHANGED <<repo, ports>>
    BY <2>2, EntersWhole DEF TakenInv, Has
  <2> QED  BY <1>3, <2>1, <2>2 DEF Main
<1>4. CASE PackageJson
  <2>1. CASE ~TsUnderstood(repo.manifests.ts) /\ Exit(2)
    BY <2>1 DEF TakenInv, Exit
  <2> QED  BY <1>2, <1>4, <2>1 DEF PackageJson
<1>5. CASE GoEnd
  BY <1>2, <1>5 DEF GoEnd
<1>6. CASE CargoEnd
  <2>1. CASE Exit(2)
    BY <1>1, <1>6, <2>1 DEF Exit, CargoEnd
  <2> QED  BY <1>2, <1>6, <2>1 DEF CargoEnd
<1>7. CASE Unreadable
  BY <1>1, <1>7 DEF Unreadable, Exit, TakenInv
<1>8. CASE \/ GoModLine \/ GoHeaderLine \/ GoToken \/ CargoStatement
  BY <1>1, <1>8 DEF GoModLine, GoHeaderLine, GoToken, CargoStatement, Reading
<1>9. CASE GoModEnd \/ NextFile \/ GoHeaderEnd \/ GoFileEnd
  BY <1>1, <1>9 DEF GoModEnd, NextFile, GoHeaderEnd, GoFileEnd, Exit
<1>10. CASE ReadRegister \/ Compare \/ Verdict
  BY <1>1, <1>10 DEF ReadRegister, Compare, Verdict, Exit
<1>11. CASE Ended \/ UNCHANGED depsVars
  <2>1. UNCHANGED <<repo, ports, running, reader>>
    BY <1>11 DEF Ended, depsVars
  <2> QED  BY <2>1 DEF TakenInv, Present, Has
<1> QED
  BY <1>3, <1>4, <1>5, <1>6, <1>7, <1>8, <1>9, <1>10, <1>11 DEF DepsNext

(* Whatever ts/package.json holds, the ts port is said to need what npm    *)
(* would install, aliases resolved: as optional exactly what no key that   *)
(* stands for it requires, as dev what only development asks for; and the  *)
(* port is read wherever the manifest has its proper shape (readTs).       *)
THEOREM NpmNeedsAreRead == DepsSpec => []NpmDependenciesAreTheDeclared
<1>1. TsInv /\ TakenInv => NpmDependenciesAreTheDeclared
  <2> SUFFICES ASSUME TsInv, TakenInv PROVE NpmDependenciesAreTheDeclared
    OBVIOUS
  <2>1. "ts" \in Present => NpmNeeds(ports["ts"], repo.manifests.ts)
    BY TsNeeds, ReposAssumption DEF TsInv, Has
  <2> QED  BY <2>1 DEF NpmDependenciesAreTheDeclared, TsInv, TakenInv
<1> QED
  BY <1>1, InitTs, StepTs, InitPorts, StepPorts, InitTaken, StepTaken, PTL DEF DepsSpec
==============================================================================
