---------------------------- MODULE ScannersProofs ----------------------------
(* The guard answers what is specified, an unquoted key is taken exactly     *)
(* when it is a name, an uppercase hexadecimal literal is rounded once, and  *)
(* a string with a continuation is read as the literal it is: for every      *)
(* source, key, literal and string, and every width of the machine.          *)
EXTENDS Scanners, SequenceTheorems, WellFoundedInduction, TLAPS

(* A set of numbers that is not empty has a least one.                       *)
LEMMA LeastNumber ==
  ASSUME NEW T \in SUBSET Nat, T # {}
  PROVE  \E x \in T : \A y \in T : x <= y
<1>1. PICK x \in T : \A y \in T : ~ (<<y, x>> \in OpToRel(<, Nat))
  BY NatLessThanWellFounded, WFMin
<1>2. \A y \in T : ~(y < x)
  BY <1>1 DEF OpToRel
<1>. QED
  BY <1>2

(* A set of numbers up to a bound that is not empty has a greatest one.      *)
LEMMA GreatestNumber ==
  ASSUME NEW top \in Nat, NEW T \in SUBSET (1 .. top), T # {}
  PROVE  \E x \in T : \A y \in T : y <= x
<1> DEFINE R == {top - y : y \in T}
<1>1. R \in SUBSET Nat /\ R # {}
  <2>1. \A y \in T : top - y \in Nat
    OBVIOUS
  <2>. QED
    BY <2>1
<1>2. PICK r \in R : \A y \in R : r <= y
  <2> HIDE DEF R
  <2>. QED
    BY <1>1, LeastNumber
<1>3. PICK x \in T : r = top - x
  BY <1>2
<1>4. \A y \in T : top - x <= top - y
  BY <1>2, <1>3
<1>. QED
  BY <1>4

(* What a function that looks only ahead of itself is: one exists, whatever  *)
(* stops it, whatever it looks at and whatever it makes of what it finds     *)
(* there.                                                                    *)
LooksAhead(f, low, top, ends, adds, next, turn) ==
    f = [p \in low .. top |-> IF p \in ends THEN adds[p] ELSE turn[p][f[next[p]]]]

LEMMA AheadExists ==
  ASSUME NEW top \in Nat, NEW V, NEW ends, NEW adds, NEW next, NEW turn,
         \A p \in 1 .. top : p \in ends => adds[p] \in V,
         \A p \in 1 .. top : p \notin ends => next[p] \in p + 1 .. top /\ turn[p] \in [V -> V]
  PROVE  \E f : /\ LooksAhead(f, 1, top, ends, adds, next, turn)
                /\ \A p \in 1 .. top : f[p] \in V
<1> DEFINE Good(low) == \E f : /\ LooksAhead(f, low, top, ends, adds, next, turn)
                               /\ \A p \in low .. top : f[p] \in V
           T == {m \in Nat \ {0} : m <= top + 1 /\ Good(m)}
<1>1. top + 1 \in T
  <2> DEFINE f == [p \in {} |-> 0]
  <2>1. top + 1 \in Nat \ {0} /\ top + 1 .. top = {}
    OBVIOUS
  <2>2. f = [p \in top + 1 .. top |-> IF p \in ends THEN adds[p] ELSE turn[p][f[next[p]]]]
    BY <2>1
  <2>3. LooksAhead(f, top + 1, top, ends, adds, next, turn)
    BY <2>2 DEF LooksAhead
  <2>4. \A p \in top + 1 .. top : f[p] \in V
    BY <2>1
  <2> HIDE DEF f
  <2>5. Good(top + 1)
    BY <2>3, <2>4
  <2> HIDE DEF Good
  <2>. QED
    BY <2>1, <2>5
<1> HIDE DEF Good
<1>2. PICK m \in T : \A k \in T : m <= k
  <2>1. T \in SUBSET Nat /\ T # {}
    BY <1>1
  <2> HIDE DEF T
  <2>. QED
    BY <2>1, LeastNumber
<1>3. CASE m = 1
  BY <1>2, <1>3 DEF Good
<1>4. CASE m # 1
  <2> DEFINE low == m - 1
  <2>1. low \in 1 .. top /\ m = low + 1 /\ Good(m) /\ m \in Nat
    BY <1>2, <1>4
  <2>2. PICK f : /\ LooksAhead(f, m, top, ends, adds, next, turn)
                 /\ \A p \in m .. top : f[p] \in V
    BY <2>1 DEF Good
  <2> HIDE DEF low
  <2> DEFINE there == IF low \in ends THEN adds[low] ELSE turn[low][f[next[low]]]
             g == [p \in low .. top |-> IF p = low THEN there ELSE f[p]]
  <2>3. /\ low \in low .. top
        /\ \A p \in low .. top : p = low \/ p \in m .. top
        /\ \A p \in m .. top : p \in low .. top /\ p # low
        /\ \A p \in low .. top : p \in 1 .. top
    BY <2>1
  <2>4. \A p \in low .. top : p \notin ends => next[p] \in m .. top
    <3> SUFFICES ASSUME NEW p \in low .. top, p \notin ends PROVE next[p] \in m .. top
      OBVIOUS
    <3>1. next[p] \in p + 1 .. top
      BY <2>3
    <3>. QED
      BY <2>1, <3>1
  <2>5. /\ \A p \in m .. top : g[p] = f[p]
        /\ g[low] = there
    BY <2>3
  <2>6. g = [p \in low .. top |-> g[p]]
    OBVIOUS
  <2>7. \A p \in m .. top : f[p] = IF p \in ends THEN adds[p] ELSE turn[p][f[next[p]]]
    BY <2>2 DEF LooksAhead
  <2>8. there \in V
    <3>1. CASE low \in ends
      BY <2>1, <3>1
    <3>2. CASE low \notin ends
      BY <2>1, <2>2, <2>3, <2>4, <3>2
    <3>. QED
      BY <3>1, <3>2
  <2> HIDE DEF g
  <2>9. \A p \in low .. top : g[p] = IF p \in ends THEN adds[p] ELSE turn[p][g[next[p]]]
    <3> SUFFICES ASSUME NEW p \in low .. top
                 PROVE  g[p] = IF p \in ends THEN adds[p] ELSE turn[p][g[next[p]]]
      OBVIOUS
    <3>1. p \notin ends => g[next[p]] = f[next[p]]
      BY <2>4, <2>5
    <3>2. CASE p = low
      BY <2>5, <3>1, <3>2
    <3>3. CASE p \in m .. top
      BY <2>5, <2>7, <3>1, <3>3
    <3>. QED
      BY <2>3, <3>2, <3>3
  <2>10. LooksAhead(g, low, top, ends, adds, next, turn)
    BY <2>6, <2>9 DEF LooksAhead
  <2>11. \A p \in low .. top : g[p] \in V
    <3> HIDE DEF there
    <3>. QED
      BY <2>2, <2>3, <2>5, <2>8
  <2>12. low \in T
    BY <2>1, <2>10, <2>11 DEF Good
  <2>. QED
    BY <1>2, <2>1, <2>12
<1>. QED
  BY <1>3, <1>4

-----------------------------------------------------------------------------
(* The guard in front of a source that may hold no value.                    *)

Chars == {"sp", "LF", "/", "*", "#", "v"}
Kinds == {"none", "value", "unexpected", "unterminated_comment"}

(* The first of some numbers.                                                *)
LEMMA FirstIs ==
  ASSUME NEW S \in SUBSET Nat, S # {}
  PROVE  Guards!First(S) \in S /\ \A j \in S : Guards!First(S) <= j
<1>1. \E x \in S : \A y \in S : x <= y
  BY LeastNumber
<1>. QED
  BY <1>1 DEF Guards!First

(* A comment's end lies behind its beginning.                                *)
LEMMA EndsAreBehind ==
  ASSUME src \in Seq(Chars), NEW p \in 1 .. Len(src)
  PROVE  /\ Guards!LinesEnds(p) # {} =>
                Guards!First(Guards!LinesEnds(p)) \in p .. Len(src) /\ src[Guards!First(Guards!LinesEnds(p))] = "LF"
         /\ Guards!EndsIn(src, p + 2) # {} => Guards!First(Guards!EndsIn(src, p + 2)) \in p + 2 .. Len(src) - 1
<1>1. Len(src) \in Nat
  BY LenProperties
<1>2. Guards!LinesEnds(p) \in SUBSET Nat /\ Guards!EndsIn(src, p + 2) \in SUBSET Nat
  BY <1>1 DEF Guards!LinesEnds, Guards!EndsIn
<1>3. ASSUME Guards!LinesEnds(p) # {}
      PROVE  Guards!First(Guards!LinesEnds(p)) \in p .. Len(src) /\ src[Guards!First(Guards!LinesEnds(p))] = "LF"
  <2>1. Guards!First(Guards!LinesEnds(p)) \in Guards!LinesEnds(p)
    BY <1>2, <1>3, FirstIs
  <2>. QED
    BY <2>1 DEF Guards!LinesEnds
<1>4. ASSUME Guards!EndsIn(src, p + 2) # {}
      PROVE  Guards!First(Guards!EndsIn(src, p + 2)) \in p + 2 .. Len(src) - 1
  <2>1. Guards!First(Guards!EndsIn(src, p + 2)) \in Guards!EndsIn(src, p + 2)
    BY <1>2, <1>4, FirstIs
  <2>. QED
    BY <2>1 DEF Guards!EndsIn
<1>. QED
  BY <1>3, <1>4

LineAt(hashes, p) ==
    (src[p] = "#" /\ hashes) \/ (src[p] = "/" /\ p < Len(src) /\ src[p + 1] = "/")

BlockAt(p) == src[p] = "/" /\ p < Len(src) /\ src[p + 1] = "*"

(* The tokens are the recursion they are written as.                         *)
LEMMA TokensUnfold ==
  ASSUME src \in Seq(Chars), NEW hashes \in BOOLEAN, NEW p \in 1 .. Len(src) + 2
  PROVE  Guards!Tokens(hashes)[p] =
           IF p > Len(src) THEN "none"
           ELSE IF src[p] \in Guards!Spaces THEN Guards!Tokens(hashes)[p + 1]
           ELSE IF LineAt(hashes, p)
                THEN IF Guards!LinesEnds(p) = {} THEN "none" ELSE Guards!Tokens(hashes)[Guards!First(Guards!LinesEnds(p))]
           ELSE IF BlockAt(p)
                THEN IF Guards!EndsIn(src, p + 2) = {} THEN "unterminated_comment"
                     ELSE Guards!Tokens(hashes)[Guards!First(Guards!EndsIn(src, p + 2)) + 2]
           ELSE IF src[p] = "v" THEN "value" ELSE "unexpected"
<1> DEFINE top == Len(src) + 2
           Body(f, k) ==
             IF k > Len(src) THEN "none"
             ELSE IF src[k] \in Guards!Spaces THEN f[k + 1]
             ELSE IF LineAt(hashes, k)
                  THEN IF Guards!LinesEnds(k) = {} THEN "none" ELSE f[Guards!First(Guards!LinesEnds(k))]
             ELSE IF BlockAt(k)
                  THEN IF Guards!EndsIn(src, k + 2) = {} THEN "unterminated_comment"
                       ELSE f[Guards!First(Guards!EndsIn(src, k + 2)) + 2]
             ELSE IF src[k] = "v" THEN "value" ELSE "unexpected"
           Stops(k) ==
             \/ k > Len(src)
             \/ /\ src[k] \notin Guards!Spaces
                /\ IF LineAt(hashes, k) THEN Guards!LinesEnds(k) = {}
                   ELSE BlockAt(k) => Guards!EndsIn(src, k + 2) = {}
           ends == {k \in 1 .. top : Stops(k)}
           adds == [k \in 1 .. top |->
                      IF k > Len(src) \/ LineAt(hashes, k) THEN "none"
                      ELSE IF BlockAt(k) THEN "unterminated_comment"
                      ELSE IF src[k] = "v" THEN "value" ELSE "unexpected"]
           next == [k \in 1 .. top |->
                      IF src[k] \in Guards!Spaces THEN k + 1
                      ELSE IF LineAt(hashes, k) THEN Guards!First(Guards!LinesEnds(k))
                      ELSE Guards!First(Guards!EndsIn(src, k + 2)) + 2]
           turn == [k \in 1 .. top |-> [v \in Kinds |-> v]]
<1>0. Len(src) \in Nat /\ top \in Nat /\ \A k \in 1 .. top : k <= Len(src) => k \in 1 .. Len(src)
  BY LenProperties
<1>1. \A k \in 1 .. top : k \in ends => adds[k] \in Kinds
  BY DEF Kinds
<1>2. \A k \in 1 .. top : k \notin ends => next[k] \in k + 1 .. top /\ turn[k] \in [Kinds -> Kinds]
  <2> SUFFICES ASSUME NEW k \in 1 .. top, k \notin ends PROVE next[k] \in k + 1 .. top
    OBVIOUS
  <2>1. k \in 1 .. Len(src) /\ ~ Stops(k)
    BY <1>0
  <2>2. CASE src[k] \in Guards!Spaces
    BY <1>0, <2>1, <2>2
  <2>3. CASE src[k] \notin Guards!Spaces /\ LineAt(hashes, k)
    <3>1. next[k] = Guards!First(Guards!LinesEnds(k)) /\ Guards!LinesEnds(k) # {}
      BY <2>1, <2>3
    <3>2. Guards!First(Guards!LinesEnds(k)) \in k .. Len(src) /\ src[Guards!First(Guards!LinesEnds(k))] = "LF"
      BY <2>1, <3>1, EndsAreBehind
    <3>3. Guards!First(Guards!LinesEnds(k)) # k
      BY <2>3, <3>2 DEF Guards!Spaces
    <3> HIDE DEF next
    <3>. QED
      BY <1>0, <3>1, <3>2, <3>3
  <2>4. CASE src[k] \notin Guards!Spaces /\ ~ LineAt(hashes, k)
    <3>1. next[k] = Guards!First(Guards!EndsIn(src, k + 2)) + 2 /\ Guards!EndsIn(src, k + 2) # {}
      BY <2>1, <2>4
    <3>2. Guards!First(Guards!EndsIn(src, k + 2)) \in k + 2 .. Len(src) - 1
      BY <2>1, <3>1, EndsAreBehind
    <3> HIDE DEF next
    <3>. QED
      BY <1>0, <3>1, <3>2
  <2>. QED
    BY <2>2, <2>3, <2>4
<1>3. PICK f : /\ LooksAhead(f, 1, top, ends, adds, next, turn)
               /\ \A k \in 1 .. top : f[k] \in Kinds
  <2> HIDE DEF top, ends, adds, next, turn
  <2>. QED
    BY <1>0, <1>1, <1>2, AheadExists
<1>4. f = [k \in 1 .. top |-> Body(f, k)]
  <2>1. f = [k \in 1 .. top |-> IF k \in ends THEN adds[k] ELSE turn[k][f[next[k]]]]
    BY <1>3 DEF LooksAhead
  <2>2. ASSUME NEW k \in 1 .. top
        PROVE  (IF k \in ends THEN adds[k] ELSE turn[k][f[next[k]]]) = Body(f, k)
    <3>1. CASE k \in ends
      BY <3>1
    <3>2. CASE k \notin ends
      <4>1. next[k] \in 1 .. top
        <5>1. next[k] \in k + 1 .. top
          BY <1>2, <3>2
        <5> HIDE DEF next, top
        <5>. QED
          BY <5>1
      <4>2. turn[k][f[next[k]]] = f[next[k]]
        BY <1>3, <4>1
      <4>. QED
        BY <3>2, <4>2
    <3>. QED
      BY <3>1, <3>2
  <2> HIDE DEF ends, adds, next, turn, Body
  <2>. QED
    BY <2>1, <2>2
<1>5. Guards!Tokens(hashes) = CHOOSE g : g = [k \in 1 .. top |-> Body(g, k)]
  BY DEF Guards!Tokens, LineAt, BlockAt
<1> HIDE DEF Body
<1>6. Guards!Tokens(hashes) = [k \in 1 .. top |-> Body(Guards!Tokens(hashes), k)]
  BY <1>4, <1>5
<1>7. Guards!Tokens(hashes)[p] = Body(Guards!Tokens(hashes), p)
  BY <1>6
<1>. QED
  BY <1>7 DEF Body

(* What a line comment from a place on leaves.                               *)
AfterLine(hashes, p) ==
    IF Guards!LinesEnds(p) = {} THEN "none" ELSE Guards!Tokens(hashes)[Guards!First(Guards!LinesEnds(p))]

(* The first token from a place on, by what stands there.                    *)
LEMMA TokensFrom ==
  ASSUME src \in Seq(Chars), NEW hashes \in BOOLEAN, NEW p \in 1 .. Len(src)
  PROVE  /\ src[p] \in Guards!Spaces => Guards!Tokens(hashes)[p] = Guards!Tokens(hashes)[p + 1]
         /\ LineAt(hashes, p) => Guards!Tokens(hashes)[p] = AfterLine(hashes, p)
         /\ BlockAt(p) /\ Guards!EndsIn(src, p + 2) # {} =>
              Guards!Tokens(hashes)[p] = Guards!Tokens(hashes)[Guards!First(Guards!EndsIn(src, p + 2)) + 2]
         /\ BlockAt(p) /\ Guards!EndsIn(src, p + 2) = {} => Guards!Tokens(hashes)[p] = "unterminated_comment"
         /\ src[p] \notin Guards!Spaces /\ ~ LineAt(hashes, p) /\ ~ BlockAt(p) =>
              Guards!Tokens(hashes)[p] \in {"value", "unexpected"}
<1>1. p \in 1 .. Len(src) + 2 /\ ~ (p > Len(src))
  BY LenProperties
<1>2. LineAt(hashes, p) => src[p] \notin Guards!Spaces /\ ~ BlockAt(p)
  BY DEF LineAt, BlockAt, Guards!Spaces
<1>3. BlockAt(p) => src[p] \notin Guards!Spaces /\ ~ LineAt(hashes, p)
  BY <1>2 DEF BlockAt, Guards!Spaces
<1> DEFINE T == Guards!Tokens(hashes)
<1>4. T[p] = IF p > Len(src) THEN "none"
             ELSE IF src[p] \in Guards!Spaces THEN T[p + 1]
             ELSE IF LineAt(hashes, p)
                  THEN IF Guards!LinesEnds(p) = {} THEN "none" ELSE T[Guards!First(Guards!LinesEnds(p))]
             ELSE IF BlockAt(p)
                  THEN IF Guards!EndsIn(src, p + 2) = {} THEN "unterminated_comment"
                       ELSE T[Guards!First(Guards!EndsIn(src, p + 2)) + 2]
             ELSE IF src[p] = "v" THEN "value" ELSE "unexpected"
  BY <1>1, TokensUnfold
<1> HIDE DEF T
<1>5. /\ src[p] \in Guards!Spaces => T[p] = T[p + 1]
      /\ LineAt(hashes, p) =>
           T[p] = IF Guards!LinesEnds(p) = {} THEN "none" ELSE T[Guards!First(Guards!LinesEnds(p))]
      /\ BlockAt(p) /\ Guards!EndsIn(src, p + 2) # {} => T[p] = T[Guards!First(Guards!EndsIn(src, p + 2)) + 2]
      /\ BlockAt(p) /\ Guards!EndsIn(src, p + 2) = {} => T[p] = "unterminated_comment"
      /\ src[p] \notin Guards!Spaces /\ ~ LineAt(hashes, p) /\ ~ BlockAt(p) =>
           T[p] \in {"value", "unexpected"}
  BY <1>1, <1>2, <1>3, <1>4, Zenon
<1>. QED
  BY <1>5 DEF AfterLine, T

(* Past the last character there is no token.                                *)
LEMMA NothingBehind ==
  ASSUME src \in Seq(Chars), NEW hashes \in BOOLEAN
  PROVE  \A p \in Len(src) + 1 .. Len(src) + 2 : Guards!Tokens(hashes)[p] = "none"
<1>. SUFFICES ASSUME NEW p \in Len(src) + 1 .. Len(src) + 2 PROVE Guards!Tokens(hashes)[p] = "none"
  OBVIOUS
<1>1. p \in 1 .. Len(src) + 2 /\ p > Len(src)
  BY LenProperties
<1>. QED
  BY <1>1, TokensUnfold

(* Where the slash comments alone leave nothing, the hash comments leave     *)
(* nothing either.                                                           *)
LEMMA HashOnly ==
  ASSUME src \in Seq(Chars), Guards!Tokens(FALSE)[1] = "none"
  PROVE  Guards!Tokens(TRUE)[1] = "none"
<1> DEFINE top == Len(src) + 2
           Bad == {j \in 1 .. top : Guards!Tokens(FALSE)[j] = "none" /\ Guards!Tokens(TRUE)[j] # "none"}
<1>0. Len(src) \in Nat /\ top \in Nat /\ 1 \in 1 .. top
  BY LenProperties
<1>1. SUFFICES ASSUME Bad # {} PROVE FALSE
  BY <1>0
<1>2. PICK x \in Bad : \A y \in Bad : y <= x
  <2>1. Bad \in SUBSET (1 .. top)
    OBVIOUS
  <2> HIDE DEF Bad, top
  <2>. QED
    BY <1>0, <1>1, <2>1, GreatestNumber
<1>3. ASSUME NEW y \in 1 .. top, y > x
      PROVE  Guards!Tokens(FALSE)[y] = "none" => Guards!Tokens(TRUE)[y] = "none"
  <2>1. y \notin Bad
    <3>1. x \in 1 .. top
      BY <1>2
    <3> HIDE DEF Bad, top
    <3>. QED
      BY <1>0, <1>2, <1>3, <3>1
  <2>. QED
    BY <2>1
<1>4. x \in 1 .. Len(src) /\ Guards!Tokens(FALSE)[x] = "none" /\ Guards!Tokens(TRUE)[x] # "none"
  <2>1. x \in 1 .. Len(src) + 2 /\ Guards!Tokens(FALSE)[x] = "none" /\ Guards!Tokens(TRUE)[x] # "none"
    BY <1>2
  <2>2. x \notin Len(src) + 1 .. Len(src) + 2
    BY <2>1, NothingBehind
  <2>3. \A n \in Nat : \A z \in 1 .. n + 2 : z \notin n + 1 .. n + 2 => z \in 1 .. n
    OBVIOUS
  <2>. QED
    BY <1>0, <2>1, <2>2, <2>3, Zenon
<1> HIDE DEF Bad
<1>6. CASE src[x] \in Guards!Spaces
  <2>1. Guards!Tokens(FALSE)[x + 1] = "none" /\ Guards!Tokens(TRUE)[x + 1] # "none"
    BY <1>4, <1>6, TokensFrom
  <2>2. x + 1 \in 1 .. top /\ x + 1 > x
    BY <1>0, <1>4
  <2>. QED
    BY <1>3, <2>1, <2>2
<1>7. CASE LineAt(TRUE, x)
  <2>1. LineAt(FALSE, x)
    <3>1. src[x] = "#" => src[x] \notin Guards!Spaces /\ ~ LineAt(FALSE, x) /\ ~ BlockAt(x)
      BY DEF Guards!Spaces, LineAt, BlockAt
    <3>2. src[x] # "#"
      BY <1>4, <3>1, TokensFrom
    <3>. QED
      BY <1>7, <3>2 DEF LineAt
  <2>2. AfterLine(FALSE, x) = "none" /\ AfterLine(TRUE, x) # "none"
    BY <1>4, <1>7, <2>1, TokensFrom
  <2>3. Guards!LinesEnds(x) # {}
    BY <2>2 DEF AfterLine
  <2> DEFINE e == Guards!First(Guards!LinesEnds(x))
  <2>4. Guards!Tokens(FALSE)[e] = "none" /\ Guards!Tokens(TRUE)[e] # "none"
    BY <2>2, <2>3 DEF AfterLine
  <2>5. e \in x .. Len(src) /\ src[e] = "LF"
    BY <1>4, <2>3, EndsAreBehind
  <2>6. e # x
    BY <1>7, <2>5 DEF LineAt
  <2> HIDE DEF e
  <2>7. e \in 1 .. top /\ e > x
    BY <1>0, <1>4, <2>5, <2>6
  <2>. QED
    BY <1>3, <2>4, <2>7
<1>8. CASE BlockAt(x)
  <2> DEFINE e == Guards!First(Guards!EndsIn(src, x + 2)) + 2
  <2>1. Guards!EndsIn(src, x + 2) # {}
    BY <1>4, <1>8, TokensFrom
  <2>2. Guards!Tokens(FALSE)[e] = "none" /\ Guards!Tokens(TRUE)[e] # "none"
    BY <1>4, <1>8, <2>1, TokensFrom
  <2>3. Guards!First(Guards!EndsIn(src, x + 2)) \in x + 2 .. Len(src) - 1
    BY <1>4, <2>1, EndsAreBehind
  <2>4. e \in 1 .. top /\ e > x
    BY <1>0, <1>4, <2>3
  <2> HIDE DEF e
  <2>. QED
    BY <1>3, <2>2, <2>4
<1>9. CASE src[x] \notin Guards!Spaces /\ ~ LineAt(TRUE, x) /\ ~ BlockAt(x)
  <2>1. ~ LineAt(FALSE, x)
    BY <1>9 DEF LineAt
  <2>. QED
    BY <1>4, <1>9, <2>1, TokensFrom
<1>. QED
  BY <1>6, <1>7, <1>8, <1>9

-----------------------------------------------------------------------------
(* Where a guard stands: what it was handed, and how far its scan has come   *)
(* past trivia.                                                              *)

(* Only a guard that found no value hands on less than it was given.         *)
Handed ==
  /\ src \in Seq(Chars) /\ port \in {"ts", "go", "rs"}
  /\ options \in [requireValue : BOOLEAN, hashComment : BOOLEAN]
  /\ guards \in {1, 2} /\ (guards > 1 => port = "ts")
  /\ given # src => given = <<>> /\ Guards!Found = "none" /\ ~ options.requireValue

(* A scan reads by the comments its caller names, and what the lexer would   *)
(* find first is still before it.                                            *)
Scans ==
  /\ given = src /\ src # <<>>
  /\ at \in 1 .. Len(src) + 1
  /\ hash = (~ options.requireValue /\ options.hashComment)
  /\ ~ options.requireValue => port # "go"
  /\ pc = "scan" => Guards!Tokens(hash)[1] = Guards!Tokens(hash)[at]
  /\ pc = "line" => Guards!Tokens(hash)[1] = AfterLine(hash, at)

GInv ==
  /\ Handed
  /\ pc \in {"guard", "scan", "line", "answered"}
  /\ pc = "guard" => at = 1 /\ hash = FALSE
  /\ pc \in {"scan", "line"} => Scans
  /\ Guards!AnswersAreTheSpecified

(* A character and the one behind it.                                        *)
LEMMA CharIs ==
  ASSUME src \in Seq(Chars), given = src, NEW p \in 1 .. Len(src) + 1
  PROVE  /\ p \in 1 .. Len(src) => Guards!Char(p) = src[p] /\ src[p] \in Chars
         /\ p \notin 1 .. Len(src) => Guards!Char(p) = "end" /\ p = Len(src) + 1
         /\ Guards!Char(p + 1) # "end" => p + 1 \in 1 .. Len(src) /\ Guards!Char(p + 1) = src[p + 1]
<1>1. Len(src) \in Nat /\ src \in [1 .. Len(src) -> Chars]
  BY LenProperties
<1>2. \A n \in Nat : \A z \in 1 .. n + 1 :
        /\ z \in 1 .. n => z <= n
        /\ z \notin 1 .. n => z = n + 1 /\ ~ (z <= n)
        /\ z + 1 <= n => z + 1 \in 1 .. n
  OBVIOUS
<1>3. /\ p \in 1 .. Len(src) => p <= Len(src)
      /\ p \notin 1 .. Len(src) => p = Len(src) + 1 /\ ~ (p <= Len(src))
      /\ p + 1 <= Len(src) => p + 1 \in 1 .. Len(src)
  BY <1>1, <1>2, Zenon
<1>4. /\ Guards!Char(p) = IF p <= Len(src) THEN src[p] ELSE "end"
      /\ Guards!Char(p + 1) = IF p + 1 <= Len(src) THEN src[p + 1] ELSE "end"
  BY DEF Guards!Char
<1>5. p \in 1 .. Len(src) => src[p] \in Chars
  BY <1>1
<1>. QED
  BY <1>3, <1>4, <1>5, Zenon

(* What the scan sees is what the lexer sees.                                *)
LEMMA SeesTheSame ==
  ASSUME src \in Seq(Chars), given = src, NEW p \in 1 .. Len(src) + 1, NEW hashes \in BOOLEAN
  PROVE  /\ (hashes /\ Guards!Char(p) = "#") \/ (Guards!Char(p) = "/" /\ Guards!Char(p + 1) = "/") =>
                p \in 1 .. Len(src) /\ LineAt(hashes, p)
         /\ Guards!Char(p) = "/" /\ Guards!Char(p + 1) = "*" => p \in 1 .. Len(src) /\ BlockAt(p)
         /\ (/\ Guards!Char(p) \notin Guards!Spaces \cup {"end"}
             /\ ~ (hashes /\ Guards!Char(p) = "#")
             /\ ~ (Guards!Char(p) = "/" /\ Guards!Char(p + 1) \in {"/", "*"}))
            => /\ p \in 1 .. Len(src) /\ src[p] \notin Guards!Spaces
               /\ ~ LineAt(hashes, p) /\ ~ BlockAt(p)
<1>0. Len(src) \in Nat
  BY LenProperties
<1>1. /\ p \in 1 .. Len(src) => Guards!Char(p) = src[p] /\ src[p] \in Chars
      /\ p \notin 1 .. Len(src) => Guards!Char(p) = "end" /\ p = Len(src) + 1
      /\ Guards!Char(p + 1) # "end" => p + 1 \in 1 .. Len(src) /\ Guards!Char(p + 1) = src[p + 1]
  BY CharIs
<1>2. /\ p + 1 \in 1 .. Len(src) => p < Len(src)
      /\ p < Len(src) => Guards!Char(p + 1) = src[p + 1]
  <2>1. p \in Nat
    BY <1>0
  <2>2. p + 1 \in 1 .. Len(src) => p < Len(src)
    BY <1>0
  <2>3. p < Len(src) => p + 1 <= Len(src)
    BY <1>0
  <2>. QED
    BY <2>2, <2>3 DEF Guards!Char
<1> DEFINE inside == p \in 1 .. Len(src)
           behind == p + 1 \in 1 .. Len(src)
           before == p < Len(src)
           c == Guards!Char(p)
           d == Guards!Char(p + 1)
<1>3. /\ inside => c = src[p]
      /\ ~ inside => c = "end"
      /\ d # "end" => behind /\ d = src[p + 1]
      /\ behind => before
      /\ before => d = src[p + 1]
  BY <1>1, <1>2
<1>4. /\ LineAt(hashes, p) = ((src[p] = "#" /\ hashes) \/ (src[p] = "/" /\ before /\ src[p + 1] = "/"))
      /\ BlockAt(p) = (src[p] = "/" /\ before /\ src[p + 1] = "*")
  BY DEF LineAt, BlockAt
<1> HIDE DEF inside, behind, before, c, d
<1>5. (hashes /\ c = "#") \/ (c = "/" /\ d = "/") => inside /\ LineAt(hashes, p)
  BY <1>3, <1>4
<1>6. c = "/" /\ d = "*" => inside /\ BlockAt(p)
  BY <1>3, <1>4
<1>7. c \notin Guards!Spaces \cup {"end"} /\ ~ (hashes /\ c = "#") /\ ~ (c = "/" /\ d \in {"/", "*"}) =>
        inside /\ src[p] \notin Guards!Spaces /\ ~ LineAt(hashes, p) /\ ~ BlockAt(p)
  BY <1>3, <1>4
<1>. QED
  BY <1>5, <1>6, <1>7 DEF inside, c, d

(* A line comment's end is the same from every place in it.                  *)
LEMMA SameLine ==
  ASSUME src \in Seq(Chars), NEW p \in 1 .. Len(src), src[p] # "LF"
  PROVE  /\ Guards!LinesEnds(p + 1) = Guards!LinesEnds(p)
         /\ \A hashes : AfterLine(hashes, p + 1) = AfterLine(hashes, p)
<1>1. Len(src) \in Nat
  BY LenProperties
<1>2. \A k : k \in p .. Len(src) <=> k = p \/ k \in p + 1 .. Len(src)
  BY <1>1
<1>3. Guards!LinesEnds(p + 1) = Guards!LinesEnds(p)
  BY <1>2 DEF Guards!LinesEnds
<1>. QED
  BY <1>3 DEF AfterLine

(* The answer that is asked of the port.                                     *)
Specified(a) ==
    IF Guards!Found # "none" THEN a = Guards!Found
    ELSE IF ~ options.requireValue THEN a = "null"
    ELSE IF src = <<>> THEN a = "json5_empty"
    ELSE a = IF Guards!FirstToken(FALSE) = "none" THEN "json5_no_value" ELSE "unexpected"

(* What a guard may hand to the start it wraps: all of the source, or none   *)
(* of one without a value; the engine must be right about what it gets.      *)
MayHand(s) ==
    /\ s # src => s = <<>> /\ Guards!Found = "none" /\ ~ options.requireValue
    /\ s = <<>> => Guards!Found = "none" /\ ~ options.requireValue
    /\ s # <<>> /\ Guards!Found = "none" =>
         IF options.requireValue THEN Guards!FirstToken(FALSE) # "none" ELSE port # "ts"

(* Every step leaves the input and the lexer's tokens as they are.           *)
LEMMA TokensStay ==
  ASSUME UNCHANGED Guards!input
  PROVE  /\ src' = src /\ port' = port /\ options' = options
         /\ \A h : Guards!Tokens(h)' = Guards!Tokens(h)
         /\ \A p : Guards!LinesEnds(p)' = Guards!LinesEnds(p)
         /\ \A h, p : AfterLine(h, p)' = AfterLine(h, p)
         /\ Guards!Found' = Guards!Found
         /\ \A a : Specified(a)' = Specified(a)
<1>1. src' = src /\ port' = port /\ options' = options
  BY DEF Guards!input
<1>2. \A h : Guards!Tokens(h)' = Guards!Tokens(h)
  BY <1>1 DEF Guards!Tokens, Guards!LinesEnds, Guards!EndsIn
<1>3. \A p : Guards!LinesEnds(p)' = Guards!LinesEnds(p)
  BY <1>1 DEF Guards!LinesEnds
<1>4. Guards!Found' = Guards!Found
  BY <1>1, <1>2 DEF Guards!Found, Guards!FirstToken
<1>5. \A h, p : AfterLine(h, p)' = AfterLine(h, p)
  BY <1>2, <1>3 DEF AfterLine
<1>6. \A a : Specified(a)' = Specified(a)
  BY <1>1, <1>2, <1>4 DEF Specified, Guards!FirstToken
<1>. QED
  BY <1>1, <1>2, <1>3, <1>4, <1>5, <1>6

(* A source without characters holds no token.                               *)
LEMMA EmptyHasNone ==
  ASSUME src \in Seq(Chars), src = <<>>, options \in [requireValue : BOOLEAN, hashComment : BOOLEAN]
  PROVE  Guards!Found = "none" /\ Guards!FirstToken(FALSE) = "none"
<1>1. 1 \in Len(src) + 1 .. Len(src) + 2
  OBVIOUS
<1>2. options.hashComment \in BOOLEAN
  OBVIOUS
<1>. QED
  BY <1>1, <1>2, NothingBehind DEF Guards!Found, Guards!FirstToken

(* Answering as specified keeps the invariant.                               *)
LEMMA AnswerKeeps ==
  ASSUME GInv, NEW a, Specified(a), Guards!Answer(a)
  PROVE  GInv'
<1>1. UNCHANGED <<Guards!input, Guards!handed, at, hash>> /\ answer' = a /\ pc' = "answered"
  BY DEF Guards!Answer
<1>2. /\ src' = src /\ port' = port /\ options' = options /\ Guards!Found' = Guards!Found
      /\ Specified(a)' = Specified(a)
  BY <1>1, TokensStay
<1>3. Handed'
  BY <1>1, <1>2 DEF GInv, Handed, Guards!handed
<1>4. Guards!AnswersAreTheSpecified'
  BY <1>1, <1>2 DEF Guards!AnswersAreTheSpecified, Specified
<1>. QED
  BY <1>1, <1>3, <1>4 DEF GInv

(* So does handing the source on, to a guard or to the engine.               *)
LEMMA StartKeeps ==
  ASSUME GInv, NEW s, MayHand(s), Guards!Start(s)
  PROVE  GInv'
<1>1. CASE guards = 1 /\ Guards!Answer(Guards!EngineAnswer(s))
  <2>1. Specified(Guards!EngineAnswer(s))
    <3>1. CASE s = <<>>
      BY <3>1 DEF MayHand, Specified, Guards!EngineAnswer
    <3>2. CASE s # <<>> /\ Guards!Found # "none"
      BY <3>2 DEF Specified, Guards!EngineAnswer
    <3>3. CASE s # <<>> /\ Guards!Found = "none"
      <4>1. src # <<>>
        BY <3>3 DEF MayHand
      <4>. QED
        BY <3>3, <4>1 DEF MayHand, Specified, Guards!EngineAnswer
    <3>. QED
      BY <3>1, <3>2, <3>3
  <2>. QED
    BY <1>1, <2>1, AnswerKeeps
<1>2. CASE /\ guards > 1
           /\ guards' = guards - 1 /\ given' = s
           /\ at' = 1 /\ hash' = FALSE /\ pc' = "guard"
           /\ UNCHANGED <<Guards!input, answer>>
  <2>1. /\ src' = src /\ port' = port /\ options' = options /\ Guards!Found' = Guards!Found
    BY <1>2, TokensStay
  <2>2. Handed'
    <3>1. guards' \in {1, 2} /\ (guards' > 1 => port = "ts")
      BY <1>2 DEF GInv, Handed
    <3>2. given' # src => given' = <<>> /\ Guards!Found = "none" /\ ~ options.requireValue
      BY <1>2 DEF MayHand
    <3>. QED
      BY <2>1, <3>1, <3>2 DEF GInv, Handed
  <2>. QED
    BY <1>2, <2>2 DEF GInv, Guards!AnswersAreTheSpecified
<1>. QED
  BY <1>1, <1>2 DEF Guards!Start

(* Going on with the scan, from where nothing but trivia was passed.         *)
LEMMA ToKeeps ==
  ASSUME GInv, Scans, NEW j, NEW where, Guards!To(j, where), where \in {"scan", "line"},
         j \in 1 .. Len(src) + 1,
         where = "scan" => Guards!Tokens(hash)[1] = Guards!Tokens(hash)[j],
         where = "line" => Guards!Tokens(hash)[1] = AfterLine(hash, j)
  PROVE  GInv'
<1>1. at' = j /\ pc' = where /\ UNCHANGED <<Guards!input, Guards!handed, hash, answer>>
  BY DEF Guards!To
<1>2. /\ src' = src /\ port' = port /\ options' = options /\ Guards!Found' = Guards!Found
      /\ \A h : Guards!Tokens(h)' = Guards!Tokens(h)
      /\ \A h, p : AfterLine(h, p)' = AfterLine(h, p)
  BY <1>1, TokensStay
<1>3. given' = given /\ guards' = guards /\ hash' = hash
  BY <1>1 DEF Guards!handed
<1>4. Handed'
  BY <1>2, <1>3 DEF GInv, Handed
<1>5. Scans'
  <2>1. (Guards!Tokens(hash)[1])' = Guards!Tokens(hash)[1] /\ (Guards!Tokens(hash)[at])' = Guards!Tokens(hash)[j]
    BY <1>1, <1>2, <1>3
  <2>2. AfterLine(hash, at)' = AfterLine(hash, j)
    BY <1>1, <1>2, <1>3
  <2>3. (1 .. Len(src) + 1)' = 1 .. Len(src) + 1
    BY <1>2
  <2>. QED
    BY <1>1, <1>2, <1>3, <2>1, <2>2, <2>3 DEF Scans
<1>. QED
  BY <1>1, <1>4, <1>5 DEF GInv, Guards!AnswersAreTheSpecified

(* A scan begins at the front, by the comments its guard names.              *)
LEMMA ScanKeeps ==
  ASSUME GInv, pc = "guard", given # <<>>, ~ options.requireValue => port # "go",
         Guards!Scan(~ options.requireValue /\ options.hashComment)
  PROVE  GInv'
<1>1. /\ hash' = (~ options.requireValue /\ options.hashComment) /\ pc' = "scan"
      /\ UNCHANGED <<Guards!input, Guards!handed, at, answer>> /\ given' = given /\ guards' = guards
  BY DEF Guards!Scan, Guards!handed
<1>2. /\ src' = src /\ port' = port /\ options' = options /\ Guards!Found' = Guards!Found
  BY <1>1, TokensStay
<1>3. Handed' /\ given = src
  BY <1>1, <1>2 DEF GInv, Handed
<1>4. at' = 1 /\ 1 \in 1 .. Len(src) + 1
  BY <1>1, LenProperties DEF GInv, Handed
<1>5. Scans'
  <2>1. (1 .. Len(src) + 1)' = 1 .. Len(src) + 1
    BY <1>2
  <2>. QED
    BY <1>1, <1>2, <1>3, <1>4, <2>1 DEF Scans
<1>. QED
  BY <1>1, <1>3, <1>5 DEF GInv, Guards!AnswersAreTheSpecified

LEMMA GuardKeeps ==
  ASSUME GInv, Guards!Guard
  PROVE  GInv'
<1>1. /\ pc = "guard" /\ options.requireValue /\ given = src /\ at = 1
      /\ src \in Seq(Chars) /\ options \in [requireValue : BOOLEAN, hashComment : BOOLEAN]
  BY DEF GInv, Handed, Guards!Guard
<1>2. CASE given = <<>> /\ Guards!Answer("json5_empty")
  <2>1. Specified("json5_empty")
    BY <1>1, <1>2, EmptyHasNone DEF Specified
  <2>. QED
    BY <1>2, <2>1, AnswerKeeps
<1>3. CASE given # <<>> /\ Guards!Scan(FALSE)
  <2>1. Guards!Scan(~ options.requireValue /\ options.hashComment)
    <3>1. (~ options.requireValue /\ options.hashComment) = FALSE
      BY <1>1
    <3>. QED
      BY <1>3, <3>1
  <2>. QED
    BY <1>1, <1>3, <2>1, ScanKeeps
<1>. QED
  BY <1>2, <1>3 DEF Guards!Guard

LEMMA ShortCircuitKeeps ==
  ASSUME GInv, Guards!ShortCircuit
  PROVE  GInv'
<1>1. /\ pc = "guard" /\ ~ options.requireValue /\ at = 1
      /\ src \in Seq(Chars) /\ options \in [requireValue : BOOLEAN, hashComment : BOOLEAN]
      /\ given # src => given = <<>> /\ Guards!Found = "none"
  BY DEF GInv, Handed, Guards!ShortCircuit
<1>2. CASE (given = <<>> \/ port = "go") /\ Guards!Start(given)
  <2>1. given = <<>> => Guards!Found = "none"
    BY <1>1, EmptyHasNone
  <2>2. MayHand(given)
    BY <1>1, <1>2, <2>1 DEF MayHand
  <2>. QED
    BY <1>2, <2>2, StartKeeps
<1>3. CASE given # <<>> /\ port # "go" /\ Guards!Scan(options.hashComment)
  <2>1. Guards!Scan(~ options.requireValue /\ options.hashComment)
    <3>1. (~ options.requireValue /\ options.hashComment) = options.hashComment
      BY <1>1
    <3>. QED
      BY <1>3, <3>1
  <2>. QED
    BY <1>1, <1>3, <2>1, ScanKeeps
<1>. QED
  BY <1>2, <1>3 DEF Guards!ShortCircuit

LEMMA SpaceKeeps ==
  ASSUME GInv, Guards!Space
  PROVE  GInv'
<1>1. Scans /\ pc = "scan" /\ src \in Seq(Chars) /\ hash \in BOOLEAN
  BY DEF GInv, Handed, Scans, Guards!Space, Guards!Scanning
<1>2. at \in 1 .. Len(src) + 1 /\ given = src /\ Guards!Tokens(hash)[1] = Guards!Tokens(hash)[at]
  BY <1>1 DEF Scans
<1>3. at \in 1 .. Len(src) /\ src[at] \in Guards!Spaces
  BY <1>1, <1>2, CharIs DEF Guards!Space, Guards!Spaces
<1>4. Guards!Tokens(hash)[at] = Guards!Tokens(hash)[at + 1]
  BY <1>1, <1>3, TokensFrom
<1>5. at + 1 \in 1 .. Len(src) + 1
  BY <1>1, <1>3, LenProperties
<1>. QED
  BY <1>1, <1>2, <1>4, <1>5, ToKeeps DEF Guards!Space

LEMMA LineCommentKeeps ==
  ASSUME GInv, Guards!LineComment
  PROVE  GInv'
<1>1. Scans /\ pc = "scan" /\ src \in Seq(Chars) /\ hash \in BOOLEAN
  BY DEF GInv, Handed, Scans, Guards!LineComment, Guards!Scanning
<1>2. at \in 1 .. Len(src) + 1 /\ given = src /\ Guards!Tokens(hash)[1] = Guards!Tokens(hash)[at]
  BY <1>1 DEF Scans
<1>3. at \in 1 .. Len(src) /\ LineAt(hash, at)
  BY <1>1, <1>2, SeesTheSame DEF Guards!LineComment
<1>4. Guards!Tokens(hash)[1] = AfterLine(hash, at)
  BY <1>1, <1>2, <1>3, TokensFrom
<1>5. src[at] # "LF"
  BY <1>3 DEF LineAt
<1>6. AfterLine(hash, at + 1) = AfterLine(hash, at)
  BY <1>1, <1>3, <1>5, SameLine
<1>7. CASE hash /\ Guards!Char(at) = "#" /\ Guards!To(at + 1, "line")
  <2>1. at + 1 \in 1 .. Len(src) + 1
    BY <1>1, <1>3, LenProperties
  <2>. QED
    BY <1>1, <1>4, <1>6, <1>7, <2>1, ToKeeps
<1>8. CASE Guards!Char(at) = "/" /\ Guards!Char(at + 1) = "/" /\ Guards!To(at + 2, "line")
  <2>1. at + 1 \in 1 .. Len(src) /\ src[at + 1] = "/"
    BY <1>1, <1>2, <1>8, CharIs
  <2> DEFINE b == at + 1
  <2>2. b \in 1 .. Len(src) /\ src[b] # "LF"
    BY <2>1
  <2> HIDE DEF b
  <2>3. AfterLine(hash, b + 1) = AfterLine(hash, b)
    BY <1>1, <2>2, SameLine
  <2>4. b + 1 = at + 2 /\ at + 2 \in 1 .. Len(src) + 1
    BY <1>1, <1>3, <2>2, LenProperties DEF b
  <2>5. AfterLine(hash, at + 2) = AfterLine(hash, at)
    BY <1>6, <2>3, <2>4 DEF b
  <2>. QED
    BY <1>1, <1>4, <1>8, <2>4, <2>5, ToKeeps
<1>. QED
  BY <1>7, <1>8 DEF Guards!LineComment

LEMMA InLineKeeps ==
  ASSUME GInv, Guards!InLine
  PROVE  GInv'
<1>1. Scans /\ pc = "line" /\ src \in Seq(Chars) /\ hash \in BOOLEAN
  BY DEF GInv, Handed, Scans, Guards!InLine
<1>2. at \in 1 .. Len(src) + 1 /\ given = src /\ Guards!Tokens(hash)[1] = AfterLine(hash, at)
  BY <1>1 DEF Scans
<1>0. Len(src) \in Nat
  BY <1>1, LenProperties
<1>3. CASE Guards!Char(at) = "LF"
  <2>1. at \in 1 .. Len(src) /\ src[at] = "LF"
    BY <1>1, <1>2, <1>3, CharIs
  <2>2. Guards!LinesEnds(at) \in SUBSET Nat /\ at \in Guards!LinesEnds(at) /\ \A k \in Guards!LinesEnds(at) : at <= k
    BY <1>0, <2>1 DEF Guards!LinesEnds
  <2>3. Guards!First(Guards!LinesEnds(at)) = at
    <3>1. /\ Guards!First(Guards!LinesEnds(at)) \in Guards!LinesEnds(at)
          /\ \A k \in Guards!LinesEnds(at) : Guards!First(Guards!LinesEnds(at)) <= k
      BY <2>2, FirstIs
    <3>2. \A m \in Nat : \A n \in Nat : m <= n /\ n <= m => m = n
      OBVIOUS
    <3>. QED
      BY <2>2, <3>1, <3>2
  <2>4. Guards!Tokens(hash)[1] = Guards!Tokens(hash)[at]
    BY <1>2, <2>2, <2>3 DEF AfterLine
  <2>. QED
    BY <1>1, <1>2, <1>3, <2>4, ToKeeps DEF Guards!InLine
<1>4. CASE Guards!Char(at) = "end"
  <2>1. at \notin 1 .. Len(src) /\ at = Len(src) + 1
    <3>1. at \in 1 .. Len(src) => Guards!Char(at) \in Chars
      BY <1>1, <1>2, CharIs
    <3>2. at \notin 1 .. Len(src)
      BY <1>4, <3>1 DEF Chars
    <3>. QED
      BY <1>1, <1>2, <3>2, CharIs
  <2>2. Guards!LinesEnds(at) = {}
    BY <1>0, <2>1 DEF Guards!LinesEnds
  <2>3. at \in Len(src) + 1 .. Len(src) + 2
    BY <1>0, <2>1
  <2>4. Guards!Tokens(hash)[1] = "none" /\ Guards!Tokens(hash)[at] = "none"
    BY <1>1, <1>2, <2>2, <2>3, NothingBehind DEF AfterLine
  <2>. QED
    BY <1>1, <1>2, <1>4, <2>4, ToKeeps DEF Guards!InLine
<1>5. CASE Guards!Char(at) \notin {"LF", "end"}
  <2>1. at \in 1 .. Len(src) /\ src[at] # "LF"
    BY <1>1, <1>2, <1>5, CharIs
  <2>2. AfterLine(hash, at + 1) = AfterLine(hash, at)
    BY <1>1, <2>1, SameLine
  <2>3. at + 1 \in 1 .. Len(src) + 1
    BY <1>0, <2>1
  <2>. QED
    BY <1>1, <1>2, <1>5, <2>2, <2>3, ToKeeps DEF Guards!InLine
<1>. QED
  BY <1>3, <1>4, <1>5

LEMMA BlockCommentKeeps ==
  ASSUME GInv, Guards!BlockComment
  PROVE  GInv'
<1>1. Scans /\ pc = "scan" /\ src \in Seq(Chars) /\ hash \in BOOLEAN
  BY DEF GInv, Handed, Scans, Guards!BlockComment, Guards!Scanning
<1>2. at \in 1 .. Len(src) + 1 /\ given = src /\ Guards!Tokens(hash)[1] = Guards!Tokens(hash)[at]
  BY <1>1 DEF Scans
<1>3. at \in 1 .. Len(src) /\ BlockAt(at)
  BY <1>1, <1>2, SeesTheSame DEF Guards!BlockComment
<1>4. Guards!Ends(at + 2) = Guards!EndsIn(src, at + 2)
  BY <1>2 DEF Guards!Ends
<1>5. Guards!First(Guards!EndsIn(src, at + 2)) \in at + 2 .. Len(src) - 1
  BY <1>1, <1>3, <1>4, EndsAreBehind DEF Guards!BlockComment
<1> DEFINE e == Guards!First(Guards!EndsIn(src, at + 2))
<1>6. Guards!Tokens(hash)[at] = Guards!Tokens(hash)[e + 2]
  BY <1>1, <1>3, <1>4, TokensFrom DEF Guards!BlockComment
<1>7. Guards!To(e + 2, "scan")
  BY <1>4 DEF Guards!BlockComment
<1> HIDE DEF e
<1>8. e + 2 \in 1 .. Len(src) + 1
  BY <1>1, <1>3, <1>5, LenProperties DEF e
<1>. QED
  BY <1>1, <1>2, <1>6, <1>7, <1>8, ToKeeps

(* The scan has come to what is no trivia, which the engine is left with.    *)
LEMMA HandsOn ==
  ASSUME GInv, pc = "scan", NEW a \in Kinds, a # "none", Guards!Tokens(hash)[at] = a, Guards!Start(given)
  PROVE  GInv'
<1>1. /\ Scans /\ given = src /\ src # <<>> /\ Guards!Tokens(hash)[1] # "none"
      /\ hash = (~ options.requireValue /\ options.hashComment)
  BY DEF GInv, Scans
<1>2. options.requireValue \in BOOLEAN /\ options.hashComment \in BOOLEAN
  BY DEF GInv, Handed
<1>3. CASE options.requireValue
  <2>1. Guards!FirstToken(FALSE) # "none"
    BY <1>1, <1>3 DEF Guards!FirstToken
  <2>2. MayHand(given)
    BY <1>1, <1>3, <2>1 DEF MayHand
  <2>. QED
    BY <2>2, StartKeeps
<1>4. CASE ~ options.requireValue
  <2>1. Guards!Found # "none"
    BY <1>1, <1>2, <1>4 DEF Guards!FirstToken, Guards!Found
  <2>2. MayHand(given)
    BY <1>1, <2>1 DEF MayHand
  <2>. QED
    BY <2>2, StartKeeps
<1>. QED
  BY <1>3, <1>4

LEMMA UnterminatedKeeps ==
  ASSUME GInv, Guards!Unterminated
  PROVE  GInv'
<1>1. Scans /\ pc = "scan" /\ src \in Seq(Chars) /\ hash \in BOOLEAN
  BY DEF GInv, Handed, Scans, Guards!Unterminated, Guards!Scanning
<1>2. at \in 1 .. Len(src) + 1 /\ given = src
  BY <1>1 DEF Scans
<1>3. at \in 1 .. Len(src) /\ BlockAt(at)
  BY <1>1, <1>2, SeesTheSame DEF Guards!Unterminated
<1>4. Guards!EndsIn(src, at + 2) = {}
  BY <1>2 DEF Guards!Ends, Guards!Unterminated
<1>5. Guards!Tokens(hash)[at] = "unterminated_comment"
  BY <1>1, <1>3, <1>4, TokensFrom
<1>. QED
  BY <1>1, <1>5, HandsOn DEF Kinds, Guards!Unterminated

LEMMA HasValueKeeps ==
  ASSUME GInv, Guards!HasValue
  PROVE  GInv'
<1>1. Scans /\ pc = "scan" /\ src \in Seq(Chars) /\ hash \in BOOLEAN
  BY DEF GInv, Handed, Scans, Guards!HasValue, Guards!Scanning
<1>2. at \in 1 .. Len(src) + 1 /\ given = src
  BY <1>1 DEF Scans
<1>3. at \in 1 .. Len(src) /\ src[at] \notin Guards!Spaces /\ ~ LineAt(hash, at) /\ ~ BlockAt(at)
  BY <1>1, <1>2, SeesTheSame DEF Guards!HasValue
<1>4. Guards!Tokens(hash)[at] \in {"value", "unexpected"}
  BY <1>1, <1>3, TokensFrom
<1>. QED
  BY <1>1, <1>4, HandsOn DEF Kinds, Guards!HasValue

LEMMA NoValueKeeps ==
  ASSUME GInv, Guards!NoValue
  PROVE  GInv'
<1>1. Scans /\ pc = "scan" /\ src \in Seq(Chars) /\ hash \in BOOLEAN /\ Guards!Char(at) = "end"
  BY DEF GInv, Handed, Scans, Guards!NoValue, Guards!Scanning
<1>2. /\ at \in 1 .. Len(src) + 1 /\ given = src /\ src # <<>>
      /\ hash = (~ options.requireValue /\ options.hashComment)
      /\ Guards!Tokens(hash)[1] = Guards!Tokens(hash)[at]
  BY <1>1 DEF Scans
<1>3. at \in Len(src) + 1 .. Len(src) + 2
  <2>1. at \in 1 .. Len(src) => Guards!Char(at) \in Chars
    BY <1>1, <1>2, CharIs
  <2>2. at = Len(src) + 1
    BY <1>1, <1>2, <2>1, CharIs DEF Chars
  <2>. QED
    BY <1>1, <2>2, LenProperties
<1>4. Guards!Tokens(hash)[1] = "none"
  BY <1>1, <1>2, <1>3, NothingBehind
<1>5. options.requireValue \in BOOLEAN /\ options.hashComment \in BOOLEAN
  BY DEF GInv, Handed
<1>6. CASE options.requireValue /\ Guards!Answer("json5_no_value")
  <2>1. Guards!Tokens(FALSE)[1] = "none" /\ Guards!Tokens(TRUE)[1] = "none"
    BY <1>1, <1>2, <1>4, <1>6, HashOnly
  <2>2. Specified("json5_no_value")
    BY <1>2, <1>5, <1>6, <2>1 DEF Specified, Guards!Found, Guards!FirstToken
  <2>. QED
    BY <1>6, <2>2, AnswerKeeps
<1>7. CASE ~ options.requireValue /\ Guards!Start(<<>>)
  <2>1. Guards!Found = "none"
    BY <1>2, <1>4, <1>5, <1>7 DEF Guards!Found, Guards!FirstToken
  <2>2. MayHand(<<>>)
    BY <1>7, <2>1 DEF MayHand
  <2>. QED
    BY <1>7, <2>2, StartKeeps
<1>. QED
  BY <1>6, <1>7 DEF Guards!NoValue

(* A guard that has begun has answered nothing.                              *)
LEMMA GuardBegins ==
  ASSUME Guards!Init
  PROVE  GInv
BY TextsAssumption DEF Chars, Guards!Init, GInv, Handed, Guards!AnswersAreTheSpecified

LEMMA GuardGoesOn ==
  ASSUME GInv, [Guards!Next]_Guards!vars
  PROVE  GInv'
<1>1. CASE Guards!Next
  BY <1>1, GuardKeeps, ShortCircuitKeeps, SpaceKeeps, LineCommentKeeps, InLineKeeps,
     BlockCommentKeeps, UnterminatedKeeps, HasValueKeeps, NoValueKeeps DEF Guards!Next
<1>2. CASE UNCHANGED Guards!vars
  <2>1. UNCHANGED <<Guards!input, given, guards, at, hash, pc, answer>>
    BY <1>2 DEF Guards!vars, Guards!handed
  <2>2. /\ src' = src /\ port' = port /\ options' = options /\ Guards!Found' = Guards!Found
        /\ \A h : Guards!Tokens(h)' = Guards!Tokens(h)
        /\ \A h, p : AfterLine(h, p)' = AfterLine(h, p)
        /\ \A a : Specified(a)' = Specified(a)
    BY <2>1, TokensStay
  <2>3. Handed'
    BY <2>1, <2>2 DEF GInv, Handed
  <2>4. Scans' = Scans
    <3>1. (Guards!Tokens(hash)[1])' = Guards!Tokens(hash)[1] /\ (Guards!Tokens(hash)[at])' = Guards!Tokens(hash)[at]
      BY <2>1, <2>2
    <3>2. AfterLine(hash, at)' = AfterLine(hash, at)
      BY <2>1, <2>2
    <3>. QED
      BY <2>1, <2>2, <3>1, <3>2 DEF Scans
  <2>5. Guards!AnswersAreTheSpecified' = Guards!AnswersAreTheSpecified
    <3>1. Specified(answer)' = Specified(answer)
      BY <2>1, <2>2
    <3>2. Guards!AnswersAreTheSpecified = (pc = "answered" => Specified(answer))
      BY DEF Guards!AnswersAreTheSpecified, Specified
    <3>3. Guards!AnswersAreTheSpecified' = (pc = "answered" => Specified(answer))'
      BY DEF Guards!AnswersAreTheSpecified, Specified
    <3>. QED
      BY <2>1, <3>1, <3>2, <3>3
  <2>. QED
    BY <2>1, <2>3, <2>4, <2>5 DEF GInv
<1>. QED
  BY <1>1, <1>2

-----------------------------------------------------------------------------
(* An unquoted key.                                                          *)

(* A character, and what follows it.                                         *)
Before(c, T) == {<<c>> \o t : t \in T}

(* What a run and its name are written with.                                 *)
Signs == STRING \cup Names!idPart \cup {"surrogate", "Oslash", "0", "katakana", "noLetter"}

IsRun(s) == s \in Seq(Signs) /\ s # <<>>

LEMMA CharsAreSigns ==
  /\ Names!idStart \subseteq Signs /\ Names!idPart \subseteq Signs /\ Names!idStart \subseteq Names!idPart
  /\ "surrogate" \notin Names!idPart /\ "\\" \notin Names!idPart
<1>1. Names!idStart \subseteq Signs /\ Names!idPart \subseteq Signs /\ Names!idStart \subseteq Names!idPart
  BY DEF Names!idStart, Names!idPart, Signs
<1>2. "surrogate" \notin Names!idPart
  BY DEF Names!idStart, Names!idPart, Names!Letters
<1>3. "\\" \notin Names!idPart
  BY DEF Names!idStart, Names!idPart, Names!Letters
<1>. QED
  BY <1>1, <1>2, <1>3

LEMMA UnitsAreSigns ==
  ASSUME NEW h
  PROVE  Names!CodeUnit(h) \in Signs
<1>1. Names!CodeUnit(h) \in {"surrogate", "Oslash", "0", "katakana", "noLetter"}
  BY Zenon DEF Names!CodeUnit
<1>. QED
  BY <1>1 DEF Signs

LEMMA CharsHaveBytes ==
  ASSUME NEW c
  PROVE  Names!Bytes(c) \in {1, 2, 3, 4, 8}
BY Zenon DEF Names!Bytes

(* The bytes left are what is counted, and a character at least each.        *)
LEMMA BytesUnfold ==
  ASSUME source \in Seq(Signs)
  PROVE  /\ \A n \in 1 .. Len(source) + 1 : Names!BytesFrom[n] \in Nat
         /\ \A n \in 1 .. Len(source) + 1 :
              Names!BytesFrom[n] = IF n > Len(source) THEN 0 ELSE Names!Bytes(source[n]) + Names!BytesFrom[n + 1]
<1> DEFINE top == Len(source) + 1
           ends == {n \in 1 .. top : n > Len(source)}
           adds == [n \in 1 .. top |-> 0]
           next == [n \in 1 .. top |-> n + 1]
           turn == [n \in 1 .. top |-> [v \in Nat |-> Names!Bytes(source[n]) + v]]
           Body(f, n) == IF n > Len(source) THEN 0 ELSE Names!Bytes(source[n]) + f[n + 1]
<1>0. Len(source) \in Nat /\ top \in Nat
  BY LenProperties
<1>1. \A n \in 1 .. top : n \in ends => adds[n] \in Nat
  OBVIOUS
<1>2. \A n \in 1 .. top : n \notin ends => next[n] \in n + 1 .. top /\ turn[n] \in [Nat -> Nat]
  <2> SUFFICES ASSUME NEW n \in 1 .. top, n \notin ends
               PROVE  next[n] \in n + 1 .. top /\ turn[n] \in [Nat -> Nat]
    OBVIOUS
  <2>1. next[n] \in n + 1 .. top
    BY <1>0
  <2>2. Names!Bytes(source[n]) \in Nat
    BY CharsHaveBytes
  <2> DEFINE b == Names!Bytes(source[n])
  <2> HIDE DEF b
  <2>3. [v \in Nat |-> b + v] \in [Nat -> Nat]
    BY <2>2 DEF b
  <2>. QED
    BY <2>1, <2>3 DEF b
<1>3. PICK f : /\ LooksAhead(f, 1, top, ends, adds, next, turn)
               /\ \A n \in 1 .. top : f[n] \in Nat
  <2> HIDE DEF top, ends, adds, next, turn
  <2>. QED
    BY <1>0, <1>1, <1>2, AheadExists
<1>4. f = [n \in 1 .. top |-> Body(f, n)]
  <2>1. f = [n \in 1 .. top |-> IF n \in ends THEN adds[n] ELSE turn[n][f[next[n]]]]
    BY <1>3 DEF LooksAhead
  <2>2. ASSUME NEW n \in 1 .. top
        PROVE  (IF n \in ends THEN adds[n] ELSE turn[n][f[next[n]]]) = Body(f, n)
    <3>1. CASE n \in ends
      BY <3>1
    <3>2. CASE n \notin ends
      <4>1. n + 1 \in 1 .. top
        BY <1>0, <3>2
      <4>2. f[n + 1] \in Nat
        BY <1>3, <4>1
      <4>3. turn[n][f[next[n]]] = Names!Bytes(source[n]) + f[n + 1]
        BY <4>2
      <4>. QED
        BY <3>2, <4>3
    <3>. QED
      BY <3>1, <3>2
  <2> HIDE DEF ends, adds, next, turn, Body
  <2>. QED
    BY <2>1, <2>2
<1>5. Names!BytesFrom = CHOOSE g : g = [n \in 1 .. top |-> Body(g, n)]
  BY DEF Names!BytesFrom
<1>6. PICK g : g = Names!BytesFrom /\ g = [n \in 1 .. top |-> Body(g, n)]
  <2> HIDE DEF Body
  <2>. QED
    BY <1>4, <1>5
<1> DEFINE Bad == {n \in 1 .. top : g[n] \notin Nat}
<1>7. Bad = {}
  <2> SUFFICES ASSUME Bad # {} PROVE FALSE
    OBVIOUS
  <2>1. PICK x \in Bad : \A y \in Bad : y <= x
    <3>1. Bad \in SUBSET (1 .. top)
      OBVIOUS
    <3> HIDE DEF Bad, top
    <3>. QED
      BY <1>0, <3>1, GreatestNumber
  <2>2. x \in 1 .. top /\ g[x] \notin Nat /\ g[x] = Body(g, x)
    BY <1>6, <2>1
  <2>3. CASE x > Len(source)
    BY <2>2, <2>3
  <2>4. CASE ~ (x > Len(source))
    <3>1. x + 1 \in 1 .. top /\ ~ (x + 1 <= x)
      BY <1>0, <2>2, <2>4
    <3>2. x + 1 \notin Bad
      <4> HIDE DEF Bad
      <4>. QED
        BY <2>1, <3>1
    <3>3. g[x + 1] \in Nat
      BY <3>1, <3>2
    <3>4. Names!Bytes(source[x]) \in Nat
      BY CharsHaveBytes
    <3>. QED
      BY <2>2, <2>4, <3>3, <3>4
  <2>. QED
    BY <2>3, <2>4
<1>8. \A n \in 1 .. top : g[n] \in Nat
  BY <1>7
<1>9. \A n \in 1 .. top : g[n] = Body(g, n)
  <2> HIDE DEF Body
  <2>. QED
    BY <1>6
<1>. QED
  BY <1>6, <1>8, <1>9

LEMMA BytesEnough ==
  ASSUME source \in Seq(Signs)
  PROVE  \A n \in 1 .. Len(source) + 1 : Names!BytesFrom[n] >= Len(source) + 1 - n
<1> DEFINE top == Len(source) + 1
           Bad == {n \in 1 .. top : ~ (Names!BytesFrom[n] >= Len(source) + 1 - n)}
<1>0. Len(source) \in Nat /\ top \in Nat
  BY LenProperties
<1> SUFFICES ASSUME Bad # {} PROVE FALSE
  OBVIOUS
<1>1. PICK x \in Bad : \A y \in Bad : y <= x
  <2>1. Bad \in SUBSET (1 .. top)
    OBVIOUS
  <2> HIDE DEF Bad, top
  <2>. QED
    BY <1>0, <2>1, GreatestNumber
<1>2. x \in 1 .. top /\ ~ (Names!BytesFrom[x] >= Len(source) + 1 - x)
  BY <1>1
<1>3. x <= Len(source)
  <2>1. Names!BytesFrom[x] \in Nat
    BY <1>2, BytesUnfold
  <2>. QED
    BY <1>0, <1>2, <2>1
<1>4. x + 1 \in 1 .. top /\ ~ (x + 1 <= x)
  BY <1>0, <1>2, <1>3
<1>5. x + 1 \notin Bad
  <2> HIDE DEF Bad
  <2>. QED
    BY <1>1, <1>4
<1>6. Names!BytesFrom[x + 1] >= Len(source) + 1 - (x + 1) /\ Names!BytesFrom[x + 1] \in Nat
  BY <1>4, <1>5, BytesUnfold
<1>7. Names!Bytes(source[x]) \in Nat /\ Names!Bytes(source[x]) >= 1
  BY CharsHaveBytes
<1>8. Names!BytesFrom[x] = Names!Bytes(source[x]) + Names!BytesFrom[x + 1]
  BY <1>0, <1>2, <1>3, BytesUnfold
<1>. QED
  BY <1>0, <1>2, <1>3, <1>6, <1>7, <1>8

(* So the three ports see the same escapes.                                  *)
LEMMA EscapesAreTheSame ==
  ASSUME source \in Seq(Signs), i \in Nat, Names!AtEscape
  PROVE  Names!EscapeStands <=> Names!EscapeAt(i + 1)
<1>0. Len(source) \in Nat /\ i < Len(source) /\ source[i + 1] = "\\"
  BY LenProperties DEF Names!AtEscape, Names!More
<1>1. Len(source) >= i + 6 => Names!BytesLeft >= 6
  <2>1. i + 1 \in 1 .. Len(source) + 1
    BY <1>0
  <2>2. Names!BytesFrom[i + 1] >= Len(source) + 1 - (i + 1) /\ Names!BytesFrom[i + 1] \in Nat
    BY <2>1, BytesEnough, BytesUnfold
  <2>. QED
    BY <1>0, <2>2 DEF Names!BytesLeft
<1>2. /\ i + 1 + 1 = i + 2 /\ i + 1 + 2 = i + 3 /\ i + 1 + 5 = i + 6
      /\ i + 6 <= Len(source) <=> Len(source) >= i + 6
  BY <1>0
<1>. QED
  BY <1>0, <1>1, <1>2 DEF Names!EscapeStands, Names!EscapeAt

(* The readings are the recursion they are written as.                       *)
LEMMA ReadingsUnfold ==
  ASSUME source \in Seq(Signs), NEW n \in 1 .. Len(source) + 1
  PROVE  /\ Names!ReadingsFrom[n] =
              IF n > Len(source) THEN {<<>>}
              ELSE IF Names!EscapeAt(n)
                   THEN Before(Names!CodeUnit(SubSeq(source, n + 2, n + 5)), Names!ReadingsFrom[n + 6])
              ELSE IF source[n] # "\\" THEN Before(source[n], Names!ReadingsFrom[n + 1])
              ELSE {}
         /\ Names!ReadingsFrom[n] \subseteq Seq(Signs)
<1> DEFINE top == Len(source) + 1
           V == SUBSET Seq(Signs)
           Body(f, k) ==
              IF k > Len(source) THEN {<<>>}
              ELSE IF Names!EscapeAt(k)
                   THEN Before(Names!CodeUnit(SubSeq(source, k + 2, k + 5)), f[k + 6])
              ELSE IF source[k] # "\\" THEN Before(source[k], f[k + 1])
              ELSE {}
           Unit(k) == IF Names!EscapeAt(k) THEN Names!CodeUnit(SubSeq(source, k + 2, k + 5)) ELSE source[k]
           ends == {k \in 1 .. top : k > Len(source) \/ (~ Names!EscapeAt(k) /\ source[k] = "\\")}
           adds == [k \in 1 .. top |-> IF k > Len(source) THEN {<<>>} ELSE {}]
           next == [k \in 1 .. top |-> IF Names!EscapeAt(k) THEN k + 6 ELSE k + 1]
           turn == [k \in 1 .. top |-> [v \in V |-> Before(Unit(k), v)]]
<1>0. Len(source) \in Nat /\ top \in Nat /\ source \in [1 .. Len(source) -> Signs]
  BY LenProperties
<1>1. \A k \in 1 .. top : k \in ends => adds[k] \in V
  <2>1. {<<>>} \in V /\ {} \in V
    BY EmptySeq
  <2> HIDE DEF V, ends
  <2>. QED
    BY <2>1
<1>2. \A k \in 1 .. top : k \notin ends => next[k] \in k + 1 .. top /\ turn[k] \in [V -> V]
  <2> SUFFICES ASSUME NEW k \in 1 .. top, k \notin ends
               PROVE  next[k] \in k + 1 .. top /\ turn[k] \in [V -> V]
    OBVIOUS
  <2>1. k \in 1 .. Len(source)
    BY <1>0
  <2>2. next[k] \in k + 1 .. top
    <3>1. Names!EscapeAt(k) => k + 5 <= Len(source)
      BY DEF Names!EscapeAt
    <3>2. k + 5 <= Len(source) => k + 6 \in k + 1 .. top
      BY <1>0, <2>1
    <3>3. k + 1 \in k + 1 .. top
      BY <1>0, <2>1
    <3>. QED
      BY <3>1, <3>2, <3>3
  <2>3. Unit(k) \in Signs
    BY <1>0, <2>1, UnitsAreSigns
  <2>4. ASSUME NEW v \in V PROVE Before(Unit(k), v) \in V
    <3> DEFINE c == Unit(k)
    <3>1. \A t \in Seq(Signs) : <<c>> \o t \in Seq(Signs)
      <4>1. c \in Signs
        BY <2>3
      <4> HIDE DEF c
      <4>2. <<c>> \in Seq(Signs)
        BY <4>1
      <4>. QED
        BY <4>2, ConcatProperties
    <3> HIDE DEF c
    <3>2. Before(c, v) \in V
      BY <3>1 DEF Before
    <3>. QED
      BY <3>2 DEF c
  <2> HIDE DEF V, Unit
  <2>5. turn[k] \in [V -> V]
    BY <2>4
  <2>. QED
    BY <2>2, <2>5
<1>3. PICK f : /\ LooksAhead(f, 1, top, ends, adds, next, turn)
               /\ \A k \in 1 .. top : f[k] \in V
  <2> HIDE DEF top, V, ends, adds, next, turn
  <2>. QED
    BY <1>0, <1>1, <1>2, AheadExists
<1>4. f = [k \in 1 .. top |-> Body(f, k)]
  <2>1. f = [k \in 1 .. top |-> IF k \in ends THEN adds[k] ELSE turn[k][f[next[k]]]]
    BY <1>3 DEF LooksAhead
  <2>2. ASSUME NEW k \in 1 .. top
        PROVE  (IF k \in ends THEN adds[k] ELSE turn[k][f[next[k]]]) = Body(f, k)
    <3>1. CASE k \in ends
      <4>1. Names!EscapeAt(k) => ~ (k > Len(source))
        BY <1>0 DEF Names!EscapeAt
      <4>2. adds[k] = IF k > Len(source) THEN {<<>>} ELSE {}
        OBVIOUS
      <4>3. k > Len(source) \/ (~ Names!EscapeAt(k) /\ source[k] = "\\")
        BY <3>1
      <4> HIDE DEF ends, adds
      <4>. QED
        BY <3>1, <4>1, <4>2, <4>3
    <3>2. CASE k \notin ends
      <4>1. next[k] \in 1 .. top
        <5>1. next[k] \in k + 1 .. top
          BY <1>2, <3>2
        <5> HIDE DEF next, top
        <5>. QED
          BY <1>0, <5>1
      <4>2. f[next[k]] \in V
        BY <1>3, <4>1
      <4> DEFINE r == f[next[k]]
      <4> HIDE DEF r
      <4>3. turn[k][r] = Before(Unit(k), r)
        BY <4>2 DEF r
      <4>4. r = f[IF Names!EscapeAt(k) THEN k + 6 ELSE k + 1]
        BY DEF r
      <4>5. ~ (k > Len(source)) /\ (~ Names!EscapeAt(k) => source[k] # "\\")
        BY <3>2
      <4> HIDE DEF next, turn, ends, adds
      <4>6. turn[k][f[next[k]]] = Body(f, k)
        BY <4>3, <4>4, <4>5 DEF r
      <4>. QED
        BY <3>2, <4>6
    <3>. QED
      BY <3>1, <3>2
  <2> HIDE DEF ends, adds, next, turn, Body
  <2>. QED
    BY <2>1, <2>2
<1>5. Names!ReadingsFrom = CHOOSE g : g = [k \in 1 .. top |-> Body(g, k)]
  BY DEF Names!ReadingsFrom, Before
<1>6. PICK g : g = Names!ReadingsFrom /\ g = [k \in 1 .. top |-> Body(g, k)]
  <2> HIDE DEF Body
  <2>. QED
    BY <1>4, <1>5
<1> DEFINE Bad == {k \in 1 .. top : g[k] \notin V}
<1>7. Bad = {}
  <2> SUFFICES ASSUME Bad # {} PROVE FALSE
    OBVIOUS
  <2>1. PICK x \in Bad : \A y \in Bad : y <= x
    <3>1. Bad \in SUBSET (1 .. top)
      OBVIOUS
    <3> HIDE DEF Bad, top
    <3>. QED
      BY <1>0, <3>1, GreatestNumber
  <2>2. x \in 1 .. top /\ g[x] \notin V
    BY <2>1
  <2>3. g[x] = Body(g, x)
    <3> HIDE DEF Body
    <3>. QED
      BY <1>6, <2>2
  <2>4. CASE x \in ends
    <3>1. adds[x] \in V
      BY <1>1, <2>2, <2>4
    <3>2. Body(g, x) = adds[x]
      <4>1. Names!EscapeAt(x) => ~ (x > Len(source))
        BY <1>0, <2>2 DEF Names!EscapeAt
      <4>2. adds[x] = IF x > Len(source) THEN {<<>>} ELSE {}
        BY <2>2
      <4>3. x > Len(source) \/ (~ Names!EscapeAt(x) /\ source[x] = "\\")
        BY <2>4
      <4> HIDE DEF ends, adds
      <4>. QED
        BY <4>1, <4>2, <4>3
    <3>. QED
      BY <2>2, <2>3, <3>1, <3>2
  <2>5. CASE x \notin ends
    <3> DEFINE z == next[x]
    <3>1. z \in x + 1 .. top
      BY <1>2, <2>2, <2>5
    <3>2. z \in 1 .. top /\ ~ (z <= x)
      <4> HIDE DEF z, top
      <4>. QED
        BY <1>0, <2>2, <3>1
    <3>3. z \notin Bad
      <4> HIDE DEF Bad, z
      <4>. QED
        BY <2>1, <3>2
    <3>4. g[z] \in V
      <4> HIDE DEF V, z
      <4>. QED
        BY <3>2, <3>3
    <3>5. turn[x] \in [V -> V]
      BY <1>2, <2>2, <2>5
    <3>6. turn[x][g[z]] \in V
      <4> HIDE DEF V, z, turn
      <4>. QED
        BY <3>4, <3>5
    <3>7. turn[x][g[z]] = Before(Unit(x), g[z])
      <4> HIDE DEF V, z, Unit
      <4>. QED
        BY <2>2, <3>4
    <3>8. z = IF Names!EscapeAt(x) THEN x + 6 ELSE x + 1
      BY <2>2
    <3>9. ~ (x > Len(source)) /\ (~ Names!EscapeAt(x) => source[x] # "\\")
      BY <2>2, <2>5
    <3> HIDE DEF z, turn, ends
    <3>10. Body(g, x) = Before(Unit(x), g[z])
      BY <3>8, <3>9
    <3> HIDE DEF Body, V, Unit
    <3>. QED
      BY <2>2, <2>3, <3>6, <3>7, <3>10
  <2>. QED
    BY <2>4, <2>5
<1>8. g[n] \in V
  BY <1>7
<1>9. g[n] = Body(g, n)
  <2> HIDE DEF Body
  <2>. QED
    BY <1>6
<1>. QED
  BY <1>6, <1>8, <1>9

(* The name so far, read up to a place: every reading of the run goes on     *)
(* from it.                                                                  *)
SpeltAs(o, j) ==
  /\ o \in Seq(Signs) /\ j \in 0 .. Len(source)
  /\ o = <<>> <=> j = 0
  /\ o # <<>> => o[1] \in Names!idStart
  /\ \A k \in 1 .. Len(o) : o[k] \in Names!idPart
  /\ Names!Readings = {o \o t : t \in Names!ReadingsFrom[j + 1]}

AllowedBehind(o, c) == IF o = <<>> THEN c \in Names!idStart ELSE c \in Names!idPart

NInv ==
  /\ IsRun(source)
  /\ pc \in {"check", "match"} => i = 0 /\ out = <<>>
  /\ pc = "decode" => tin = "TX" /\ val = source /\ key = source /\ SpeltAs(out, i)
  /\ Names!NamesAndOnlyNames
  /\ Names!KeyIsTheName

(* Before the first character nothing is decided.                            *)
LEMMA NothingSpelt ==
  ASSUME IsRun(source)
  PROVE  SpeltAs(<<>>, 0)
<1>1. source \in Seq(Signs) /\ Len(source) \in Nat
  BY LenProperties DEF IsRun
<1>2. Names!ReadingsFrom[1] \subseteq Seq(Signs)
  BY <1>1, ReadingsUnfold
<1>3. \A t \in Names!ReadingsFrom[1] : <<>> \o t = t
  BY <1>2, ConcatEmptySeq
<1>4. Names!Readings = {<<>> \o t : t \in Names!ReadingsFrom[1]}
  BY <1>3 DEF Names!Readings
<1>5. <<>> \in Seq(Signs) /\ Len(<<>>) = 0 /\ 0 + 1 = 1 /\ 0 \in 0 .. Len(source)
  BY <1>1, EmptySeq
<1>6. \A k \in 1 .. Len(<<>>) : FALSE
  BY <1>5
<1>. QED
  BY <1>4, <1>5, <1>6 DEF SpeltAs

(* One character more that may stand there.                                  *)
LEMMA OneFurther ==
  ASSUME IsRun(source), NEW o, NEW j, SpeltAs(o, j), NEW c \in Signs, AllowedBehind(o, c),
         NEW h \in 1 .. Len(source),
         Names!ReadingsFrom[j + 1] = Before(c, Names!ReadingsFrom[h + 1])
  PROVE  SpeltAs(Append(o, c), h)
<1>1. source \in Seq(Signs) /\ Len(source) \in Nat /\ o \in Seq(Signs)
  BY LenProperties DEF IsRun, SpeltAs
<1>2. h + 1 \in 1 .. Len(source) + 1
  BY <1>1
<1>3. Names!ReadingsFrom[h + 1] \subseteq Seq(Signs)
  BY <1>1, <1>2, ReadingsUnfold
<1>4. <<c>> \in Seq(Signs) /\ Append(o, c) \in Seq(Signs) /\ Append(o, c) = o \o <<c>>
  BY <1>1, AppendProperties, AppendIsConcat
<1>5. \A t \in Names!ReadingsFrom[h + 1] : Append(o, c) \o t = o \o (<<c>> \o t)
  BY <1>1, <1>3, <1>4, ConcatAssociative
<1>6. Names!Readings = {Append(o, c) \o t : t \in Names!ReadingsFrom[h + 1]}
  <2>1. Names!Readings = {o \o t : t \in Before(c, Names!ReadingsFrom[h + 1])}
    BY DEF SpeltAs
  <2>2. Names!Readings = {o \o (<<c>> \o t) : t \in Names!ReadingsFrom[h + 1]}
    BY <2>1 DEF Before
  <2>. QED
    BY <1>5, <2>2
<1>7. /\ Len(o) \in Nat /\ Len(Append(o, c)) = Len(o) + 1
      /\ \A k \in 1 .. Len(o) : Append(o, c)[k] = o[k]
      /\ Append(o, c)[Len(o) + 1] = c
      /\ Append(o, c) # <<>>
      /\ o = <<>> <=> Len(o) = 0
  BY <1>1, AppendProperties, LenProperties, EmptySeq
<1> DEFINE a == Append(o, c)
           l == Len(o)
<1>8. c \in Names!idPart
  BY CharsAreSigns DEF AllowedBehind
<1>9. \A k \in 1 .. Len(a) : a[k] \in Names!idPart
  <2> SUFFICES ASSUME NEW k \in 1 .. Len(a) PROVE a[k] \in Names!idPart
    OBVIOUS
  <2>1. k \in 1 .. l \/ k = l + 1
    BY <1>7
  <2>2. \A m \in 1 .. l : o[m] \in Names!idPart
    BY DEF SpeltAs
  <2>. QED
    BY <1>7, <1>8, <2>1, <2>2
<1>10. a[1] \in Names!idStart
  <2>1. CASE o = <<>>
    BY <1>7, <2>1 DEF AllowedBehind
  <2>2. CASE o # <<>>
    <3>1. 1 \in 1 .. l
      BY <1>7, <2>2
    <3>. QED
      BY <1>7, <2>2, <3>1 DEF SpeltAs
  <2>. QED
    BY <2>1, <2>2
<1>11. h \in 0 .. Len(source) /\ h # 0
  BY <1>1
<1>. QED
  BY <1>4, <1>6, <1>7, <1>9, <1>10, <1>11 DEF SpeltAs

(* A character that may not stand there makes the run no name at all.        *)
LEMMA NoNameBehind ==
  ASSUME IsRun(source), NEW o, NEW j, SpeltAs(o, j), NEW c \in Signs, ~ AllowedBehind(o, c),
         NEW T \in SUBSET Seq(Signs), Names!ReadingsFrom[j + 1] = Before(c, T)
  PROVE  Names!IdentifierNames = {}
<1> SUFFICES ASSUME NEW t \in Names!IdentifierNames PROVE FALSE
  OBVIOUS
<1>1. t \in Names!Readings /\ t[1] \in Names!idStart /\ \A k \in 1 .. Len(t) : t[k] \in Names!idPart
  BY DEF Names!IdentifierNames
<1>2. PICK u \in T : t = o \o (<<c>> \o u)
  BY <1>1 DEF SpeltAs, Before
<1>3. o \in Seq(Signs) /\ u \in Seq(Signs) /\ <<c>> \in Seq(Signs) /\ Len(<<c>>) = 1 /\ <<c>>[1] = c
  BY DEF SpeltAs
<1> DEFINE b == <<c>> \o u
           l == Len(o)
<1>4. b \in Seq(Signs) /\ Len(b) = 1 + Len(u) /\ b[1] = c /\ Len(u) \in Nat
  <2>1. Len(u) \in Nat
    BY <1>3, LenProperties
  <2>2. /\ <<c>> \o u \in Seq(Signs) /\ Len(<<c>> \o u) = Len(<<c>>) + Len(u)
        /\ \A k \in 1 .. Len(<<c>>) + Len(u) :
             (<<c>> \o u)[k] = IF k <= Len(<<c>>) THEN <<c>>[k] ELSE u[k - Len(<<c>>)]
    BY <1>3, ConcatProperties
  <2>3. 1 \in 1 .. Len(<<c>>) + Len(u)
    BY <1>3, <2>1
  <2>. QED
    BY <1>3, <2>1, <2>2, <2>3
<1> HIDE DEF b
<1>5. l \in Nat /\ (o = <<>> <=> l = 0)
  BY <1>3, LenProperties, EmptySeq
<1>6. l + 1 \in 1 .. Len(t) /\ t[l + 1] = c
  <2>1. /\ Len(o \o b) = l + Len(b)
        /\ \A k \in 1 .. l + Len(b) : (o \o b)[k] = IF k <= l THEN o[k] ELSE b[k - l]
    BY <1>3, <1>4, ConcatProperties
  <2>2. t = o \o b
    BY <1>2 DEF b
  <2> HIDE DEF l
  <2>3. l + 1 \in 1 .. l + Len(b) /\ ~ (l + 1 <= l) /\ (l + 1) - l = 1
    BY <1>4, <1>5
  <2>. QED
    BY <1>4, <2>1, <2>2, <2>3
<1>7. CASE o = <<>>
  <2>1. l + 1 = 1
    BY <1>5, <1>7
  <2>. QED
    BY <1>1, <1>6, <1>7, <2>1 DEF AllowedBehind
<1>8. CASE o # <<>>
  BY <1>1, <1>6, <1>8 DEF AllowedBehind
<1>. QED
  BY <1>7, <1>8

(* Read to its end, the run is the one name.                                 *)
LEMMA WholeName ==
  ASSUME IsRun(source), NEW o, SpeltAs(o, Len(source))
  PROVE  Names!IdentifierNames = {o}
<1>1. source \in Seq(Signs) /\ Len(source) \in Nat /\ Len(source) # 0 /\ o \in Seq(Signs)
  BY LenProperties, EmptySeq DEF IsRun, SpeltAs
<1>2. Len(source) + 1 \in 1 .. Len(source) + 1 /\ Len(source) + 1 > Len(source)
  BY <1>1
<1>3. Names!ReadingsFrom[Len(source) + 1] = {<<>>}
  BY <1>1, <1>2, ReadingsUnfold
<1>4. o \o <<>> = o
  BY <1>1, ConcatEmptySeq
<1>5. Names!Readings = {o}
  BY <1>3, <1>4 DEF SpeltAs
<1>6. o # <<>> /\ o[1] \in Names!idStart /\ \A k \in 1 .. Len(o) : o[k] \in Names!idPart
  BY <1>1 DEF SpeltAs
<1>. QED
  BY <1>5, <1>6 DEF Names!IdentifierNames

(* Every step leaves the run, and so its readings, as they are.              *)
LEMMA ReadingsStay ==
  ASSUME source' = source
  PROVE  /\ Names!ReadingsFrom' = Names!ReadingsFrom /\ Names!Readings' = Names!Readings
         /\ Names!IdentifierNames' = Names!IdentifierNames
         /\ \A o, j : SpeltAs(o, j)' = SpeltAs(o, j)
<1>2. Names!ReadingsFrom' = Names!ReadingsFrom
  BY DEF Names!ReadingsFrom, Names!EscapeAt
<1>3. Names!Readings' = Names!Readings
  BY <1>2 DEF Names!Readings
<1>4. Names!IdentifierNames' = Names!IdentifierNames
  BY <1>3 DEF Names!IdentifierNames
<1>5. \A o, j : SpeltAs(o, j)' = SpeltAs(o, j)
  BY <1>2, <1>3 DEF SpeltAs
<1>. QED
  BY <1>2, <1>3, <1>4, <1>5

(* A refused run is no name.                                                 *)
LEMMA RefusedKeeps ==
  ASSUME NInv, Names!IdentifierNames = {}, source' = source, pc' = "refused"
  PROVE  NInv'
<1>1. Names!IdentifierNames' = {}
  BY ReadingsStay
<1>. QED
  BY <1>1 DEF NInv, Names!NamesAndOnlyNames, Names!KeyIsTheName

LEMMA TextCheckKeeps ==
  ASSUME NInv, Names!TextCheck
  PROVE  NInv'
<1>1. /\ pc = "check" /\ i = 0 /\ out = <<>> /\ IsRun(source)
      /\ UNCHANGED <<port, source, i, out, tin, val, key>>
  BY DEF NInv, Names!TextCheck
<1>2. CASE pc' = "match"
  BY <1>1, <1>2 DEF NInv, Names!NamesAndOnlyNames, Names!KeyIsTheName
<1>3. CASE pc' # "match"
  <2>1. pc' = "refused" /\ source[1] \notin Names!idStart \cup {"\\"}
    BY <1>3 DEF Names!TextCheck
  <2>2. source \in Seq(Signs) /\ Len(source) \in Nat /\ Len(source) # 0
    BY <1>1, LenProperties, EmptySeq DEF IsRun
  <2>3. 1 \in 1 .. Len(source) /\ 1 \in 1 .. Len(source) + 1 /\ 2 \in 1 .. Len(source) + 1
        /\ ~ (1 > Len(source)) /\ 1 + 1 = 2
    BY <2>2
  <2>4. source[1] \in Signs
    BY <2>2, <2>3, ElementOfSeq
  <2>5. ~ Names!EscapeAt(1)
    BY <2>1 DEF Names!EscapeAt
  <2>6. Names!ReadingsFrom[0 + 1] = Before(source[1], Names!ReadingsFrom[2])
    BY <2>1, <2>2, <2>3, <2>5, ReadingsUnfold
  <2>7. Names!ReadingsFrom[2] \in SUBSET Seq(Signs)
    BY <2>2, <2>3, ReadingsUnfold
  <2>8. ~ AllowedBehind(<<>>, source[1])
    BY <2>1 DEF AllowedBehind
  <2>9. SpeltAs(<<>>, 0)
    BY <1>1, NothingSpelt
  <2>10. Names!IdentifierNames = {}
    BY <1>1, <2>4, <2>6, <2>7, <2>8, <2>9, NoNameBehind
  <2>. QED
    BY <1>1, <2>1, <2>10, RefusedKeeps
<1>. QED
  BY <1>2, <1>3

LEMMA MatchTextKeeps ==
  ASSUME NInv, Names!MatchText
  PROVE  NInv'
<1>1. /\ pc = "match" /\ i = 0 /\ out = <<>> /\ IsRun(source)
      /\ UNCHANGED <<port, source, i, out>>
      /\ key' = source
  BY DEF NInv, Names!MatchText
<1>2. CASE Names!IsValue(source)
  <2>1. pc' = "taken" /\ tin' = "VL"
    BY <1>2 DEF Names!MatchText
  <2>. QED
    BY <1>1, <2>1 DEF NInv, Names!NamesAndOnlyNames, Names!KeyIsTheName
<1>3. CASE ~ Names!IsValue(source)
  <2>1. pc' = "decode" /\ tin' = "TX" /\ val' = source
    BY <1>3 DEF Names!MatchText
  <2>2. SpeltAs(<<>>, 0)' = SpeltAs(<<>>, 0)
    BY <1>1, ReadingsStay
  <2>3. SpeltAs(out, i)'
    BY <1>1, <2>2, NothingSpelt
  <2>. QED
    BY <1>1, <2>1, <2>3 DEF NInv, Names!NamesAndOnlyNames, Names!KeyIsTheName
<1>. QED
  BY <1>2, <1>3

(* What stands at the cursor.                                                *)
LEMMA AtCursor ==
  ASSUME NInv, Names!More
  PROVE  /\ IsRun(source) /\ SpeltAs(out, i) /\ source \in Seq(Signs)
         /\ tin = "TX" /\ val = source /\ key = source
         /\ i \in Nat /\ Len(source) \in Nat /\ i + 1 \in 1 .. Len(source)
         /\ source[i + 1] \in Signs
         /\ Names!AtEscape => (Names!EscapeStands <=> Names!EscapeAt(i + 1))
         /\ Names!AtEscape /\ Names!EscapeStands =>
              /\ i + 6 \in 1 .. Len(source)
              /\ Names!ReadingsFrom[i + 1] = Before(Names!Escaped, Names!ReadingsFrom[(i + 6) + 1])
              /\ Names!ReadingsFrom[(i + 6) + 1] \subseteq Seq(Signs)
         /\ Names!AtEscape /\ ~ Names!EscapeStands => Names!ReadingsFrom[i + 1] = {}
         /\ ~ Names!AtEscape =>
              /\ source[i + 1] # "\\"
              /\ Names!ReadingsFrom[i + 1] = Before(source[i + 1], Names!ReadingsFrom[(i + 1) + 1])
              /\ Names!ReadingsFrom[(i + 1) + 1] \subseteq Seq(Signs)
<1>1. /\ IsRun(source) /\ SpeltAs(out, i) /\ source \in Seq(Signs)
      /\ tin = "TX" /\ val = source /\ key = source
  BY DEF NInv, Names!More, IsRun
<1>2. Len(source) \in Nat
  BY <1>1, LenProperties
<1>3. i \in Nat /\ i + 1 \in 1 .. Len(source)
  BY <1>1, <1>2 DEF SpeltAs, Names!More
<1>4. source[i + 1] \in Signs
  BY <1>1, <1>3, ElementOfSeq
<1>5. Names!AtEscape => (Names!EscapeStands <=> Names!EscapeAt(i + 1))
  BY <1>1, <1>3, EscapesAreTheSame
<1>6. i + 1 \in 1 .. Len(source) + 1 /\ ~ (i + 1 > Len(source))
  BY <1>2, <1>3
<1>7. Names!ReadingsFrom[i + 1] =
        IF i + 1 > Len(source) THEN {<<>>}
        ELSE IF Names!EscapeAt(i + 1)
             THEN Before(Names!CodeUnit(SubSeq(source, (i + 1) + 2, (i + 1) + 5)),
                         Names!ReadingsFrom[(i + 1) + 6])
        ELSE IF source[i + 1] # "\\" THEN Before(source[i + 1], Names!ReadingsFrom[(i + 1) + 1])
        ELSE {}
  BY <1>1, <1>6, ReadingsUnfold
<1>8. ASSUME Names!AtEscape, Names!EscapeStands
      PROVE  /\ i + 6 \in 1 .. Len(source)
             /\ Names!ReadingsFrom[i + 1] = Before(Names!Escaped, Names!ReadingsFrom[(i + 6) + 1])
             /\ Names!ReadingsFrom[(i + 6) + 1] \subseteq Seq(Signs)
  <2>1. Names!EscapeAt(i + 1)
    BY <1>5, <1>8
  <2>2. i + 6 <= Len(source)
    BY <1>2, <1>3, <2>1 DEF Names!EscapeAt
  <2>3. /\ (i + 1) + 2 = i + 3 /\ (i + 1) + 5 = i + 6 /\ (i + 1) + 6 = (i + 6) + 1
        /\ i + 6 \in 1 .. Len(source) /\ (i + 6) + 1 \in 1 .. Len(source) + 1
    BY <1>2, <1>3, <2>2
  <2>4. Names!ReadingsFrom[(i + 6) + 1] \subseteq Seq(Signs)
    BY <1>1, <2>3, ReadingsUnfold
  <2>5. Names!ReadingsFrom[i + 1] = Before(Names!Escaped, Names!ReadingsFrom[(i + 6) + 1])
    BY <1>6, <1>7, <2>1, <2>3 DEF Names!Escaped
  <2>. QED
    BY <2>3, <2>4, <2>5
<1>9. ASSUME Names!AtEscape, ~ Names!EscapeStands
      PROVE  Names!ReadingsFrom[i + 1] = {}
  <2>1. ~ Names!EscapeAt(i + 1) /\ source[i + 1] = "\\"
    BY <1>5, <1>9 DEF Names!AtEscape
  <2>. QED
    BY <1>6, <1>7, <2>1
<1>10. ASSUME ~ Names!AtEscape
       PROVE  /\ source[i + 1] # "\\"
              /\ Names!ReadingsFrom[i + 1] = Before(source[i + 1], Names!ReadingsFrom[(i + 1) + 1])
              /\ Names!ReadingsFrom[(i + 1) + 1] \subseteq Seq(Signs)
  <2>1. source[i + 1] # "\\"
    BY <1>10 DEF Names!AtEscape
  <2>2. ~ Names!EscapeAt(i + 1)
    BY <2>1 DEF Names!EscapeAt
  <2>3. (i + 1) + 1 \in 1 .. Len(source) + 1
    BY <1>2, <1>3
  <2>4. Names!ReadingsFrom[(i + 1) + 1] \subseteq Seq(Signs)
    BY <1>1, <2>3, ReadingsUnfold
  <2>. QED
    BY <1>6, <1>7, <2>1, <2>2, <2>4
<1>. QED
  BY <1>1, <1>2, <1>3, <1>4, <1>5, <1>8, <1>9, <1>10

(* A character decoded.                                                      *)
LEMMA DecodedKeeps ==
  ASSUME NInv, pc = "decode", NEW c \in Signs, AllowedBehind(out, c),
         NEW h \in 1 .. Len(source), Names!ReadingsFrom[i + 1] = Before(c, Names!ReadingsFrom[h + 1]),
         out' = Append(out, c), i' = h,
         UNCHANGED <<port, source, pc, tin, val, key>>
  PROVE  NInv'
<1>1. IsRun(source) /\ SpeltAs(out, i) /\ tin = "TX" /\ val = source /\ key = source
  BY DEF NInv
<1>2. SpeltAs(Append(out, c), h)
  BY <1>1, OneFurther
<1>3. Names!ReadingsFrom' = Names!ReadingsFrom /\ Names!Readings' = Names!Readings /\ source' = source
  BY ReadingsStay
<1>4. SpeltAs(out, i)'
  BY <1>2, <1>3 DEF SpeltAs
<1>. QED
  BY <1>1, <1>4 DEF NInv, Names!NamesAndOnlyNames, Names!KeyIsTheName

LEMMA DecodeEscapeKeeps ==
  ASSUME NInv, Names!DecodeEscape
  PROVE  NInv'
<1>1. Names!AtEscape /\ Names!EscapeStands /\ Names!More /\ pc = "decode"
  BY DEF Names!DecodeEscape, Names!AtEscape, Names!More
<1>2. Names!Escaped \in Signs
  BY UnitsAreSigns DEF Names!Escaped
<1>3. AllowedBehind(out, Names!Escaped)
  BY DEF Names!DecodeEscape, Names!Allowed, AllowedBehind
<1>. QED
  BY <1>1, <1>2, <1>3, AtCursor, DecodedKeeps DEF Names!DecodeEscape

LEMMA DecodeCharKeeps ==
  ASSUME NInv, Names!DecodeChar
  PROVE  NInv'
<1>1. Names!More /\ ~ Names!AtEscape /\ pc = "decode"
  BY DEF Names!DecodeChar, Names!AtEscape, Names!More
<1>2. AllowedBehind(out, source[i + 1])
  BY DEF Names!DecodeChar, Names!Allowed, AllowedBehind
<1>. QED
  BY <1>1, <1>2, AtCursor, DecodedKeeps DEF Names!DecodeChar

LEMMA RefuseNameKeeps ==
  ASSUME NInv, Names!RefuseName
  PROVE  NInv'
<1>1. Names!More /\ pc' = "refused" /\ source' = source
  BY DEF Names!RefuseName
<1>2. IsRun(source) /\ SpeltAs(out, i)
  BY <1>1, AtCursor
<1>3. CASE Names!AtEscape /\ ~ Names!EscapeStands
  <2>1. Names!ReadingsFrom[i + 1] = {}
    BY <1>1, <1>3, AtCursor
  <2>2. Names!IdentifierNames = {}
    BY <1>2, <2>1 DEF SpeltAs, Names!IdentifierNames
  <2>. QED
    BY <1>1, <2>2, RefusedKeeps
<1>4. CASE Names!AtEscape /\ Names!EscapeStands
  <2>1. Names!Escaped = "surrogate" \/ ~ AllowedBehind(out, Names!Escaped)
    BY <1>4 DEF Names!RefuseName, Names!Allowed, AllowedBehind
  <2>2. ~ AllowedBehind(out, Names!Escaped)
    BY <2>1, CharsAreSigns DEF AllowedBehind
  <2>3. Names!Escaped \in Signs
    BY UnitsAreSigns DEF Names!Escaped
  <2>4. /\ Names!ReadingsFrom[i + 1] = Before(Names!Escaped, Names!ReadingsFrom[(i + 6) + 1])
        /\ Names!ReadingsFrom[(i + 6) + 1] \in SUBSET Seq(Signs)
    BY <1>1, <1>4, AtCursor
  <2>5. Names!IdentifierNames = {}
    BY <1>2, <2>2, <2>3, <2>4, NoNameBehind
  <2>. QED
    BY <1>1, <2>5, RefusedKeeps
<1>5. CASE ~ Names!AtEscape
  <2>1. ~ AllowedBehind(out, source[i + 1])
    BY <1>5 DEF Names!RefuseName, Names!Allowed, AllowedBehind
  <2>2. /\ source[i + 1] \in Signs
        /\ Names!ReadingsFrom[i + 1] = Before(source[i + 1], Names!ReadingsFrom[(i + 1) + 1])
        /\ Names!ReadingsFrom[(i + 1) + 1] \in SUBSET Seq(Signs)
    BY <1>1, <1>5, AtCursor
  <2>3. Names!IdentifierNames = {}
    BY <1>2, <2>1, <2>2, NoNameBehind
  <2>. QED
    BY <1>1, <2>3, RefusedKeeps
<1>. QED
  BY <1>3, <1>4, <1>5

LEMMA WriteBackKeeps ==
  ASSUME NInv, Names!WriteBack
  PROVE  NInv'
<1>1. /\ IsRun(source) /\ SpeltAs(out, Len(source)) /\ val = source /\ key = source
      /\ source' = source /\ pc' = "taken"
  BY DEF NInv, Names!WriteBack
<1>2. key' = out /\ val' = out
  <2>1. CASE out # val
    BY <2>1 DEF Names!WriteBack
  <2>2. CASE out = val
    BY <1>1, <2>2 DEF Names!WriteBack
  <2>. QED
    BY <2>1, <2>2
<1>3. Names!IdentifierNames' = {out}
  BY <1>1, WholeName, ReadingsStay
<1>. QED
  BY <1>1, <1>2, <1>3 DEF NInv, Names!NamesAndOnlyNames, Names!KeyIsTheName

LEMMA NameBegins ==
  ASSUME Names!Init
  PROVE  NInv
<1>1. source \in Seq(STRING) /\ source # <<>>
  BY KeysAssumption DEF Names!Init
<1>2. source \in Seq(Signs)
  BY <1>1, SeqMonotonic DEF Signs
<1>. QED
  BY <1>1, <1>2 DEF Names!Init, NInv, IsRun, Names!NamesAndOnlyNames, Names!KeyIsTheName

LEMMA NameGoesOn ==
  ASSUME NInv, [Names!Next]_Names!vars
  PROVE  NInv'
<1>1. CASE Names!Next
  BY <1>1, TextCheckKeeps, MatchTextKeeps, DecodeEscapeKeeps, DecodeCharKeeps,
     RefuseNameKeeps, WriteBackKeeps DEF Names!Next
<1>2. CASE UNCHANGED Names!vars
  <2>1. UNCHANGED <<port, source, pc, i, out, tin, val, key>>
    BY <1>2 DEF Names!vars
  <2>2. Names!IdentifierNames' = Names!IdentifierNames /\ \A o, j : SpeltAs(o, j)' = SpeltAs(o, j)
    BY <2>1, ReadingsStay
  <2>3. SpeltAs(out, i)' = SpeltAs(out, i)
    BY <2>1, <2>2
  <2>. QED
    BY <2>1, <2>2, <2>3 DEF NInv, Names!NamesAndOnlyNames, Names!KeyIsTheName
<1>. QED
  BY <1>1, <1>2

-----------------------------------------------------------------------------
(* An uppercase hexadecimal literal.                                         *)

(* What is so from the first number on, each from the one before, is so of   *)
(* every number: P is the set of those it is so of.                          *)
LEMMA FromTheFirst ==
  ASSUME NEW P, 0 \in P, \A k \in Nat : k \in P => k + 1 \in P
  PROVE  \A k \in Nat : k \in P
<1> DEFINE Bad == {k \in Nat : k \notin P}
<1> SUFFICES ASSUME Bad # {} PROVE FALSE
  OBVIOUS
<1>1. PICK x \in Bad : \A y \in Bad : x <= y
  <2>1. Bad \in SUBSET Nat
    OBVIOUS
  <2> HIDE DEF Bad
  <2>. QED
    BY <2>1, LeastNumber
<1>2. x \in Nat /\ x # 0 /\ x \notin P
  BY <1>1
<1>3. x - 1 \in Nat /\ ~ (x <= x - 1) /\ (x - 1) + 1 = x
  BY <1>2
<1>4. x - 1 \notin Bad
  <2> HIDE DEF Bad
  <2>. QED
    BY <1>1, <1>3
<1>. QED
  BY <1>2, <1>3, <1>4

(* A function whose every value is made of the one before it: there is one,  *)
(* on all the numbers.                                                       *)
Chain(f, first, step) ==
    f = [k \in Nat |-> IF k = 0 THEN first ELSE step[k][f[k - 1]]]

LEMMA ChainsExist ==
  ASSUME NEW V, NEW first \in V, NEW step, \A k \in Nat \ {0} : step[k] \in [V -> V]
  PROVE  \E f : Chain(f, first, step) /\ \A k \in Nat : f[k] \in V
<1> DEFINE R(f, n) == /\ f \in [0 .. n -> V]
                      /\ f[0] = first
                      /\ \A k \in 1 .. n : f[k] = step[k][f[k - 1]]
           P == {n \in Nat : \E f : R(f, n)}
<1>1. \A n \in Nat : \E f : R(f, n)
  <2>1. 0 \in P
    <3> DEFINE f == [k \in 0 .. 0 |-> first]
    <3>1. R(f, 0)
      OBVIOUS
    <3>. QED
      BY <3>1
  <2>2. ASSUME NEW n \in Nat, n \in P PROVE n + 1 \in P
    <3>1. PICK f : R(f, n)
      BY <2>2
    <3> DEFINE v == step[n + 1][f[n]]
               g == [k \in 0 .. n + 1 |-> IF k = n + 1 THEN v ELSE f[k]]
    <3>2. f[n] \in V /\ n + 1 \in Nat \ {0}
      BY <3>1
    <3>3. v \in V
      BY <3>2
    <3>4. \A k \in 0 .. n + 1 : k = n + 1 \/ k \in 0 .. n
      OBVIOUS
    <3>5. g \in [0 .. n + 1 -> V]
      <4> HIDE DEF v
      <4>. QED
        BY <3>1, <3>3, <3>4
    <3>6. \A k \in 0 .. n : g[k] = f[k]
      OBVIOUS
    <3>7. g[n + 1] = v
      OBVIOUS
    <3> HIDE DEF g
    <3>8. \A k \in 1 .. n + 1 : g[k] = step[k][g[k - 1]]
      <4> SUFFICES ASSUME NEW k \in 1 .. n + 1 PROVE g[k] = step[k][g[k - 1]]
        OBVIOUS
      <4>1. k - 1 \in 0 .. n /\ (k = n + 1 \/ k \in 1 .. n) /\ (k = n + 1 => k - 1 = n)
        OBVIOUS
      <4>2. CASE k = n + 1
        BY <3>6, <3>7, <4>1, <4>2
      <4>3. CASE k \in 1 .. n
        <5>1. g[k] = f[k] /\ g[k - 1] = f[k - 1]
          BY <3>6, <4>1, <4>3
        <5>2. f[k] = step[k][f[k - 1]]
          BY <3>1, <4>3
        <5>. QED
          BY <5>1, <5>2
      <4>. QED
        BY <4>1, <4>2, <4>3
    <3>9. g[0] = first
      BY <3>1, <3>6
    <3>10. R(g, n + 1)
      BY <3>5, <3>8, <3>9
    <3>. QED
      BY <3>10
  <2> HIDE DEF P
  <2>3. \A n \in Nat : n \in P
    BY <2>1, <2>2, FromTheFirst
  <2>. QED
    BY <2>3 DEF P
<1>2. ASSUME NEW f, NEW g, NEW n \in Nat, NEW m \in Nat, R(f, n), R(g, m)
      PROVE  \A k \in Nat : k <= n /\ k <= m => f[k] = g[k]
  <2> DEFINE Q == {k \in Nat : k <= n /\ k <= m => f[k] = g[k]}
  <2>1. 0 \in Q
    BY <1>2
  <2>2. ASSUME NEW k \in Nat, k \in Q PROVE k + 1 \in Q
    <3> SUFFICES ASSUME k + 1 <= n, k + 1 <= m PROVE f[k + 1] = g[k + 1]
      OBVIOUS
    <3>1. k + 1 \in 1 .. n /\ k + 1 \in 1 .. m /\ (k + 1) - 1 = k /\ k <= n /\ k <= m
      OBVIOUS
    <3>2. f[k] = g[k]
      BY <2>2, <3>1
    <3>3. f[k + 1] = step[k + 1][f[k]] /\ g[k + 1] = step[k + 1][g[k]]
      BY <1>2, <3>1
    <3>. QED
      BY <3>2, <3>3
  <2> HIDE DEF Q
  <2>3. \A k \in Nat : k \in Q
    BY <2>1, <2>2, FromTheFirst
  <2>. QED
    BY <2>3 DEF Q
<1> DEFINE c(k) == CHOOSE f : R(f, k)
           F == [k \in Nat |-> c(k)[k]]
<1>3. \A k \in Nat : R(c(k), k)
  <2> HIDE DEF R
  <2>. QED
    BY <1>1
<1> HIDE DEF c
<1>4. F[0] = first /\ \A k \in Nat : F[k] \in V
  <2>1. c(0)[0] = first
    BY <1>3
  <2>2. \A k \in Nat : c(k)[k] \in V
    BY <1>3
  <2>. QED
    BY <2>1, <2>2
<1>5. ASSUME NEW k \in Nat, k # 0 PROVE F[k] = step[k][F[k - 1]]
  <2>1. k - 1 \in Nat /\ k \in 1 .. k /\ k - 1 <= k /\ k - 1 <= k - 1
    BY <1>5
  <2>2. R(c(k), k) /\ R(c(k - 1), k - 1)
    BY <1>3, <2>1
  <2>3. c(k)[k - 1] = c(k - 1)[k - 1]
    <3> HIDE DEF R
    <3>. QED
      BY <1>2, <2>1, <2>2
  <2>4. c(k)[k] = step[k][c(k)[k - 1]]
    BY <2>1, <2>2
  <2>5. F[k] = c(k)[k] /\ F[k - 1] = c(k - 1)[k - 1]
    BY <2>1
  <2>. QED
    BY <2>3, <2>4, <2>5
<1>6. F = [k \in Nat |-> IF k = 0 THEN first ELSE step[k][F[k - 1]]]
  <2>1. F = [k \in Nat |-> F[k]]
    OBVIOUS
  <2> HIDE DEF F
  <2>. QED
    BY <1>4, <1>5, <2>1
<1>. QED
  <2> HIDE DEF F
  <2>. QED
    BY <1>4, <1>6 DEF Chain

(* Powers of two, as the recursion they are written as.                      *)
LEMMA Powers ==
  /\ TwoTo[0] = 1
  /\ \A k \in Nat : TwoTo[k] \in Nat \ {0} /\ TwoTo[k + 1] = 2 * TwoTo[k]
<1> DEFINE step == [k \in Nat |-> [v \in Nat |-> 2 * v]]
<1>1. PICK f : Chain(f, 1, step) /\ \A k \in Nat : f[k] \in Nat
  <2>1. \A k \in Nat \ {0} : step[k] \in [Nat -> Nat]
    OBVIOUS
  <2> HIDE DEF step
  <2>. QED
    BY <2>1, ChainsExist
<1>2. f = [k \in Nat |-> IF k = 0 THEN 1 ELSE 2 * f[k - 1]]
  <2>1. f = [k \in Nat |-> IF k = 0 THEN 1 ELSE step[k][f[k - 1]]]
    BY <1>1 DEF Chain
  <2>2. ASSUME NEW k \in Nat, k # 0 PROVE step[k][f[k - 1]] = 2 * f[k - 1]
    <3>1. f[k - 1] \in Nat
      BY <1>1, <2>2
    <3>. QED
      BY <3>1
  <2> HIDE DEF step
  <2>. QED
    BY <2>1, <2>2
<1>3. TwoTo = [k \in Nat |-> IF k = 0 THEN 1 ELSE 2 * TwoTo[k - 1]]
  BY <1>2 DEF TwoTo
<1> DEFINE P == {k \in Nat : TwoTo[k] \in Nat \ {0}}
<1>4. TwoTo[0] = 1
  BY <1>3
<1>5. ASSUME NEW k \in Nat PROVE TwoTo[k + 1] = 2 * TwoTo[k]
  <2>1. k + 1 \in Nat /\ k + 1 # 0 /\ (k + 1) - 1 = k
    OBVIOUS
  <2>. QED
    BY <1>3, <2>1
<1>6. \A k \in Nat : k \in P
  <2>1. 0 \in P
    BY <1>4
  <2>2. \A k \in Nat : k \in P => k + 1 \in P
    BY <1>5
  <2> HIDE DEF P
  <2>. QED
    BY <2>1, <2>2, FromTheFirst
<1>. QED
  BY <1>4, <1>5, <1>6

LEMMA PowerOfSum ==
  \A a, b \in Nat : TwoTo[a + b] = TwoTo[a] * TwoTo[b]
<1> DEFINE P == {b \in Nat : \A a \in Nat : TwoTo[a + b] = TwoTo[a] * TwoTo[b]}
<1>1. 0 \in P
  BY Powers
<1>2. ASSUME NEW b \in Nat, b \in P PROVE b + 1 \in P
  <2> SUFFICES ASSUME NEW a \in Nat PROVE TwoTo[a + (b + 1)] = TwoTo[a] * TwoTo[b + 1]
    OBVIOUS
  <2>1. TwoTo[a + b] = TwoTo[a] * TwoTo[b]
    BY <1>2
  <2>2. TwoTo[a + (b + 1)] = 2 * TwoTo[a + b]
    BY Powers
  <2>3. TwoTo[b + 1] = 2 * TwoTo[b] /\ TwoTo[a] \in Nat /\ TwoTo[b] \in Nat
    BY Powers
  <2>4. \A x, y \in Nat : 2 * (x * y) = x * (2 * y)
    OBVIOUS
  <2>. QED
    BY <2>1, <2>2, <2>3, <2>4
<1> HIDE DEF P
<1>3. \A b \in Nat : b \in P
  BY <1>1, <1>2, FromTheFirst
<1>. QED
  BY <1>3 DEF P

LEMMA ProductIsNat ==
  ASSUME NEW x \in Nat, NEW y \in Nat
  PROVE  x * y \in Nat
OBVIOUS

(* Powers grow with their exponent, and by a factor two at least.            *)
LEMMA PowersGrow ==
  ASSUME NEW a \in Nat, NEW b \in Nat
  PROVE  /\ a <= b => TwoTo[a] <= TwoTo[b]
         /\ a < b => 2 * TwoTo[a] <= TwoTo[b]
         /\ TwoTo[a] < TwoTo[b] => a < b
         /\ TwoTo[a] <= TwoTo[b] => a <= b
<1>1. \A c, d \in Nat : c <= d => TwoTo[c] <= TwoTo[d]
  <2> SUFFICES ASSUME NEW c \in Nat, NEW d \in Nat, c <= d PROVE TwoTo[c] <= TwoTo[d]
    OBVIOUS
  <2>1. d - c \in Nat /\ c + (d - c) = d
    OBVIOUS
  <2>2. TwoTo[d] = TwoTo[c] * TwoTo[d - c]
    BY <2>1, PowerOfSum
  <2>3. TwoTo[c] \in Nat /\ TwoTo[d - c] \in Nat \ {0}
    BY <2>1, Powers
  <2>4. \A x \in Nat, y \in Nat \ {0} : x <= x * y
    OBVIOUS
  <2>. QED
    BY <2>2, <2>3, <2>4
<1>2. \A c, d \in Nat : c < d => 2 * TwoTo[c] <= TwoTo[d]
  <2> SUFFICES ASSUME NEW c \in Nat, NEW d \in Nat, c < d PROVE 2 * TwoTo[c] <= TwoTo[d]
    OBVIOUS
  <2>1. c + 1 \in Nat /\ c + 1 <= d
    OBVIOUS
  <2>. QED
    BY <1>1, <2>1, Powers
<1>3. TwoTo[a] \in Nat \ {0} /\ TwoTo[b] \in Nat \ {0}
  BY Powers
<1>. QED
  BY <1>1, <1>2, <1>3

-----------------------------------------------------------------------------
(* What a run of digits denotes.                                             *)

Digit == 0 .. TwoTo[Bits] - 1

Base == TwoTo[Bits]

LEMMA Bases == Bits \in Nat \ {0} /\ Base \in Nat \ {0} /\ Digit = 0 .. Base - 1 /\ Digit \subseteq Nat
<1>1. Bits \in Nat \ {0}
  BY WidthsAssumption
<1>2. Base \in Nat \ {0}
  BY <1>1, Powers DEF Base
<1>. QED
  BY <1>1, <1>2 DEF Base, Digit

(* The weight of the place behind n digits.                                  *)
LEMMA Weights ==
  /\ TwoTo[Bits * 0] = 1
  /\ \A n \in Nat : /\ Bits * n \in Nat /\ TwoTo[Bits * n] \in Nat \ {0}
                    /\ TwoTo[Bits * (n + 1)] = TwoTo[Bits * n] * Base
<1>1. Bits * 0 = 0
  BY Bases
<1>2. ASSUME NEW n \in Nat
      PROVE  Bits * n \in Nat /\ Bits * (n + 1) = Bits * n + Bits
  BY Bases
<1>3. ASSUME NEW n \in Nat PROVE TwoTo[Bits * (n + 1)] = TwoTo[Bits * n] * Base
  <2> DEFINE a == Bits * n
  <2>1. a \in Nat /\ Bits * (n + 1) = a + Bits
    BY <1>2
  <2> HIDE DEF a
  <2>2. TwoTo[a + Bits] = TwoTo[a] * TwoTo[Bits]
    BY <2>1, Bases, PowerOfSum
  <2>. QED
    BY <2>1, <2>2 DEF Base, a
<1>. QED
  BY <1>1, <1>2, <1>3, Powers

(* The partial sums that Pack is the last of.                                *)
Packs(run, p) ==
    /\ p[0] = 0
    /\ \A k \in 1 .. Len(run) : p[k] = p[k - 1] * Base + run[k]

LEMMA PackIsTheLast ==
  ASSUME NEW run \in Seq(Digit)
  PROVE  \E p \in [0 .. Len(run) -> Nat] : Packs(run, p) /\ Pack(run) = p[Len(run)]
<1> DEFINE n == Len(run)
           dig == [k \in Nat |-> IF k \in 1 .. n THEN run[k] ELSE 0]
           step == [k \in Nat |-> [v \in Nat |-> v * Base + dig[k]]]
<1>1. n \in Nat /\ \A k \in 1 .. n : run[k] \in Nat
  BY Bases
<1>2. \A k \in Nat : dig[k] \in Nat
  BY <1>1
<1> HIDE DEF n
<1>3. \A k \in Nat \ {0} : step[k] \in [Nat -> Nat]
  <2> HIDE DEF dig
  <2>1. \A v, d \in Nat : v * Base + d \in Nat
    BY Bases
  <2>. QED
    BY <1>2, <2>1
<1>4. PICK f : Chain(f, 0, step) /\ \A k \in Nat : f[k] \in Nat
  <2> HIDE DEF step, dig
  <2>. QED
    BY <1>3, ChainsExist
<1> DEFINE g == [k \in 0 .. n |-> f[k]]
<1>5. f[0] = 0 /\ \A k \in 1 .. n : f[k] = f[k - 1] * Base + run[k]
  <2>1. f[0] = 0 /\ \A k \in Nat \ {0} : f[k] = step[k][f[k - 1]]
    <3> HIDE DEF step, dig
    <3>. QED
      BY <1>4 DEF Chain
  <2> SUFFICES ASSUME NEW k \in 1 .. n PROVE f[k] = f[k - 1] * Base + run[k]
    BY <2>1
  <2>2. k \in Nat \ {0} /\ k - 1 \in Nat
    BY <1>1
  <2>3. f[k - 1] \in Nat
    BY <1>4, <2>2
  <2>4. step[k][f[k - 1]] = f[k - 1] * Base + dig[k]
    <3> HIDE DEF dig
    <3>. QED
      BY <2>2, <2>3
  <2>5. dig[k] = run[k]
    BY <2>2
  <2> HIDE DEF step, dig
  <2>. QED
    BY <2>1, <2>2, <2>4, <2>5
<1> HIDE DEF step, dig
<1>6. g = [k \in 0 .. n |-> IF k = 0 THEN 0 ELSE g[k - 1] * TwoTo[Bits] + run[k]]
  <2>1. \A k \in 0 .. n : g[k] = f[k]
    OBVIOUS
  <2>2. \A k \in 0 .. n : k # 0 => k \in 1 .. n /\ k - 1 \in 0 .. n
    BY <1>1
  <2>3. \A k \in 0 .. n : f[k] = IF k = 0 THEN 0 ELSE g[k - 1] * TwoTo[Bits] + run[k]
    <3> HIDE DEF g
    <3>. QED
      BY <1>5, <2>1, <2>2 DEF Base
  <2>4. g = [k \in 0 .. n |-> g[k]]
    OBVIOUS
  <2> HIDE DEF g
  <2>. QED
    BY <2>1, <2>3, <2>4
<1> DEFINE R(h) == h = [k \in 0 .. n |-> IF k = 0 THEN 0 ELSE h[k - 1] * TwoTo[Bits] + run[k]]
           c == CHOOSE h : R(h)
<1>7. R(c)
  <2> HIDE DEF g
  <2>. QED
    BY <1>6
<1>8. Pack(run) = c[n]
  BY DEF Pack, n
<1> HIDE DEF c
<1>9. Packs(run, c)
  <2>1. 0 \in 0 .. n /\ \A k \in 1 .. n : k \in 0 .. n /\ k # 0
    BY <1>1
  <2>. QED
    BY <1>7, <2>1 DEF Packs, Base, n
<1>10. c \in [0 .. n -> Nat]
  <2> DEFINE P == {k \in Nat : k <= n => c[k] \in Nat}
  <2>1. 0 \in P
    BY <1>9 DEF Packs
  <2>2. ASSUME NEW k \in Nat, k \in P PROVE k + 1 \in P
    <3> SUFFICES ASSUME k + 1 <= n PROVE c[k + 1] \in Nat
      OBVIOUS
    <3>1. k + 1 \in 1 .. n /\ k <= n /\ (k + 1) - 1 = k
      BY <1>1
    <3>2. c[k] \in Nat /\ run[k + 1] \in Nat
      BY <1>1, <2>2, <3>1
    <3>3. c[k + 1] = c[k] * Base + run[k + 1]
      BY <1>9, <3>1 DEF Packs, n
    <3>4. \A v, d \in Nat : v * Base + d \in Nat
      BY Bases
    <3>. QED
      BY <3>2, <3>3, <3>4
  <2> HIDE DEF P
  <2>3. \A k \in Nat : k \in P
    BY <2>1, <2>2, FromTheFirst
  <2>4. \A k \in 0 .. n : c[k] \in Nat
    BY <1>1, <2>3 DEF P
  <2>. QED
    BY <1>7, <2>4
<1>. QED
  BY <1>8, <1>9, <1>10 DEF n

LEMMA PackOfNone == Pack(<<>>) = 0
<1>1. <<>> \in Seq(Digit) /\ Len(<<>>) = 0
  OBVIOUS
<1>. QED
  BY <1>1, PackIsTheLast DEF Packs

LEMMA PackOfMore ==
  ASSUME NEW run \in Seq(Digit), NEW d \in Digit
  PROVE  /\ Append(run, d) \in Seq(Digit)
         /\ Pack(run) \in Nat
         /\ Pack(Append(run, d)) = Pack(run) * Base + d
<1> DEFINE more == Append(run, d)
           n == Len(run)
<1>1. /\ more \in Seq(Digit) /\ n \in Nat /\ Len(more) = n + 1 /\ more[n + 1] = d
      /\ \A k \in 1 .. n : more[k] = run[k]
  OBVIOUS
<1>2. PICK p \in [0 .. n -> Nat] : Packs(run, p) /\ Pack(run) = p[n]
  BY PackIsTheLast
<1> HIDE DEF more
<1>3. PICK q \in [0 .. n + 1 -> Nat] : Packs(more, q) /\ Pack(more) = q[n + 1]
  BY <1>1, PackIsTheLast
<1> HIDE DEF n
<1> DEFINE P == {k \in Nat : k <= n => p[k] = q[k]}
<1>4. 0 \in P
  BY <1>2, <1>3 DEF Packs
<1>5. ASSUME NEW k \in Nat, k \in P PROVE k + 1 \in P
  <2> SUFFICES ASSUME k + 1 <= n PROVE p[k + 1] = q[k + 1]
    OBVIOUS
  <2>1. k + 1 \in 1 .. n /\ k + 1 \in 1 .. n + 1 /\ k <= n /\ (k + 1) - 1 = k
    BY <1>1
  <2>2. p[k] = q[k] /\ more[k + 1] = run[k + 1]
    BY <1>1, <1>5, <2>1
  <2>3. p[k + 1] = p[k] * Base + run[k + 1]
    BY <1>2, <2>1 DEF Packs, n
  <2>4. q[k + 1] = q[k] * Base + more[k + 1]
    BY <1>1, <1>3, <2>1 DEF Packs
  <2>. QED
    BY <2>2, <2>3, <2>4
<1> HIDE DEF P
<1>6. \A k \in Nat : k \in P
  BY <1>4, <1>5, FromTheFirst
<1>7. p[n] = q[n]
  BY <1>1, <1>6 DEF P
<1>8. q[n + 1] = q[n] * Base + d
  <2>1. n + 1 \in 1 .. n + 1 /\ (n + 1) - 1 = n
    BY <1>1
  <2>. QED
    BY <1>1, <1>3, <2>1 DEF Packs
<1>9. p[n] \in Nat
  BY <1>1
<1>. QED
  BY <1>1, <1>2, <1>3, <1>7, <1>8, <1>9 DEF more

(* A run that is not empty is what stands before its last digit, and that.   *)
LEMMA LastDigit ==
  ASSUME NEW run \in Seq(Digit), NEW n \in Nat, Len(run) = n + 1
  PROVE  \E init \in Seq(Digit), d \in Digit :
            /\ Len(init) = n /\ run = Append(init, d) /\ d = run[n + 1]
            /\ \A k \in 1 .. n : init[k] = run[k]
<1> DEFINE init == [k \in 1 .. n |-> run[k]]
<1>1. \A k \in 1 .. n + 1 : run[k] \in Digit
  OBVIOUS
<1>2. init \in Seq(Digit) /\ Len(init) = n
  BY <1>1
<1>3. n + 1 \in 1 .. n + 1 /\ run[n + 1] \in Digit
  BY <1>1
<1>4. \A k \in 1 .. n : init[k] = run[k]
  OBVIOUS
<1> HIDE DEF init
<1>5. run = Append(init, run[n + 1])
  <2>1. /\ Append(init, run[n + 1]) \in Seq(Digit)
        /\ Len(Append(init, run[n + 1])) = n + 1
        /\ Append(init, run[n + 1])[n + 1] = run[n + 1]
        /\ \A k \in 1 .. n : Append(init, run[n + 1])[k] = init[k]
    BY <1>2, <1>3
  <2>2. \A k \in 1 .. n + 1 : k = n + 1 \/ k \in 1 .. n
    OBVIOUS
  <2>3. \A k \in 1 .. n + 1 : Append(init, run[n + 1])[k] = run[k]
    BY <1>4, <2>1, <2>2
  <2> DEFINE other == Append(init, run[n + 1])
  <2> HIDE DEF other
  <2>4. other \in Seq(Digit) /\ Len(other) = n + 1 /\ \A k \in 1 .. n + 1 : other[k] = run[k]
    BY <2>1, <2>3 DEF other
  <2>5. run = other
    BY <2>4, SeqEqual
  <2>. QED
    BY <2>5 DEF other
<1>. QED
  BY <1>2, <1>3, <1>4, <1>5

(* What is so of no digits, and of one more whenever it is so of a run.      *)
LEMMA RunByRun ==
  ASSUME NEW P, <<>> \in P,
         \A run \in Seq(Digit), d \in Digit : run \in P => Append(run, d) \in P
  PROVE  \A run \in Seq(Digit) : run \in P
<1> DEFINE Q == {n \in Nat : \A run \in Seq(Digit) : Len(run) = n => run \in P}
<1>1. 0 \in Q
  <2>1. \A run \in Seq(Digit) : Len(run) = 0 => run = <<>>
    BY EmptySeq
  <2>. QED
    BY <2>1
<1>2. ASSUME NEW n \in Nat, n \in Q PROVE n + 1 \in Q
  <2> SUFFICES ASSUME NEW run \in Seq(Digit), Len(run) = n + 1 PROVE run \in P
    OBVIOUS
  <2>1. PICK init \in Seq(Digit), d \in Digit : Len(init) = n /\ run = Append(init, d)
    BY LastDigit
  <2>. QED
    BY <1>2, <2>1
<1> HIDE DEF Q
<1>3. \A n \in Nat : n \in Q
  BY <1>1, <1>2, FromTheFirst
<1>. QED
  BY <1>3 DEF Q

(* A run's number is below the weight of the place before it, and zero when  *)
(* every digit is.                                                           *)
LEMMA PackBounds ==
  \A run \in Seq(Digit) :
     /\ Pack(run) \in Nat
     /\ Pack(run) < TwoTo[Bits * Len(run)]
     /\ Pack(run) = 0 <=> \A k \in 1 .. Len(run) : run[k] = 0
<1> DEFINE P == {run \in Seq(Digit) :
                    /\ Pack(run) \in Nat
                    /\ Pack(run) < TwoTo[Bits * Len(run)]
                    /\ Pack(run) = 0 <=> \A k \in 1 .. Len(run) : run[k] = 0}
<1>1. <<>> \in P
  <2>1. <<>> \in Seq(Digit) /\ Len(<<>>) = 0 /\ 1 .. 0 = {}
    OBVIOUS
  <2>2. Pack(<<>>) = 0 /\ TwoTo[Bits * Len(<<>>)] = 1
    BY <2>1, PackOfNone, Weights
  <2>3. \A k \in 1 .. Len(<<>>) : FALSE
    BY <2>1
  <2>. QED
    BY <2>1, <2>2, <2>3
<1>2. ASSUME NEW run \in Seq(Digit), NEW d \in Digit, run \in P
      PROVE  Append(run, d) \in P
  <2> DEFINE more == Append(run, d)
             n == Len(run)
             v == Pack(run)
             w == TwoTo[Bits * n]
  <2>1. more \in Seq(Digit) /\ Pack(more) = v * Base + d
    BY PackOfMore
  <2>2. /\ n \in Nat /\ Len(more) = n + 1 /\ more[n + 1] = d
        /\ \A k \in 1 .. n : more[k] = run[k]
    OBVIOUS
  <2>3. v \in Nat /\ v < w /\ (v = 0 <=> \A k \in 1 .. n : run[k] = 0)
    BY <1>2
  <2>4. w \in Nat \ {0} /\ TwoTo[Bits * (n + 1)] = w * Base
    BY <2>2, Weights
  <2>5. d \in Nat /\ d < Base /\ Base \in Nat \ {0}
    BY Bases
  <2> HIDE DEF more, n, v, w
  <2>6. v * Base + d \in Nat /\ v * Base + d < w * Base /\ (v * Base + d = 0 <=> v = 0 /\ d = 0)
    <3>1. \A x, y \in Nat, b \in Nat \ {0}, e \in Nat :
             x < y /\ e < b => x * b + e \in Nat /\ x * b + e < y * b
      OBVIOUS
    <3>2. \A x \in Nat, b \in Nat \ {0}, e \in Nat : x * b + e = 0 <=> x = 0 /\ e = 0
      OBVIOUS
    <3>. QED
      BY <2>3, <2>4, <2>5, <3>1, <3>2
  <2>7. (\A k \in 1 .. n + 1 : more[k] = 0) <=> d = 0 /\ \A k \in 1 .. n : run[k] = 0
    <3>1. \A k \in 1 .. n + 1 : k = n + 1 \/ k \in 1 .. n
      BY <2>2
    <3>2. n + 1 \in 1 .. n + 1 /\ \A k \in 1 .. n : k \in 1 .. n + 1
      BY <2>2
    <3>. QED
      BY <2>2, <3>1, <3>2
  <2>8. more \in P
    BY <2>1, <2>2, <2>3, <2>4, <2>6, <2>7
  <2>. QED
    BY <2>8 DEF more
<1> HIDE DEF P
<1>3. \A run \in Seq(Digit) : run \in P
  <2>1. \A run \in Seq(Digit), d \in Digit : run \in P => Append(run, d) \in P
    BY <1>2
  <2>. QED
    BY <1>1, <2>1, RunByRun
<1>. QED
  BY <1>3 DEF P

(* Digits behind others are their own number below the others' weight.       *)
LEMMA PackOfBoth ==
  ASSUME NEW front \in Seq(Digit)
  PROVE  \A run \in Seq(Digit) :
            Pack(front \o run) = Pack(front) * TwoTo[Bits * Len(run)] + Pack(run)
<1> DEFINE P == {run \in Seq(Digit) :
                    Pack(front \o run) = Pack(front) * TwoTo[Bits * Len(run)] + Pack(run)}
<1>1. Pack(front) \in Nat
  BY PackBounds
<1>2. <<>> \in P
  <2>1. front \o <<>> = front /\ <<>> \in Seq(Digit) /\ Len(<<>>) = 0
    OBVIOUS
  <2>2. Pack(<<>>) = 0 /\ TwoTo[Bits * Len(<<>>)] = 1
    BY <2>1, PackOfNone, Weights
  <2>3. Pack(front) = Pack(front) * 1 + 0
    BY <1>1
  <2>. QED
    BY <2>1, <2>2, <2>3
<1>3. ASSUME NEW run \in Seq(Digit), NEW d \in Digit, run \in P
      PROVE  Append(run, d) \in P
  <2> DEFINE n == Len(run)
             w == TwoTo[Bits * n]
             v == Pack(run)
             f == Pack(front)
  <2>1. /\ front \o run \in Seq(Digit) /\ Append(run, d) \in Seq(Digit)
        /\ front \o Append(run, d) = Append(front \o run, d)
        /\ Len(Append(run, d)) = n + 1 /\ n \in Nat
    <3>1. front \o Append(run, d) = Append(front \o run, d)
      OBVIOUS
    <3>. QED
      BY <3>1
  <2>2. Pack(Append(front \o run, d)) = Pack(front \o run) * Base + d
    BY <2>1, PackOfMore
  <2>3. Pack(Append(run, d)) = v * Base + d
    BY PackOfMore
  <2>4. Pack(front \o run) = f * w + v
    BY <1>3
  <2>5. f \in Nat /\ v \in Nat /\ w \in Nat /\ Base \in Nat /\ d \in Nat
    BY <1>1, <2>1, PackBounds, Weights, Bases
  <2>6. TwoTo[Bits * (n + 1)] = w * Base
    BY <2>1, Weights
  <2> HIDE DEF n, w, v, f
  <2>7. (f * w + v) * Base + d = f * (w * Base) + (v * Base + d)
    <3>1. \A a, b, c, x, y \in Nat : (a * b + c) * x + y = a * (b * x) + (c * x + y)
      OBVIOUS
    <3>. QED
      BY <2>5, <3>1
  <2>. QED
    BY <2>1, <2>2, <2>3, <2>4, <2>6, <2>7 DEF f
<1> HIDE DEF P
<1>4. \A run \in Seq(Digit) : run \in P
  <2>1. \A run \in Seq(Digit), d \in Digit : run \in P => Append(run, d) \in P
    BY <1>3
  <2>. QED
    BY <1>2, <2>1, RunByRun
<1>. QED
  BY <1>4 DEF P

(* A run cut after its first h digits.                                       *)
LEMMA Cut ==
  ASSUME NEW run \in Seq(Digit), NEW h \in 0 .. Len(run)
  PROVE  /\ SubSeq(run, 1, h) \in Seq(Digit) /\ Len(SubSeq(run, 1, h)) = h
         /\ SubSeq(run, h + 1, Len(run)) \in Seq(Digit)
         /\ Len(SubSeq(run, h + 1, Len(run))) = Len(run) - h
         /\ \A k \in 1 .. h : SubSeq(run, 1, h)[k] = run[k]
         /\ \A k \in 1 .. Len(run) - h : SubSeq(run, h + 1, Len(run))[k] = run[h + k]
         /\ Pack(run) = Pack(SubSeq(run, 1, h)) * TwoTo[Bits * (Len(run) - h)]
                        + Pack(SubSeq(run, h + 1, Len(run)))
<1> DEFINE n == Len(run)
           a == SubSeq(run, 1, h)
           b == SubSeq(run, h + 1, n)
<1>1. n \in Nat /\ h \in Nat /\ h <= n /\ n - h \in Nat
  OBVIOUS
<1>2. \A k \in 1 .. n : run[k] \in Digit
  OBVIOUS
<1>3. a \in Seq(Digit) /\ Len(a) = h /\ \A k \in 1 .. h : a[k] = run[k]
  <2>1. a = [k \in 1 .. h |-> run[k]]
    BY <1>1
  <2>2. \A k \in 1 .. h : k \in 1 .. n
    BY <1>1
  <2>. QED
    BY <1>1, <1>2, <2>1, <2>2
<1>4. b \in Seq(Digit) /\ Len(b) = n - h /\ \A k \in 1 .. n - h : b[k] = run[h + k]
  <2>1. b = [k \in 1 .. n - h |-> run[h + k]]
    BY <1>1
  <2>2. \A k \in 1 .. n - h : h + k \in 1 .. n
    BY <1>1
  <2>. QED
    BY <1>1, <1>2, <2>1, <2>2
<1> HIDE DEF a, b
<1>5. run = a \o b
  <2>1. a \o b \in Seq(Digit) /\ Len(a \o b) = n
    BY <1>1, <1>3, <1>4
  <2>2. ASSUME NEW k \in 1 .. n PROVE (a \o b)[k] = run[k]
    <3>1. (a \o b)[k] = IF k <= h THEN a[k] ELSE b[k - h]
      BY <1>1, <1>3, <1>4
    <3>2. CASE k <= h
      <4>1. k \in 1 .. h
        BY <1>1, <3>2
      <4>. QED
        BY <1>3, <3>1, <3>2, <4>1
    <3>3. CASE ~ (k <= h)
      <4>1. k - h \in 1 .. n - h /\ h + (k - h) = k
        BY <1>1, <3>3
      <4>. QED
        BY <1>4, <3>1, <3>3, <4>1
    <3>. QED
      BY <3>2, <3>3
  <2> DEFINE both == a \o b
  <2> HIDE DEF both
  <2>3. both \in Seq(Digit) /\ Len(both) = n /\ \A k \in 1 .. n : both[k] = run[k]
    BY <2>1, <2>2 DEF both
  <2> HIDE DEF n
  <2>4. run = both
    BY <2>3, SeqEqual DEF n
  <2>. QED
    BY <2>4 DEF both
<1>6. Pack(a \o b) = Pack(a) * TwoTo[Bits * Len(b)] + Pack(b)
  BY <1>3, <1>4, PackOfBoth
<1>. QED
  BY <1>3, <1>4, <1>5, <1>6 DEF a, b

-----------------------------------------------------------------------------
(* Rounding.                                                                 *)

Prec == TwoTo[Precision - 1]

LEMMA Precs ==
  /\ Precision \in Nat \ {0} /\ Precision - 1 \in Nat
  /\ MaxExponent \in Nat /\ MaxExponent + 1 \in Nat /\ MaxExponent + 1 - Precision \in Nat
  /\ Prec \in Nat \ {0} /\ TwoTo[Precision] = 2 * Prec
  /\ Infinity \in Nat \ {0}
<1>1. /\ Precision \in Nat \ {0} /\ Precision - 1 \in Nat /\ (Precision - 1) + 1 = Precision
      /\ MaxExponent \in Nat /\ MaxExponent + 1 \in Nat /\ MaxExponent + 1 - Precision \in Nat
  BY WidthsAssumption
<1>2. Prec \in Nat \ {0} /\ TwoTo[Precision] = 2 * Prec
  BY <1>1, Powers DEF Prec
<1>3. Infinity \in Nat \ {0}
  BY <1>1, Powers DEF Infinity
<1>. QED
  BY <1>1, <1>2, <1>3

LEMMA DoublesAreNumbers ==
  /\ Doubles \subseteq Nat /\ 0 \in Doubles /\ Infinity \in Doubles
  /\ \A d \in Doubles : \/ d = Infinity
                        \/ \E m \in Nat, e \in 0 .. MaxExponent + 1 - Precision :
                              m < TwoTo[Precision] /\ d = m * TwoTo[e]
  /\ \A m, e \in Nat : m < TwoTo[Precision] /\ e <= MaxExponent + 1 - Precision
                          => m * TwoTo[e] \in Doubles
<1>1. TwoTo[Precision] \in Nat /\ MaxExponent + 1 - Precision \in Nat
  BY Precs
<1>2. \A m \in 0 .. TwoTo[Precision] - 1 : m \in Nat /\ m < TwoTo[Precision]
  BY <1>1
<1>3. \A d \in Doubles : \/ d = Infinity
                         \/ \E m \in Nat, e \in 0 .. MaxExponent + 1 - Precision :
                              m < TwoTo[Precision] /\ d = m * TwoTo[e]
  BY <1>2 DEF Doubles
<1>4. \A m, e \in Nat : m < TwoTo[Precision] /\ e <= MaxExponent + 1 - Precision
                          => m * TwoTo[e] \in Doubles
  <2> SUFFICES ASSUME NEW m \in Nat, NEW e \in Nat,
                      m < TwoTo[Precision], e <= MaxExponent + 1 - Precision
               PROVE  m * TwoTo[e] \in Doubles
    OBVIOUS
  <2>1. m \in 0 .. TwoTo[Precision] - 1 /\ e \in 0 .. MaxExponent + 1 - Precision
    BY <1>1
  <2>. QED
    BY <2>1 DEF Doubles
<1>5. Infinity \in Doubles
  BY DEF Doubles
<1>6. Doubles \subseteq Nat
  <2>1. \A e \in 0 .. MaxExponent + 1 - Precision : e \in Nat
    BY <1>1
  <2>2. \A m \in Nat, e \in Nat : m * TwoTo[e] \in Nat
    BY Powers, ProductIsNat
  <2>. QED
    BY <1>3, <2>1, <2>2, Precs
<1>7. 0 \in Doubles
  <2>1. 0 < TwoTo[Precision] /\ 0 <= MaxExponent + 1 - Precision /\ 0 * TwoTo[0] = 0
    BY <1>1, Powers, Precs
  <2>. QED
    BY <1>4, <2>1
<1>. QED
  BY <1>3, <1>4, <1>5, <1>6, <1>7

(* Nearest, where the doubles around a number are known.                     *)
LEMMA NearestOf ==
  ASSUME NEW n \in Nat, n < Infinity, NEW lo \in Doubles, NEW hi \in Doubles,
         lo <= n, n < hi, \A d \in Doubles : d <= lo \/ hi <= d
  PROVE  /\ n = lo => Nearest(n) = n
         /\ n # lo /\ n - lo < hi - n => Nearest(n) = lo
         /\ n # lo /\ n - lo > hi - n => Nearest(n) = hi
         /\ n # lo /\ n - lo = hi - n
               => Nearest(n) = IF (lo \div (hi - lo)) % 2 = 0 THEN lo ELSE hi
<1> DEFINE below == CHOOSE d \in Doubles :
                       d <= n /\ \A e \in Doubles : e <= n => e <= d
           above == CHOOSE d \in Doubles :
                       d >= n /\ \A e \in Doubles : e >= n => d <= e
           near == IF n - below < above - n THEN below
                   ELSE IF n - below > above - n THEN above
                   ELSE IF n = below THEN n
                   ELSE IF (below \div (above - below)) % 2 = 0 THEN below ELSE above
<1>1. Nearest(n) = near
  <2>1. Infinity \in Nat /\ ~ (n >= Infinity)
    BY Precs
  <2>. QED
    BY <2>1 DEF Nearest
<1>2. \A d \in Doubles : d \in Nat
  BY DoublesAreNumbers
<1>3. lo <= n /\ \A e \in Doubles : e <= n => e <= lo
  <2>1. \A e \in Doubles : e <= n => ~ (hi <= e)
    BY <1>2
  <2>. QED
    BY <2>1
<1>4. below = lo
  <2>1. below \in Doubles /\ below <= n /\ \A e \in Doubles : e <= n => e <= below
    BY <1>3
  <2> HIDE DEF below
  <2>2. lo <= below /\ below <= lo
    BY <1>3, <2>1
  <2>. QED
    BY <1>2, <2>1, <2>2
<1>5. n = lo => above = lo
  <2> SUFFICES ASSUME n = lo PROVE above = lo
    OBVIOUS
  <2>1. lo >= n /\ \A e \in Doubles : e >= n => lo <= e
    BY <1>2
  <2>2. above \in Doubles /\ above >= n /\ \A e \in Doubles : e >= n => above <= e
    BY <2>1
  <2> HIDE DEF above
  <2>3. lo <= above /\ above <= lo
    BY <2>1, <2>2
  <2>. QED
    BY <1>2, <2>2, <2>3
<1>6. n # lo => above = hi
  <2> SUFFICES ASSUME n # lo PROVE above = hi
    OBVIOUS
  <2>1. hi >= n /\ \A e \in Doubles : e >= n => hi <= e
    <3>1. hi >= n
      BY <1>2
    <3>2. \A e \in Doubles : e >= n => ~ (e <= lo)
      BY <1>2
    <3>. QED
      BY <3>1, <3>2
  <2>2. above \in Doubles /\ above >= n /\ \A e \in Doubles : e >= n => above <= e
    BY <2>1
  <2> HIDE DEF above
  <2>3. hi <= above /\ above <= hi
    BY <2>1, <2>2
  <2>. QED
    BY <1>2, <2>2, <2>3
<1> HIDE DEF below, above
<1>7. lo \in Nat /\ hi \in Nat
  BY <1>2
<1>8. CASE n = lo
  BY <1>1, <1>4, <1>5, <1>7, <1>8
<1>9. CASE n # lo
  BY <1>1, <1>4, <1>6, <1>7, <1>9
<1>. QED
  BY <1>8, <1>9

LEMMA NearestOfZero == Nearest(0) = 0
<1> DEFINE later == {d \in Doubles : d # 0}
<1>1. later \in SUBSET Nat /\ Infinity \in later
  BY DoublesAreNumbers, Precs
<1>2. PICK hi \in later : \A d \in later : hi <= d
  <2> HIDE DEF later
  <2>. QED
    BY <1>1, LeastNumber
<1>3. hi \in Doubles /\ 0 < hi /\ \A d \in Doubles : d <= 0 \/ hi <= d
  BY <1>1, <1>2, DoublesAreNumbers
<1>4. 0 \in Doubles /\ 0 < Infinity /\ 0 <= 0 /\ 0 \in Nat
  BY DoublesAreNumbers, Precs
<1> HIDE DEF later
<1>5. \A lo \in Doubles : lo = 0 => Nearest(0) = 0
  BY <1>3, <1>4, NearestOf
<1>. QED
  BY <1>4, <1>5

(* Multiples of K that are apart are K apart.                                *)
LEMMA Multiples ==
  ASSUME NEW K \in Nat \ {0}, NEW x \in Nat, NEW y \in Nat
  PROVE  /\ x * K \in Nat
         /\ x <= y <=> x * K <= y * K
         /\ (x + 1) * K = x * K + K
         /\ x * K <= y * K \/ (y + 1) * K <= x * K
OBVIOUS

(* Between neighbouring multiples of TwoTo[k] there is no double, where the  *)
(* mantissa is of full width.                                                *)
LEMMA NoDoubleBetween ==
  ASSUME NEW k \in Nat, k <= MaxExponent + 1,
         NEW M \in Nat, Prec <= M, NEW d \in Doubles
  PROVE  d <= M * TwoTo[k] \/ (M + 1) * TwoTo[k] <= d
<1> DEFINE K == TwoTo[k]
<1>1. K \in Nat \ {0}
  BY Powers
<1>2. ASSUME NEW j \in Nat, d = j * K
      PROVE  d <= M * K \/ (M + 1) * K <= d
  <2> HIDE DEF K
  <2>. QED
    BY <1>1, <1>2, Multiples
<1>3. \A e \in Nat : k <= e => TwoTo[e] = TwoTo[e - k] * K /\ TwoTo[e - k] \in Nat
  <2> SUFFICES ASSUME NEW e \in Nat, k <= e
               PROVE  TwoTo[e] = TwoTo[e - k] * K /\ TwoTo[e - k] \in Nat
    OBVIOUS
  <2>1. e - k \in Nat /\ (e - k) + k = e
    OBVIOUS
  <2>. QED
    BY <2>1, PowerOfSum, Powers
<1>4. CASE d = Infinity
  <2>1. ASSUME NEW e \in Nat, k <= e, d = TwoTo[e] PROVE d <= M * K \/ (M + 1) * K <= d
    BY <1>2, <1>3, <2>1
  <2>2. MaxExponent + 1 \in Nat /\ k <= MaxExponent + 1 /\ d = TwoTo[MaxExponent + 1]
    BY <1>4, Precs DEF Infinity
  <2>. QED
    BY <2>1, <2>2
<1>5. ASSUME NEW m \in Nat, NEW e \in 0 .. MaxExponent + 1 - Precision,
             m < TwoTo[Precision], d = m * TwoTo[e]
      PROVE  d <= M * K \/ (M + 1) * K <= d
  <2>1. e \in Nat
    BY Precs
  <2>2. CASE k <= e
    <3> DEFINE t == TwoTo[e - k]
    <3>1. TwoTo[e] = t * K /\ t \in Nat
      BY <1>3, <2>1, <2>2
    <3> HIDE DEF t, K
    <3>2. m * (t * K) = (m * t) * K /\ m * t \in Nat
      BY <1>1, <3>1
    <3>. QED
      BY <1>2, <1>5, <3>1, <3>2
  <2>3. CASE ~ (k <= e)
    <3> DEFINE E == TwoTo[e]
    <3>1. 2 * E <= K /\ E \in Nat \ {0}
      BY <2>1, <2>3, PowersGrow, Powers
    <3>2. m < 2 * Prec /\ Prec \in Nat
      BY <1>5, Precs
    <3> HIDE DEF E, K
    <3>3. m * E <= (2 * Prec) * E
      BY <3>1, <3>2
    <3>4. (2 * Prec) * E = Prec * (2 * E)
      BY <3>1, <3>2
    <3>5. Prec * (2 * E) <= Prec * K
      BY <1>1, <3>1, <3>2
    <3>6. Prec * K <= M * K
      BY <1>1, <3>2
    <3>7. m * E <= M * K
      <4>1. m * E \in Nat /\ Prec * (2 * E) \in Nat /\ Prec * K \in Nat /\ M * K \in Nat
        BY <1>1, <3>1, <3>2, ProductIsNat
      <4>. QED
        BY <3>3, <3>4, <3>5, <3>6, <4>1
    <3>. QED
      BY <1>5, <3>7 DEF E
  <2>. QED
    BY <2>2, <2>3
<1>. QED
  BY <1>4, <1>5, DoublesAreNumbers

(* The neighbouring multiples themselves are doubles, up to Infinity.        *)
LEMMA NeighboursAreDoubles ==
  ASSUME NEW k \in Nat, NEW M \in Nat, Prec <= M, M < TwoTo[Precision],
         M * TwoTo[k] < Infinity
  PROVE  /\ k <= MaxExponent + 1 - Precision
         /\ M * TwoTo[k] \in Doubles
         /\ (M + 1) * TwoTo[k] \in Doubles
         /\ (M + 1) * TwoTo[k] <= Infinity
<1> DEFINE K == TwoTo[k]
<1>1. K \in Nat \ {0} /\ Prec \in Nat \ {0} /\ TwoTo[Precision] = 2 * Prec
  BY Powers, Precs
<1>2. k <= MaxExponent + 1 - Precision
  <2>1. Prec * K <= M * K /\ Prec * K \in Nat /\ M * K \in Nat
    <3> HIDE DEF K
    <3>. QED
      BY <1>1
  <2>2. TwoTo[Precision - 1 + k] = Prec * K
    BY Precs, PowerOfSum DEF Prec
  <2>3. TwoTo[Precision - 1 + k] < TwoTo[MaxExponent + 1]
    <3>1. Infinity \in Nat
      BY Precs
    <3> HIDE DEF K
    <3>. QED
      BY <2>1, <2>2, <3>1 DEF Infinity, K
  <2>4. Precision - 1 + k \in Nat /\ MaxExponent + 1 \in Nat
    BY Precs
  <2>5. Precision - 1 + k < MaxExponent + 1
    BY <2>3, <2>4, PowersGrow
  <2>. QED
    BY <2>5, Precs
<1>3. M * K \in Doubles
  BY <1>2, DoublesAreNumbers
<1>4. (M + 1) * K \in Doubles
  <2>1. CASE M + 1 < TwoTo[Precision]
    BY <1>2, <2>1, DoublesAreNumbers
  <2>2. CASE ~ (M + 1 < TwoTo[Precision])
    <3>1. M + 1 = 2 * Prec
      BY <1>1, <2>2
    <3>2. CASE k = MaxExponent + 1 - Precision
      <4>1. Precision + k = MaxExponent + 1
        BY <3>2, Precs
      <4>2. TwoTo[Precision + k] = TwoTo[Precision] * K
        BY Precs, PowerOfSum
      <4>3. (M + 1) * K = Infinity
        BY <1>1, <3>1, <4>1, <4>2 DEF Infinity
      <4>. QED
        BY <4>3, DoublesAreNumbers
    <3>3. CASE k # MaxExponent + 1 - Precision
      <4>1. k + 1 \in Nat /\ k + 1 <= MaxExponent + 1 - Precision
        BY <1>2, <3>3, Precs
      <4>2. TwoTo[k + 1] = 2 * K
        BY Powers
      <4>3. Prec < TwoTo[Precision]
        BY <1>1
      <4>4. Prec * TwoTo[k + 1] \in Doubles
        BY <1>1, <4>1, <4>3, DoublesAreNumbers
      <4>5. (2 * Prec) * K = Prec * (2 * K)
        <5> HIDE DEF K
        <5>. QED
          BY <1>1
      <4>. QED
        BY <3>1, <4>2, <4>4, <4>5
    <3>. QED
      BY <3>2, <3>3
  <2>. QED
    BY <2>1, <2>2
<1>5. (M + 1) * K <= Infinity
  <2> DEFINE J == TwoTo[MaxExponent + 1 - k]
  <2>1. MaxExponent + 1 - k \in Nat /\ (MaxExponent + 1 - k) + k = MaxExponent + 1
    BY <1>2, Precs
  <2>2. Infinity = J * K /\ J \in Nat
    BY <2>1, PowerOfSum, Powers DEF Infinity
  <2> HIDE DEF J, K
  <2>3. ~ (J * K <= M * K)
    BY <1>1, <2>2 DEF K
  <2>. QED
    BY <1>1, <2>2, <2>3, Multiples
<1>. QED
  BY <1>2, <1>3, <1>4, <1>5

(* Rounding by the bit below the mantissa and by whether anything is below   *)
(* that: n is M whole mantissa units, b halves of one and u less than half.  *)
LEMMA RoundedByHalf ==
  ASSUME NEW k \in Nat, NEW M \in Nat, Prec <= M, M < TwoTo[Precision],
         NEW b \in {0, 1}, NEW u \in Nat, u < TwoTo[k],
         NEW up, up = IF b = 1 /\ (u # 0 \/ M % 2 = 1) THEN 1 ELSE 0
  PROVE  Nearest(M * TwoTo[k + 1] + (b * TwoTo[k] + u)) = Product(M + up, pow2(k + 1))
<1> DEFINE K == TwoTo[k + 1]
           Q == TwoTo[k]
           r == b * Q + u
           n == M * K + r
<1>1. K = 2 * Q /\ Q \in Nat \ {0} /\ K \in Nat \ {0}
  BY Powers
<1>2. Prec \in Nat \ {0} /\ Infinity \in Nat \ {0} /\ M \in Nat \ {0} /\ MaxExponent \in Nat
  BY Precs
<1>3. k + 1 \in Nat
  OBVIOUS
<1> HIDE DEF K, Q
<1>4. /\ r \in Nat /\ r < K
      /\ b = 0 => r < K - r
      /\ b = 1 /\ u # 0 => r > K - r
      /\ b = 1 /\ u = 0 => r = K - r
      /\ r = 0 <=> b = 0 /\ u = 0
  <2>1. CASE b = 0
    BY <1>1, <2>1 DEF Q
  <2>2. CASE b = 1
    BY <1>1, <2>2 DEF Q
  <2>. QED
    BY <2>1, <2>2
<1> HIDE DEF r
<1>5. n \in Nat /\ M * K \in Nat /\ M * K <= n /\ n < (M + 1) * K /\ (M + 1) * K = M * K + K
      /\ (M + 1) * K \in Nat
  BY <1>1, <1>4
<1>6. up \in {0, 1} /\ (up = 1 <=> b = 1 /\ (u # 0 \/ M % 2 = 1))
  OBVIOUS
<1>7. (M + up) * K \in Nat /\ (up = 0 => (M + up) * K = M * K)
      /\ (up = 1 => (M + up) * K = (M + 1) * K)
  BY <1>5, <1>6
<1>8. CASE k + 1 > MaxExponent
  <2>1. k + 1 >= MaxExponent + 1
    BY <1>2, <1>8
  <2>2. Infinity <= K
    BY <1>2, <1>3, <2>1, PowersGrow, Precs DEF Infinity, K
  <2>3. K <= M * K
    BY <1>1, <1>2
  <2>4. n >= Infinity
    BY <1>1, <1>2, <1>5, <2>2, <2>3
  <2>5. Nearest(n) = Infinity
    BY <2>4 DEF Nearest
  <2>6. pow2(k + 1) = Infinity
    BY <1>8 DEF pow2
  <2>7. (M + up) * Infinity >= Infinity
    <3>1. M + up \in Nat \ {0}
      BY <1>2, <1>6
    <3>2. \A x, y \in Nat \ {0} : x * y >= y
      OBVIOUS
    <3>. QED
      BY <1>2, <3>1, <3>2
  <2>8. Product(M + up, pow2(k + 1)) = Infinity
    BY <2>6, <2>7 DEF Product
  <2>. QED
    BY <2>5, <2>8 DEF n, K, Q, r
<1>9. CASE ~ (k + 1 > MaxExponent)
  <2>1. pow2(k + 1) = K
    BY <1>9 DEF pow2, K
  <2>2. k + 1 <= MaxExponent + 1
    BY <1>2, <1>9
  <2>3. Product(M + up, K) = IF (M + up) * K >= Infinity THEN Infinity ELSE (M + up) * K
    BY DEF Product
  <2>4. CASE n >= Infinity
    <3>1. Nearest(n) = Infinity
      BY <2>4 DEF Nearest
    <3>2. Infinity \in Doubles
      BY DoublesAreNumbers
    <3>3. Infinity <= M * K \/ (M + 1) * K <= Infinity
      BY <1>3, <2>2, <3>2, NoDoubleBetween DEF K
    <3>4. M * K >= Infinity
      BY <1>2, <1>5, <2>4, <3>3
    <3>5. (M + up) * K >= Infinity
      BY <1>2, <1>5, <1>6, <1>7, <3>4
    <3>. QED
      BY <2>1, <2>3, <3>1, <3>5 DEF n, K, Q, r
  <2>5. CASE ~ (n >= Infinity)
    <3> DEFINE lo == M * K
               hi == (M + 1) * K
    <3>1. n < Infinity /\ lo < Infinity
      BY <1>2, <1>5, <2>5
    <3>2. lo \in Doubles /\ hi \in Doubles /\ hi <= Infinity
      BY <1>3, <3>1, NeighboursAreDoubles DEF K
    <3>3. \A d \in Doubles : d <= lo \/ hi <= d
      BY <1>3, <2>2, NoDoubleBetween DEF K
    <3>4. n = lo + r /\ hi = lo + K /\ lo \in Nat /\ hi \in Nat /\ lo <= n /\ n < hi
      BY <1>4, <1>5
    <3>5. lo \div (hi - lo) = M
      <4>1. hi - lo = K
        BY <1>1, <3>4
      <4>2. \A x \in Nat, y \in Nat \ {0} : (x * y) \div y = x
        OBVIOUS
      <4>. QED
        BY <1>1, <4>1, <4>2
    <3> HIDE DEF lo, hi, n
    <3>6. /\ n = lo => Nearest(n) = n
          /\ n # lo /\ n - lo < hi - n => Nearest(n) = lo
          /\ n # lo /\ n - lo > hi - n => Nearest(n) = hi
          /\ n # lo /\ n - lo = hi - n
                => Nearest(n) = IF (lo \div (hi - lo)) % 2 = 0 THEN lo ELSE hi
      <4>1. n \in Nat
        BY <1>5
      <4>. QED
        BY <3>1, <3>2, <3>3, <3>4, <4>1, NearestOf
    <3>7. n - lo = r /\ hi - n = K - r /\ (n = lo <=> r = 0)
      BY <1>1, <1>4, <3>4
    <3>8. M % 2 \in {0, 1}
      OBVIOUS
    <3>9. Nearest(n) = IF up = 0 THEN lo ELSE hi
      <4>1. CASE b = 0
        <5>1. up = 0
          BY <1>6, <4>1
        <5>2. CASE u = 0
          BY <1>4, <3>6, <3>7, <4>1, <5>1, <5>2
        <5>3. CASE u # 0
          BY <1>4, <3>6, <3>7, <4>1, <5>1, <5>3
        <5>. QED
          BY <5>2, <5>3
      <4>2. CASE b = 1 /\ u # 0
        BY <1>4, <1>6, <3>6, <3>7, <4>2
      <4>3. CASE b = 1 /\ u = 0
        <5>1. Nearest(n) = IF M % 2 = 0 THEN lo ELSE hi
          BY <1>4, <3>5, <3>6, <3>7, <4>3
        <5>2. up = 0 <=> M % 2 = 0
          BY <1>6, <3>8, <4>3
        <5>. QED
          BY <5>1, <5>2
      <4>. QED
        BY <4>1, <4>2, <4>3
    <3>10. Product(M + up, K) = IF up = 0 THEN lo ELSE hi
      <4>1. CASE up = 0
        <5>1. (M + up) * K = lo
          BY <1>7, <4>1 DEF lo
        <5>2. ~ (lo >= Infinity)
          BY <1>2, <3>1, <3>4
        <5>. QED
          BY <2>3, <4>1, <5>1, <5>2
      <4>2. CASE up = 1
        <5>1. (M + up) * K = hi
          BY <1>7, <4>2 DEF hi
        <5>2. hi >= Infinity => hi = Infinity
          BY <1>2, <3>2, <3>4
        <5>. QED
          BY <2>3, <4>2, <5>1, <5>2
      <4>. QED
        BY <1>6, <4>1, <4>2
    <3>11. Nearest(n) = Product(M + up, pow2(k + 1))
      BY <2>1, <3>9, <3>10
    <3>. QED
      BY <3>11 DEF n, K, Q, r
  <2>. QED
    BY <2>4, <2>5
<1>. QED
  BY <1>8, <1>9

-----------------------------------------------------------------------------
(* The long branch of digits_to_f64.                                         *)

LEMMA Heads ==
  /\ HeadLen \in Nat \ {0} /\ HeadLen - 1 \in Nat /\ HeadWidth \in Nat
  /\ Bits * HeadLen <= HeadWidth
  /\ Precision <= Bits * (HeadLen - 1)
<1>1. /\ Bits \in Nat \ {0} /\ HeadWidth \in Nat /\ Precision \in Nat \ {0}
      /\ Precision + 2 * Bits < HeadWidth + 2
  BY WidthsAssumption
<1>2. \A x \in Nat, y \in Nat \ {0} :
         x \div y \in Nat /\ y * (x \div y) <= x /\ x < y * (x \div y) + y
  OBVIOUS
<1>3. HeadLen \in Nat /\ Bits * HeadLen <= HeadWidth /\ HeadWidth < Bits * HeadLen + Bits
  BY <1>1, <1>2 DEF HeadLen
<1>4. HeadLen # 0
  <2> SUFFICES ASSUME HeadLen = 0 PROVE FALSE
    OBVIOUS
  <2>1. Bits * HeadLen = 0
    BY <1>1
  <2>. QED
    BY <1>1, <1>3, <2>1
<1>5. Bits * (HeadLen - 1) = Bits * HeadLen - Bits
  BY <1>1, <1>3
<1>6. Bits * HeadLen \in Nat
  BY <1>1, <1>3
<1>. QED
  BY <1>1, <1>3, <1>4, <1>5, <1>6

(* A positive number has a width.                                            *)
LEMMA Widths ==
  ASSUME NEW n \in Nat, n # 0, n < TwoTo[HeadWidth]
  PROVE  Width(n) \in 1 .. HeadWidth /\ TwoTo[Width(n) - 1] <= n /\ n < TwoTo[Width(n)]
<1> DEFINE T == {w \in Nat : n < TwoTo[w]}
<1>1. T \in SUBSET Nat /\ HeadWidth \in T
  BY Heads
<1>2. PICK w \in T : \A y \in T : w <= y
  <2> HIDE DEF T
  <2>. QED
    BY <1>1, LeastNumber
<1>3. w \in Nat /\ n < TwoTo[w] /\ w <= HeadWidth
  BY <1>1, <1>2
<1>4. w # 0
  BY <1>3, Powers
<1>5. w - 1 \in Nat /\ ~ (w <= w - 1)
  BY <1>3, <1>4
<1>6. w - 1 \notin T
  <2> HIDE DEF T
  <2>. QED
    BY <1>2, <1>5
<1>7. TwoTo[w - 1] <= n
  BY <1>5, <1>6, Powers
<1>8. w \in 1 .. HeadWidth
  BY <1>3, <1>4, Heads
<1>. QED
  BY <1>3, <1>7, <1>8 DEF Width

(* A number over a unit, its half and what is below the half.                *)
LEMMA OverAHalf ==
  ASSUME NEW x \in Nat, NEW h \in Nat \ {0}
  PROVE  LET M == x \div (2 * h)
             b == (x \div h) % 2
             q == x % h
         IN  M \in Nat /\ b \in {0, 1} /\ q \in Nat /\ q < h /\ x = M * (2 * h) + (b * h + q)
<1> DEFINE t == x \div h
           q == x % h
           M == t \div 2
           b == t % 2
<1>1. t \in Nat /\ q \in Nat /\ q < h /\ x = t * h + q
  OBVIOUS
<1>2. M \in Nat /\ b \in {0, 1} /\ t = M * 2 + b
  <2>1. \A y \in Nat : y \div 2 \in Nat /\ y % 2 \in {0, 1} /\ y = (y \div 2) * 2 + (y % 2)
    OBVIOUS
  <2> HIDE DEF t
  <2>. QED
    BY <1>1, <2>1
<1> HIDE DEF t, q
<1> HIDE DEF M, b
<1>3. x = M * (2 * h) + (b * h + q)
  <2>1. (M * 2 + b) * h = M * (2 * h) + b * h
    BY <1>2
  <2>. QED
    BY <1>1, <1>2, <2>1
<1>4. b * h + q \in Nat /\ b * h + q < 2 * h
  <2>1. CASE b = 0
    BY <1>1, <2>1
  <2>2. CASE b = 1
    BY <1>1, <2>2
  <2>. QED
    BY <1>2, <2>1, <2>2
<1>5. x \div (2 * h) = M
  <2>1. \A y, r \in Nat, d \in Nat \ {0} : r < d => (y * d + r) \div d = y
    OBVIOUS
  <2>2. 2 * h \in Nat \ {0}
    OBVIOUS
  <2> DEFINE r == b * h + q
             d == 2 * h
  <2> HIDE DEF r, d
  <2>3. (M * d + r) \div d = M
    BY <1>2, <1>4, <2>1, <2>2 DEF r, d
  <2>. QED
    BY <1>3, <2>3 DEF r, d
<1>. QED
  BY <1>1, <1>2, <1>3, <1>5 DEF M, b, t, q

LEMMA LongRounds ==
  ASSUME NEW ds \in Seq(Digit), Len(ds) > HeadLen, ds[1] # 0
  PROVE  LongToDouble(ds) = Nearest(Pack(ds))
<1> DEFINE front == SubSeq(ds, 1, HeadLen)
           tail == SubSeq(ds, HeadLen + 1, Len(ds))
           head == Pack(front)
           rest == Pack(tail)
           dropped == Bits * Len(tail)
           shift == Width(head) - Precision
           M == head \div TwoTo[shift]
           b == (head \div TwoTo[shift - 1]) % 2
           q == head % TwoTo[shift - 1]
           sticky == q # 0 \/ \E k \in 1 .. Len(tail) : tail[k] # 0
           up == IF b = 1 /\ (sticky \/ M % 2 = 1) THEN 1 ELSE 0
<1>1. LongToDouble(ds) = Product(M + up, pow2(dropped + shift))
  BY DEF LongToDouble
<1>2. HeadLen \in 0 .. Len(ds) /\ Len(ds) \in Nat
  BY Heads
<1>3. /\ front \in Seq(Digit) /\ Len(front) = HeadLen
      /\ tail \in Seq(Digit) /\ Len(tail) = Len(ds) - HeadLen
      /\ \A k \in 1 .. HeadLen : front[k] = ds[k]
      /\ Pack(ds) = head * TwoTo[Bits * (Len(ds) - HeadLen)] + rest
  BY <1>2, Cut
<1>4. /\ rest \in Nat /\ rest < TwoTo[dropped]
      /\ rest = 0 <=> \A k \in 1 .. Len(tail) : tail[k] = 0
  BY <1>3, PackBounds
<1>5. dropped \in Nat
  BY <1>2, <1>3, Weights
<1>6. Pack(ds) = head * TwoTo[dropped] + rest
  BY <1>3
<1>7. head \in Nat /\ head < TwoTo[HeadWidth]
  <2>1. head \in Nat /\ head < TwoTo[Bits * HeadLen]
    BY <1>3, PackBounds
  <2>2. Bits * HeadLen \in Nat
    BY Heads, Weights
  <2>3. TwoTo[Bits * HeadLen] <= TwoTo[HeadWidth]
    BY <2>2, Heads, PowersGrow
  <2>4. TwoTo[Bits * HeadLen] \in Nat /\ TwoTo[HeadWidth] \in Nat
    BY <2>2, Heads, Powers
  <2> HIDE DEF head
  <2>. QED
    BY <2>1, <2>3, <2>4
<1>8. TwoTo[Bits * (HeadLen - 1)] <= head
  <2> DEFINE one == SubSeq(front, 1, 1)
             more == SubSeq(front, 2, Len(front))
             w == TwoTo[Bits * (HeadLen - 1)]
  <2>1. 1 \in 0 .. Len(front) /\ 1 + 1 = 2 /\ 1 \in 1 .. HeadLen
    BY <1>3, Heads
  <2>2. /\ one \in Seq(Digit) /\ Len(one) = 1 /\ one[1] = front[1]
        /\ more \in Seq(Digit)
        /\ Pack(front) = Pack(one) * w + Pack(more)
    <3> HIDE DEF front
    <3>1. 1 \in 1 .. 1
      OBVIOUS
    <3>. QED
      BY <1>3, <2>1, <3>1, Cut
  <2>3. front[1] = ds[1]
    BY <1>3, <2>1
  <2>4. Pack(one) \in Nat /\ Pack(one) # 0 /\ Pack(more) \in Nat
    <3> HIDE DEF one, more, front
    <3>1. 1 \in 1 .. Len(one) /\ one[1] # 0
      BY <2>2, <2>3
    <3>. QED
      BY <2>2, <3>1, PackBounds
  <2>5. w \in Nat
    BY Heads, Weights
  <2> HIDE DEF one, more, w, front
  <2>6. \A x \in Nat \ {0}, y, z \in Nat : y <= x * y + z
    OBVIOUS
  <2>7. w <= Pack(one) * w + Pack(more)
    BY <2>4, <2>5, <2>6
  <2>. QED
    BY <2>2, <2>7 DEF w
<1> HIDE DEF front, tail
<1> HIDE DEF head, rest
<1>9. head # 0
  <2>1. TwoTo[Bits * (HeadLen - 1)] \in Nat \ {0}
    BY Heads, Weights
  <2>. QED
    BY <1>8, <2>1
<1> DEFINE w == Width(head)
<1>10. w \in 1 .. HeadWidth /\ TwoTo[w - 1] <= head /\ head < TwoTo[w]
  BY <1>7, <1>9, Widths
<1> HIDE DEF w
<1>11. w \in Nat /\ w - 1 \in Nat
  BY <1>10, Heads
<1>12. shift = w - Precision /\ shift \in Nat \ {0}
  <2> DEFINE a == Bits * (HeadLen - 1)
  <2>1. a \in Nat /\ Precision <= a
    BY Heads, Weights
  <2>2. TwoTo[a] \in Nat /\ TwoTo[w] \in Nat
    BY <1>11, <2>1, Powers
  <2>3. TwoTo[a] < TwoTo[w]
    BY <1>7, <1>8, <1>10, <2>2
  <2> HIDE DEF a
  <2>4. a < w
    BY <1>11, <2>1, <2>3, PowersGrow
  <2>. QED
    BY <1>11, <2>1, <2>4, Precs DEF w
<1> HIDE DEF shift
<1> DEFINE s == shift - 1
           H == TwoTo[s]
           D == TwoTo[dropped]
           Q == TwoTo[dropped + s]
           u == q * D + rest
<1>13. s \in Nat /\ s + 1 = shift /\ w = Precision + shift /\ w - 1 = (Precision - 1) + shift
  BY <1>11, <1>12, Precs
<1>14. /\ TwoTo[shift] = 2 * H /\ H \in Nat \ {0} /\ D \in Nat \ {0}
       /\ Q = D * H /\ Q \in Nat \ {0} /\ TwoTo[(dropped + s) + 1] = 2 * Q
  <2>1. dropped + s \in Nat
    BY <1>5, <1>13
  <2>. QED
    BY <1>5, <1>13, <2>1, Powers, PowerOfSum
<1>15. /\ M \in Nat /\ b \in {0, 1} /\ q \in Nat /\ q < H
       /\ head = M * (2 * H) + (b * H + q)
  <2>1. M = head \div (2 * H) /\ b = (head \div H) % 2 /\ q = head % H
    BY <1>14
  <2> HIDE DEF H, M, b, q
  <2>. QED
    BY <1>7, <1>14, <2>1, OverAHalf
<1>16. TwoTo[w] = TwoTo[Precision] * (2 * H) /\ TwoTo[w - 1] = Prec * (2 * H)
  BY <1>12, <1>13, <1>14, Precs, PowerOfSum DEF Prec
<1> HIDE DEF M, b, q, sticky, dropped
<1> HIDE DEF s
<1>17. Prec <= M /\ M < TwoTo[Precision]
  <2> DEFINE U == 2 * H
             r == b * H + q
  <2>1. U \in Nat \ {0} /\ r \in Nat /\ r < U
    <3>1. \A h \in Nat \ {0}, x \in Nat, c \in {0, 1} :
             x < h => 2 * h \in Nat \ {0} /\ c * h + x \in Nat /\ c * h + x < 2 * h
      OBVIOUS
    <3>2. H \in Nat \ {0} /\ q \in Nat /\ q < H /\ b \in {0, 1}
      BY <1>14, <1>15
    <3> HIDE DEF H
    <3>. QED
      BY <3>1, <3>2
  <2>2. Prec * U <= M * U + r /\ M * U + r < TwoTo[Precision] * U
    BY <1>10, <1>15, <1>16
  <2> HIDE DEF U, r
  <2>3. \A x, y \in Nat, d \in Nat \ {0}, e \in Nat :
           /\ e < d /\ x * d <= y * d + e => x <= y
           /\ y * d + e < x * d => y < x
    OBVIOUS
  <2>. QED
    BY <1>15, <2>1, <2>2, <2>3, Precs
<1>18. u \in Nat /\ u < Q /\ (u # 0 <=> sticky)
  <2>1. \A x, y \in Nat, d \in Nat \ {0}, e \in Nat :
           /\ x < y /\ e < d => x * d + e < d * y
           /\ x * d + e \in Nat
           /\ x * d + e = 0 <=> x = 0 /\ e = 0
    OBVIOUS
  <2>2. rest \in Nat /\ rest < D /\ q \in Nat /\ q < H
    BY <1>4, <1>15 DEF dropped
  <2> HIDE DEF H, D, Q
  <2>3. q * D + rest < D * H /\ q * D + rest \in Nat
        /\ (q * D + rest = 0 <=> q = 0 /\ rest = 0)
    BY <1>14, <2>1, <2>2
  <2>. QED
    BY <1>4, <1>14, <2>3 DEF sticky
<1>19. Pack(ds) = M * TwoTo[(dropped + s) + 1] + (b * Q + u)
  <2>1. Pack(ds) = head * D + rest
    BY <1>6 DEF dropped
  <2> HIDE DEF H, D, Q
  <2>2. \A m, h, d, c, x, t \in Nat :
           (m * (2 * h) + (c * h + x)) * d + t = m * (2 * (d * h)) + (c * (d * h) + (x * d + t))
    OBVIOUS
  <2>3. b \in Nat
    BY <1>15
  <2>4. (M * (2 * H) + (b * H + q)) * D + rest
          = M * (2 * (D * H)) + (b * (D * H) + (q * D + rest))
    BY <1>4, <1>14, <1>15, <2>2, <2>3
  <2>. QED
    BY <1>14, <1>15, <2>1, <2>4
<1>20. up = IF b = 1 /\ (u # 0 \/ M % 2 = 1) THEN 1 ELSE 0
  <2> HIDE DEF u
  <2>. QED
    BY <1>18
<1>21. Nearest(M * TwoTo[(dropped + s) + 1] + (b * TwoTo[dropped + s] + u))
          = Product(M + up, pow2((dropped + s) + 1))
  <2>1. dropped + s \in Nat
    BY <1>5, <1>13
  <2> DEFINE k == dropped + s
  <2>2. u \in Nat /\ u < TwoTo[k] /\ k \in Nat
    BY <1>18, <2>1
  <2> HIDE DEF k, u, up
  <2>3. Nearest(M * TwoTo[k + 1] + (b * TwoTo[k] + u)) = Product(M + up, pow2(k + 1))
    BY <1>15, <1>17, <1>20, <2>2, RoundedByHalf
  <2>. QED
    BY <2>3 DEF k
<1>22. (dropped + s) + 1 = dropped + shift
  BY <1>5, <1>12, <1>13
<1>. QED
  BY <1>1, <1>19, <1>21, <1>22

LEMMA ZerosDropped ==
  ASSUME NEW digs \in Seq(Digit)
  PROVE  LET start == LeadingZerosDropped(digs)
         IN  \/ start = 0 /\ \A k \in 1 .. Len(digs) : digs[k] = 0
             \/ /\ start \in 1 .. Len(digs) /\ digs[start] # 0
                /\ \A k \in 1 .. Len(digs) : k < start => digs[k] = 0
<1> DEFINE T == {k \in 1 .. Len(digs) : digs[k] # 0}
           least == CHOOSE x \in T : \A y \in T : x <= y
<1>1. LeadingZerosDropped(digs) = IF T # {} THEN least ELSE 0
  BY DEF LeadingZerosDropped, SelectInSeq, Min
<1>2. T \in SUBSET Nat
  OBVIOUS
<1>3. CASE T = {}
  BY <1>1, <1>3
<1>4. CASE T # {}
  <2>1. \E x \in T : \A y \in T : x <= y
    <3> HIDE DEF T
    <3>. QED
      BY <1>2, <1>4, LeastNumber
  <2>2. least \in T /\ \A y \in T : least <= y
    BY <2>1
  <2> HIDE DEF least
  <2>3. least \in 1 .. Len(digs) /\ digs[least] # 0
    BY <2>2
  <2>4. \A k \in 1 .. Len(digs) : k < least => ~ (least <= k)
    BY <2>3
  <2>5. \A k \in 1 .. Len(digs) : k < least => digs[k] = 0
    BY <2>2, <2>4
  <2>. QED
    BY <1>1, <1>4, <2>3, <2>5
<1>. QED
  BY <1>3, <1>4

(* digits_to_f64 rounds what the digits denote, once.                        *)
LEMMA DigitsRound ==
  ASSUME NEW digs \in Seq(Digit)
  PROVE  digits_to_f64(digs) = Nearest(Pack(digs))
<1> DEFINE start == LeadingZerosDropped(digs)
           ds == SubSeq(digs, start, Len(digs))
<1>1. digits_to_f64(digs) = IF start = 0 THEN 0
                            ELSE IF Len(ds) <= HeadLen THEN Nearest(Pack(ds))
                            ELSE LongToDouble(ds)
  BY DEF digits_to_f64
<1>2. \/ start = 0 /\ \A k \in 1 .. Len(digs) : digs[k] = 0
      \/ /\ start \in 1 .. Len(digs) /\ digs[start] # 0
         /\ \A k \in 1 .. Len(digs) : k < start => digs[k] = 0
  BY ZerosDropped
<1> HIDE DEF start
<1>3. CASE start = 0 /\ \A k \in 1 .. Len(digs) : digs[k] = 0
  <2>1. Pack(digs) = 0
    BY <1>3, PackBounds
  <2>. QED
    BY <1>1, <1>3, <2>1, NearestOfZero
<1>4. CASE /\ start \in 1 .. Len(digs) /\ digs[start] # 0
           /\ \A k \in 1 .. Len(digs) : k < start => digs[k] = 0
  <2> DEFINE h == start - 1
             zeros == SubSeq(digs, 1, h)
  <2>1. /\ h \in 0 .. Len(digs) /\ h + 1 = start /\ h < Len(digs)
        /\ \A k \in 1 .. h : k \in 1 .. Len(digs) /\ k < start
    BY <1>4
  <2> HIDE DEF h
  <2>2. /\ zeros \in Seq(Digit) /\ Len(zeros) = h
        /\ \A k \in 1 .. h : zeros[k] = digs[k]
        /\ ds \in Seq(Digit) /\ Len(ds) = Len(digs) - h
        /\ \A k \in 1 .. Len(digs) - h : ds[k] = digs[h + k]
        /\ Pack(digs) = Pack(zeros) * TwoTo[Bits * (Len(digs) - h)] + Pack(ds)
    BY <2>1, Cut
  <2> HIDE DEF zeros, ds
  <2>3. Pack(zeros) = 0
    <3>1. \A k \in 1 .. Len(zeros) : zeros[k] = 0
      BY <1>4, <2>1, <2>2
    <3>. QED
      BY <2>2, <3>1, PackBounds
  <2>4. Pack(digs) = Pack(ds)
    <3>1. Len(digs) - h \in Nat
      BY <2>1
    <3>2. TwoTo[Bits * (Len(digs) - h)] \in Nat /\ Pack(ds) \in Nat
      BY <2>2, <3>1, Weights, PackBounds
    <3> DEFINE w == TwoTo[Bits * (Len(digs) - h)]
    <3> HIDE DEF w
    <3>3. Pack(digs) = 0 * w + Pack(ds) /\ w \in Nat
      BY <2>2, <2>3, <3>2 DEF w
    <3>. QED
      BY <3>2, <3>3
  <2>5. ds[1] # 0
    <3>1. 1 \in 1 .. Len(digs) - h
      BY <2>1
    <3>. QED
      BY <1>4, <2>1, <2>2, <3>1
  <2>6. Len(ds) > HeadLen => LongToDouble(ds) = Nearest(Pack(ds))
    BY <2>2, <2>5, LongRounds
  <2>7. start # 0 /\ (Len(ds) <= HeadLen \/ Len(ds) > HeadLen)
    BY <1>4, <2>2, Heads
  <2>. QED
    BY <1>1, <2>4, <2>6, <2>7
<1>. QED
  BY <1>2, <1>3, <1>4

-----------------------------------------------------------------------------
(* The conversion goes through its digits and rounds what they denote.       *)

DInv ==
    /\ digits \in Literals
    /\ port \in {"ts", "go", "rs"}
    /\ pc \in {"sign", "digits", "round", "done"}
    /\ pc # "sign" => negative = (sign = "-")
    /\ pc = "digits" => port = "rs"
    /\ read \in 0 .. Len(digits)
    /\ taken = [k \in 1 .. read |-> digits[k]]
    /\ pc = "round" /\ port = "rs" => read = Len(digits)
    /\ RoundsOnce

LEMMA LiteralsAreRuns ==
  \A ds \in Literals : ds \in Seq(Digit) /\ Len(ds) \in Nat
BY LiteralsAssumption DEF Digit

LEMMA NumberBegins ==
  ASSUME Init
  PROVE  DInv
<1>1. read \in 0 .. Len(digits) /\ taken = [k \in 1 .. read |-> digits[k]]
  <2>1. Len(digits) \in Nat /\ read = 0 /\ taken = <<>>
    BY LiteralsAreRuns DEF Init
  <2>2. 1 .. 0 = {} /\ <<>> = [k \in {} |-> digits[k]]
    OBVIOUS
  <2>. QED
    BY <2>1, <2>2
<1>. QED
  BY <1>1 DEF Init, DInv, RoundsOnce

LEMMA NumberGoesOn ==
  ASSUME DInv, [Next]_vars
  PROVE  DInv'
<1>1. digits \in Seq(Digit) /\ Len(digits) \in Nat
  BY LiteralsAreRuns DEF DInv
<1>2. CASE TakeSign
  BY <1>2 DEF TakeSign, DInv, RoundsOnce
<1>3. CASE TakeDigit
  <2>1. /\ read \in Nat /\ read + 1 \in 0 .. Len(digits) /\ read + 1 \in 1 .. Len(digits)
        /\ read' = read + 1 /\ digits' = digits
    BY <1>1, <1>3 DEF TakeDigit, DInv
  <2>2. taken' = [k \in 1 .. read + 1 |-> digits[k]]
    <3>1. /\ taken = [k \in 1 .. read |-> digits[k]]
          /\ taken' = Append(taken, digits[read + 1])
      BY <1>3 DEF TakeDigit, DInv
    <3>2. \A k \in 1 .. read : digits[k] \in Digit
      BY <1>1, <1>3 DEF TakeDigit, DInv
    <3>3. taken \in Seq(Digit) /\ Len(taken) = read
      BY <2>1, <3>1, <3>2
    <3> DEFINE d == digits[read + 1]
    <3>4. d \in Digit
      BY <1>1, <2>1
    <3> HIDE DEF d
    <3>5. /\ Append(taken, d) \in Seq(Digit) /\ Len(Append(taken, d)) = read + 1
          /\ Append(taken, d)[read + 1] = d
          /\ \A k \in 1 .. read : Append(taken, d)[k] = taken[k]
      BY <2>1, <3>3, <3>4
    <3>6. \A k \in 1 .. read + 1 : k = read + 1 \/ k \in 1 .. read
      BY <2>1
    <3>7. \A k \in 1 .. read : taken[k] = digits[k]
      BY <3>1
    <3>8. \A k \in 1 .. read + 1 : Append(taken, d)[k] = digits[k]
      BY <3>5, <3>6, <3>7 DEF d
    <3> DEFINE now == Append(taken, d)
    <3>9. now = [k \in 1 .. read + 1 |-> now[k]]
      <4>1. now \in Seq(Digit) /\ Len(now) = read + 1
        BY <3>5
      <4>2. \A s \in Seq(Digit) : s = [k \in 1 .. Len(s) |-> s[k]]
        OBVIOUS
      <4> HIDE DEF now
      <4>3. now = [k \in 1 .. Len(now) |-> now[k]]
        BY <4>1, <4>2
      <4>. QED
        BY <4>1, <4>3
    <3> HIDE DEF now
    <3>10. now = [k \in 1 .. read + 1 |-> digits[k]]
      BY <3>8, <3>9 DEF now
    <3>. QED
      BY <3>1, <3>10 DEF now, d
  <2>. QED
    BY <1>3, <2>1, <2>2 DEF TakeDigit, DInv, RoundsOnce
<1>4. CASE AllDigitsTaken
  BY <1>4 DEF AllDigitsTaken, DInv, RoundsOnce
<1>5. CASE RoundTs
  BY <1>5 DEF RoundTs, DInv, RoundsOnce, LiteralsNumber, parseInt
<1>6. CASE RoundGo
  <2>1. Pack(digits) \in Nat
    BY <1>1, PackBounds
  <2>2. Pack(digits) \in 1 .. TwoTo[IntWidth] - 1
           => ParseInt(digits) = Pack(digits) /\ Pack(digits) # 0
    <3>1. TwoTo[IntWidth] \in Nat
      BY WidthsAssumption, Powers
    <3>. QED
      BY <2>1, <3>1 DEF ParseInt
  <2>3. value' = Number(negative /\ ParseInt(digits) # 0, Nearest(ParseInt(digits)))
    BY <1>6 DEF RoundGo
  <2>4. negative = (sign = "-")
    BY <1>6 DEF RoundGo, DInv
  <2>5. Pack(digits) \in 1 .. TwoTo[IntWidth] - 1
           => value' = Number(sign = "-", Nearest(Pack(digits)))
    <3> SUFFICES ASSUME Pack(digits) \in 1 .. TwoTo[IntWidth] - 1
                 PROVE  value' = Number(sign = "-", Nearest(Pack(digits)))
      OBVIOUS
    <3>1. ParseInt(digits) = Pack(digits) /\ Pack(digits) # 0
      BY <2>2
    <3>2. (negative /\ ParseInt(digits) # 0) = (sign = "-")
      BY <2>4, <3>1
    <3>. QED
      BY <2>3, <3>1, <3>2
  <2>. QED
    BY <1>6, <2>5 DEF RoundGo, DInv, RoundsOnce, LiteralsNumber
<1>7. CASE RoundRs
  <2>1. read = Len(digits) /\ taken = [k \in 1 .. read |-> digits[k]]
    BY <1>7 DEF RoundRs, DInv
  <2>2. taken = digits
    <3>1. taken \in Seq(Digit) /\ Len(taken) = Len(digits)
          /\ \A k \in 1 .. Len(digits) : taken[k] = digits[k]
      BY <1>1, <2>1
    <3>. QED
      BY <1>1, <3>1, SeqEqual
  <2>3. digits_to_f64(digits) = Nearest(Pack(digits))
    BY <1>1, DigitsRound
  <2>. QED
    BY <1>7, <2>2, <2>3 DEF RoundRs, DInv, RoundsOnce, LiteralsNumber
<1>8. CASE UNCHANGED vars
  BY <1>8 DEF vars, DInv, RoundsOnce, LiteralsNumber
<1>. QED
  BY <1>2, <1>3, <1>4, <1>5, <1>6, <1>7, <1>8 DEF Next

-----------------------------------------------------------------------------
(* The scanners, one at work.                                                *)

ScannersInv ==
    /\ reader = "name" => NInv
    /\ reader = "guard" => GInv
    /\ reader = "string" => Quoted!StringInv
    /\ IF reader = "number" THEN DInv ELSE NumberRests

(* The invariant of whichever reader is at work.                             *)
THEOREM ScannersInvariant == ScannersSpec => []ScannersInv
<1>1. ScannersInit => ScannersInv
  BY NameBegins, GuardBegins, NumberBegins, Quoted!StringBegins
     DEF ScannersInit, ScannersInv
<1>2. ScannersInv /\ [ScannersNext]_scannersVars => ScannersInv'
  <2> SUFFICES ASSUME ScannersInv, [ScannersNext]_scannersVars PROVE ScannersInv'
    OBVIOUS
  <2>1. CASE ReadNumber
    BY <2>1, NumberGoesOn DEF ReadNumber, ScannersInv
  <2>2. CASE ReadName
    <3>1. NumberRests => NumberRests'
      BY <2>2 DEF ReadName, numberVars, NumberRests
    <3>. QED
      BY <2>2, <3>1, NameGoesOn DEF ReadName, ScannersInv
  <2>3. CASE ReadGuarded
    <3>1. NumberRests => NumberRests'
      BY <2>3 DEF ReadGuarded, numberVars, NumberRests
    <3>. QED
      BY <2>3, <3>1, GuardGoesOn DEF ReadGuarded, ScannersInv
  <2>5. CASE ReadString
    <3>1. NumberRests => NumberRests'
      BY <2>5 DEF ReadString, numberVars, NumberRests
    <3>2. Quoted!StringInv /\ Quoted!Next => Quoted!StringInv'
      BY Quoted!StringGoesOn
    <3>. QED
      BY <2>5, <3>1, <3>2 DEF ReadString, ScannersInv
  <2>4. CASE UNCHANGED scannersVars
    <3>1. UNCHANGED Names!vars /\ UNCHANGED Guards!vars /\ reader' = reader
      BY <2>4 DEF scannersVars, nameVars, guardVars, Names!vars, Guards!vars, Guards!input,
         Guards!handed
    <3>2. UNCHANGED vars /\ (NumberRests => NumberRests')
      BY <2>4 DEF scannersVars, numberVars, vars, NumberRests
    <3>3. UNCHANGED Quoted!vars
      BY <2>4 DEF scannersVars, stringVars, Quoted!vars, Quoted!input
    <3>4. Quoted!StringInv => Quoted!StringInv'
      BY <3>3, Quoted!StringGoesOn
    <3>. QED
      BY <3>1, <3>2, <3>4, NameGoesOn, GuardGoesOn, NumberGoesOn DEF ScannersInv
  <2>. QED
    BY <2>1, <2>2, <2>3, <2>4, <2>5 DEF ScannersNext
<1>. QED
  BY <1>1, <1>2, PTL DEF ScannersSpec, scannersVars

(* Each port answers a source as its options and the lexer's first token     *)
(* say, whatever the source and however often the plugin was installed.      *)
THEOREM AnswersSpecified == ScannersSpec => []AnswersAreTheSpecified
<1>1. ScannersInv => AnswersAreTheSpecified
  BY DEF ScannersInv, GInv, AnswersAreTheSpecified
<1>. QED
  BY <1>1, ScannersInvariant, PTL

(* A key is taken exactly when the whole run is an IdentifierName.           *)
THEOREM OnlyNames == ScannersSpec => []NamesAndOnlyNames
<1>1. ScannersInv => NamesAndOnlyNames
  BY DEF ScannersInv, NInv, NamesAndOnlyNames
<1>. QED
  BY <1>1, ScannersInvariant, PTL

(* The pair's key and its token's value are the decoded name.                *)
THEOREM KeysAreNames == ScannersSpec => []KeyIsTheName
<1>1. ScannersInv => KeyIsTheName
  BY DEF ScannersInv, NInv, KeyIsTheName
<1>. QED
  BY <1>1, ScannersInvariant, PTL

(* A literal becomes the double nearest to its exact integer: decided by the *)
(* bits a double holds, the one below them and whether anything is left.     *)
THEOREM LiteralsAreRoundedOnce == ScannersSpec => []RoundsOnce
<1>1. ASSUME NumberRests PROVE RoundsOnce
  <2>1. digits = <<>> /\ sign = "" /\ value = Number(FALSE, 0)
    BY <1>1 DEF NumberRests
  <2>2. LiteralsNumber = Number(FALSE, 0)
    BY <2>1, PackOfNone, NearestOfZero DEF LiteralsNumber
  <2>. QED
    BY <2>1, <2>2 DEF RoundsOnce
<1>2. ScannersInv => RoundsOnce
  BY <1>1 DEF ScannersInv, DInv
<1>. QED
  BY <1>2, ScannersInvariant, PTL

(* A string with a continuation, whatever its length, the port and the       *)
(* options, is made a token exactly when it is a literal.                    *)
THEOREM TokensAreTheLiterals == ScannersSpec => []ReadsExactlyTheLiterals
<1>1. ScannersInv => ReadsExactlyTheLiterals
  BY DEF ScannersInv, Quoted!StringInv, Quoted!ReaderInv, ReadsExactlyTheLiterals
<1>. QED
  BY <1>1, ScannersInvariant, PTL

(* The loop closes it at the quote the scan that let it in stopped at.       *)
THEOREM ClosedAtTheQuote == ScannersSpec => []ClosesAtTheClosingQuote
<1>1. ScannersInv => ClosesAtTheClosingQuote
  BY DEF ScannersInv, Quoted!StringInv, Quoted!ReaderInv, ClosesAtTheClosingQuote
<1>. QED
  BY <1>1, ScannersInvariant, PTL

(* Row and column after it, and at every error inside it, are those the one  *)
(* rule of strings.tsv gives for the source, in every port: the row unless   *)
(* TypeScript or Go has passed a raw LS or PS it counts none of, the column  *)
(* unless either has passed a raw CR in this row.                            *)
THEOREM PositionsAreTheSources == ScannersSpec => []PositionIsTheSources
<1>1. ScannersInv => PositionIsTheSources
  BY DEF ScannersInv, Quoted!StringInv, Quoted!PositionInv, PositionIsTheSources
<1>. QED
  BY <1>1, ScannersInvariant, PTL

(* Its value is the literal's: its code units in TypeScript, the characters  *)
(* they make in Go and Rust.                                                 *)
THEOREM ValuesAreTheLiterals == ScannersSpec => []ValueIsTheLiterals
<1>1. ScannersInv => ValueIsTheLiterals
  BY DEF ScannersInv, Quoted!StringInv, Quoted!ValueInv, ValueIsTheLiterals
<1>. QED
  BY <1>1, ScannersInvariant, PTL
===============================================================================
