------------------------- MODULE ContinuedStringProofs --------------------------
(***************************************************************************)
(* Proofs about the plugin's string reader, for sources of any length: of  *)
(* every string it takes up it makes a token exactly when the string is a  *)
(* literal, and closes it at the literal's own closing quote; the row and  *)
(* column it ends with are the source's, but where a port misses a raw     *)
(* terminator (MissesRow, RestartsAtCR); and the value is the literal's.   *)
(* Three invariants build on each other: what has been read (ReaderInv),   *)
(* where the cursor is (PositionInv) and what has been said (ValueInv).    *)
(***************************************************************************)
EXTENDS ContinuedString, SequenceTheorems, FiniteSetTheorems, WellFoundedInduction,
        TLAPS

-------------------------------------------------------------------------------
(* The two walks over a string, the program's (Found) and the literal's    *)
(* (StartsFrom), are the recursions they are written as.                   *)

(* A set of numbers that is not empty has a least one. *)
LEMMA LeastNumber ==
  ASSUME NEW T \in SUBSET Nat, T # {}
  PROVE  \E x \in T : \A y \in T : x <= y
<1>1. PICK x \in T : \A y \in T : ~ (<<y, x>> \in OpToRel(<, Nat))
  BY NatLessThanWellFounded, WFMin
<1>2. \A y \in T : ~(y < x)
  BY <1>1 DEF OpToRel
<1>. QED
  BY <1>2

(* A walk from each place to a later one, until a place that ends it,      *)
(* gathering what is found on the way.                                     *)
IsWalk(f, top, ends, adds, next) ==
  /\ f = [i \in 2 .. top |-> f[i]]
  /\ \A i \in 2 .. top : f[i] = IF i \in ends THEN adds[i] ELSE adds[i] \cup f[next[i]]

Walk(top, ends, adds, next) == CHOOSE f : IsWalk(f, top, ends, adds, next)

(* Such a walk exists, whatever it gathers, since it never stands still.   *)
LEMMA WalkExists ==
  ASSUME NEW top \in Nat, NEW ends, NEW adds, NEW next,
         \A i \in 2 .. top : i \notin ends => next[i] \in i + 1 .. top
  PROVE  IsWalk(Walk(top, ends, adds, next), top, ends, adds, next)
<1> DEFINE Walks(f, low) ==
             f = [i \in low .. top |->
                    IF i \in ends THEN adds[i] ELSE adds[i] \cup f[next[i]]]
           T == {m \in Nat : 2 <= top + 1 - m /\ ~ \E f : Walks(f, top + 1 - m)}
<1>1. T = {}
  <2> SUFFICES ASSUME T # {} PROVE FALSE
    OBVIOUS
  <2>1. T \in SUBSET Nat
    OBVIOUS
  <2> HIDE DEF T
  <2>2. PICK m \in T : \A k \in T : m <= k
    BY <2>1, LeastNumber
  <2> DEFINE low == top + 1 - m
  <2>3. m \in Nat /\ 2 <= low /\ ~ \E f : Walks(f, low)
    BY <2>2 DEF T
  <2>4. CASE m = 0
    <3> DEFINE f == [i \in low .. top |-> {}]
    <3>1. \A i : i \notin low .. top
      BY <2>4
    <3>2. Walks(f, low)
      BY <3>1
    <3>. QED
      BY <2>3, <3>2
  <2>5. CASE m # 0
    <3>1. m - 1 \in Nat /\ m - 1 \notin T
      BY <2>2, <2>3, <2>5
    <3>2. top + 1 - (m - 1) = low + 1 /\ 2 <= low + 1 /\ low \in 2 .. top
      BY <2>3, <2>5
    <3>3. PICK f : Walks(f, low + 1)
      BY <3>1, <3>2 DEF T
    <3> DEFINE value0 == IF low \in ends THEN adds[low] ELSE adds[low] \cup f[next[low]]
               g == [i \in low .. top |-> IF i = low THEN value0 ELSE f[i]]
    <3>4. /\ low \in Int /\ low \in low .. top
          /\ \A i \in low .. top : i = low \/ i \in low + 1 .. top
          /\ \A i \in low + 1 .. top : i \in low .. top /\ i # low /\ i \in 2 .. top
      BY <3>2
    <3> HIDE DEF low
    <3>5. \A i \in low + 1 .. top : g[i] = f[i]
      BY <3>4
    <3>6. g[low] = value0
      BY <3>4
    <3>7. \A i \in low .. top : i \notin ends => next[i] \in low + 1 .. top
      <4> SUFFICES ASSUME NEW i \in low .. top, i \notin ends
                   PROVE  next[i] \in low + 1 .. top
        OBVIOUS
      <4>1. i \in 2 .. top /\ low \in Int /\ low <= i
        BY <3>2, <3>4
      <4>2. next[i] \in i + 1 .. top
        BY <4>1
      <4>. QED
        BY <4>1, <4>2
    <3>8. \A i \in low + 1 .. top :
             f[i] = IF i \in ends THEN adds[i] ELSE adds[i] \cup f[next[i]]
      BY <3>3
    <3>9. g = [i \in low .. top |-> g[i]]
      OBVIOUS
    <3> HIDE DEF g
    <3>10. \A i \in low .. top :
              g[i] = IF i \in ends THEN adds[i] ELSE adds[i] \cup g[next[i]]
      <4> SUFFICES ASSUME NEW i \in low .. top
                   PROVE  g[i] = IF i \in ends THEN adds[i] ELSE adds[i] \cup g[next[i]]
        OBVIOUS
      <4>1. i \notin ends => g[next[i]] = f[next[i]]
        BY <3>5, <3>7
      <4>2. CASE i = low
        BY <3>6, <4>1, <4>2
      <4>3. CASE i \in low + 1 .. top
        BY <3>5, <3>8, <4>1, <4>3
      <4>. QED
        BY <3>4, <4>2, <4>3
    <3>11. Walks(g, low)
      BY <3>9, <3>10
    <3>. QED
      BY <2>3, <3>11 DEF low
  <2>. QED
    BY <2>4, <2>5
<1>4. \A m \in Nat : 2 <= top + 1 - m => \E f : Walks(f, top + 1 - m)
  BY <1>1
<1>2. ASSUME top >= 1 PROVE \E f : IsWalk(f, top, ends, adds, next)
  <2> DEFINE k == top - 1
  <2>1. k \in Nat /\ top + 1 - k = 2
    BY <1>2
  <2> HIDE DEF k, Walks, T
  <2>2. \E f : Walks(f, top + 1 - k)
    BY <1>4, <2>1
  <2>3. PICK f : Walks(f, 2)
    BY <2>1, <2>2
  <2>4. f = [i \in 2 .. top |-> IF i \in ends THEN adds[i] ELSE adds[i] \cup f[next[i]]]
    BY <2>3 DEF Walks
  <2>5. f = [i \in 2 .. top |-> f[i]]
    BY <2>4
  <2>6. \A i \in 2 .. top : f[i] = IF i \in ends THEN adds[i] ELSE adds[i] \cup f[next[i]]
    BY <2>4
  <2>. QED
    BY <2>5, <2>6, Zenon DEF IsWalk
<1>3. ASSUME top = 0 PROVE \E f : IsWalk(f, top, ends, adds, next)
  <2> DEFINE f == [i \in 2 .. top |-> {}]
  <2>1. \A i : i \notin 2 .. top
    BY <1>3
  <2>. QED
    BY <2>1 DEF IsWalk
<1>5. top >= 1 \/ top = 0
  OBVIOUS
<1>. QED
  BY <1>2, <1>3, <1>5, Zenon DEF Walk

(* What the program's walk finds from each place. *)
LEMMA FoundUnfolds ==
  ASSUME NEW s, Len(s) \in Nat
  PROVE  \A i \in 2 .. Len(s) + 2 :
           Found(s)[i] =
             IF i > Len(s) \/ At(s, i) = s[1] THEN {}
             ELSE IF s[i] # "\\" THEN Found(s)[i + 1]
             ELSE IF i = Len(s) THEN {}
             ELSE Found(s)[i + 2] \cup
                  (IF Forbids(s, i) THEN {"FORBIDDEN"}
                   ELSE IF s[i + 1] \in LineTerminators THEN {"CONTINUED"} ELSE {})
<1> DEFINE top == Len(s) + 2
           Stops(i) == i > Len(s) \/ At(s, i) = s[1] \/ (s[i] = "\\" /\ i = Len(s))
           What(i) == IF Forbids(s, i) THEN {"FORBIDDEN"}
                      ELSE IF s[i + 1] \in LineTerminators THEN {"CONTINUED"} ELSE {}
           Body(f, i) == IF i > Len(s) \/ At(s, i) = s[1] THEN {}
                         ELSE IF s[i] # "\\" THEN f[i + 1]
                         ELSE IF i = Len(s) THEN {}
                         ELSE f[i + 2] \cup What(i)
           ends == {i \in 2 .. top : Stops(i)}
           adds == [i \in 2 .. top |-> IF Stops(i) \/ s[i] # "\\" THEN {} ELSE What(i)]
           next == [i \in 2 .. top |-> IF s[i] # "\\" THEN i + 1 ELSE i + 2]
<1>1. top \in Nat
  OBVIOUS
<1>2. \A i \in 2 .. top : i \notin ends => next[i] \in i + 1 .. top
  <2> SUFFICES ASSUME NEW i \in 2 .. top, i \notin ends PROVE next[i] \in i + 1 .. top
    OBVIOUS
  <2>1. i <= Len(s) /\ (s[i] = "\\" => i < Len(s))
    OBVIOUS
  <2>2. next[i] = IF s[i] # "\\" THEN i + 1 ELSE i + 2
    OBVIOUS
  <2>. QED
    BY <2>1, <2>2
<1>3. \A i \in 2 .. top : /\ i \in ends <=> Stops(i)
                          /\ adds[i] = IF Stops(i) \/ s[i] # "\\" THEN {} ELSE What(i)
                          /\ next[i] = IF s[i] # "\\" THEN i + 1 ELSE i + 2
  OBVIOUS
<1> HIDE DEF ends, adds, next, top, What
<1> DEFINE f == Walk(top, ends, adds, next)
<1>4. /\ f = [i \in 2 .. top |-> f[i]]
      /\ \A i \in 2 .. top :
            f[i] = IF i \in ends THEN adds[i] ELSE adds[i] \cup f[next[i]]
  <2>1. IsWalk(f, top, ends, adds, next)
    BY ONLY <1>1, <1>2, WalkExists
  <2> HIDE DEF f
  <2>. QED
    BY ONLY <2>1 DEF IsWalk
<1> HIDE DEF f
<1>5. \A i \in 2 .. top : f[i] = Body(f, i)
  <2> SUFFICES ASSUME NEW i \in 2 .. top PROVE f[i] = Body(f, i)
    OBVIOUS
  <2>1. CASE Stops(i)
    <3>1. f[i] = {}
      BY <1>3, <1>4, <2>1
    <3>. QED
      BY <2>1, <3>1
  <2>2. CASE ~Stops(i) /\ s[i] # "\\"
    <3>1. f[i] = {} \cup f[i + 1]
      BY <1>3, <1>4, <2>2
    <3>. QED
      BY <2>2, <3>1
  <2>3. CASE ~Stops(i) /\ s[i] = "\\"
    <3>1. f[i] = What(i) \cup f[i + 2]
      BY <1>3, <1>4, <2>3
    <3>. QED
      BY <2>3, <3>1
  <2>. QED
    BY <2>1, <2>2, <2>3
<1>6. f = [i \in 2 .. top |-> f[i]]
  BY <1>4
<1> HIDE DEF Body
<1>7. f = [i \in 2 .. top |-> Body(f, i)]
  BY <1>5, <1>6
<1>8. Found(s) = CHOOSE g : g = [i \in 2 .. top |-> Body(g, i)]
  BY DEF Found, top, Body, What
<1>9. Found(s) = [i \in 2 .. top |-> Body(Found(s), i)]
  BY <1>7, <1>8
<1>10. \A i \in 2 .. top : Found(s)[i] = Body(Found(s), i)
  BY <1>9
<1>. QED
  BY <1>10 DEF top, Body, What

(* An element takes at least one character and at most six.                *)
LEMMA WidthIs == \A s, i, o : Width(s, i, o) \in 1 .. 6
  BY DEF Width

(* Where the literal's elements start from each place on. *)
LEMMA StartsUnfold ==
  ASSUME NEW s, NEW o, Len(s) \in Nat
  PROVE  \A i \in 2 .. Len(s) + 6 :
           StartsFrom(s, o)[i] =
             IF i > Len(s) THEN {}
             ELSE IF s[i] = s[1] THEN {i}
             ELSE {i} \cup StartsFrom(s, o)[i + Width(s, i, o)]
<1> DEFINE top == Len(s) + 6
           Body(f, i) == IF i > Len(s) THEN {}
                         ELSE IF s[i] = s[1] THEN {i}
                         ELSE {i} \cup f[i + Width(s, i, o)]
           ends == {i \in 2 .. top : i > Len(s) \/ s[i] = s[1]}
           adds == [i \in 2 .. top |-> IF i > Len(s) THEN {} ELSE {i}]
           next == [i \in 2 .. top |-> i + Width(s, i, o)]
<1>1. top \in Nat
  OBVIOUS
<1>2. \A i \in 2 .. top : i \notin ends => next[i] \in i + 1 .. top
  <2> SUFFICES ASSUME NEW i \in 2 .. top, i \notin ends PROVE next[i] \in i + 1 .. top
    OBVIOUS
  <2>1. i <= Len(s) /\ next[i] = i + Width(s, i, o) /\ Width(s, i, o) \in 1 .. 6
    BY WidthIs
  <2>. QED
    BY <2>1
<1>3. \A i \in 2 .. top : /\ i \in ends <=> i > Len(s) \/ s[i] = s[1]
                          /\ adds[i] = IF i > Len(s) THEN {} ELSE {i}
                          /\ next[i] = i + Width(s, i, o)
  OBVIOUS
<1> HIDE DEF ends, adds, next, top
<1> DEFINE f == Walk(top, ends, adds, next)
<1>4. /\ f = [i \in 2 .. top |-> f[i]]
      /\ \A i \in 2 .. top :
            f[i] = IF i \in ends THEN adds[i] ELSE adds[i] \cup f[next[i]]
  <2>1. IsWalk(f, top, ends, adds, next)
    BY ONLY <1>1, <1>2, WalkExists
  <2> HIDE DEF f
  <2>. QED
    BY ONLY <2>1 DEF IsWalk
<1> HIDE DEF f
<1>5. \A i \in 2 .. top : f[i] = Body(f, i)
  BY <1>3, <1>4
<1>6. f = [i \in 2 .. top |-> f[i]]
  BY <1>4
<1> HIDE DEF Body
<1>7. f = [i \in 2 .. top |-> Body(f, i)]
  BY <1>5, <1>6
<1>8. StartsFrom(s, o) = CHOOSE g : g = [i \in 2 .. top |-> Body(g, i)]
  BY DEF StartsFrom, top, Body
<1>9. StartsFrom(s, o) = [i \in 2 .. top |-> Body(StartsFrom(s, o), i)]
  BY <1>7, <1>8
<1>10. \A i \in 2 .. top : StartsFrom(s, o)[i] = Body(StartsFrom(s, o), i)
  BY <1>9
<1>. QED
  BY <1>10 DEF top, Body

(* What holds of a place when it holds of every later one holds of all.    *)
(* (The induction is over how far a place is from the end.)                *)
LEMMA FromTheEnd ==
  ASSUME NEW low \in Int, NEW top \in Int, NEW good,
         \A i \in low .. top : (\A j \in i + 1 .. top : j \in good) => i \in good
  PROVE  \A i \in low .. top : i \in good
<1> DEFINE T == {m \in Nat : top - m >= low /\ top - m \notin good}
<1>1. T = {}
  <2> SUFFICES ASSUME T # {} PROVE FALSE
    OBVIOUS
  <2>1. T \in SUBSET Nat /\ \A m \in T : m \in Nat /\ top - m >= low /\ top - m \notin good
    OBVIOUS
  <2>2. \A m \in Nat : m \notin T => top - m < low \/ top - m \in good
    OBVIOUS
  <2> HIDE DEF T
  <2>3. PICK m \in T : \A k \in T : m <= k
    BY <2>1, LeastNumber
  <2>4. \A j \in (top - m) + 1 .. top : j \in good
    <3> SUFFICES ASSUME NEW j \in (top - m) + 1 .. top PROVE j \in good
      OBVIOUS
    <3> DEFINE k == top - j
    <3>1. k \in Nat /\ k < m /\ top - k = j /\ j >= low
      BY <2>1, <2>3
    <3>2. k \notin T
      BY <2>1, <2>3, <3>1
    <3>. QED
      BY <2>2, <3>1, <3>2
  <2>5. top - m \in low .. top
    BY <2>1, <2>3
  <2>. QED
    BY <2>1, <2>3, <2>4, <2>5
<1>2. SUFFICES ASSUME NEW i \in low .. top PROVE i \in good
  OBVIOUS
<1>3. top - i \in Nat /\ top - (top - i) = i /\ i >= low
  OBVIOUS
<1>4. top - i \notin T
  BY <1>1
<1>5. ~(top - (top - i) >= low /\ top - (top - i) \notin good)
  BY <1>3, <1>4
<1>. QED
  BY ONLY <1>3, <1>5

-------------------------------------------------------------------------------
(* What the two walks have to do with each other: over legal elements they *)
(* go through the same places.                                             *)

(* What every source gives: it has characters, and its quote is none that  *)
(* an escape, a digit or a terminator could be.                            *)
LEMMA SourceFacts ==
  ASSUME NEW s, IsSource(s)
  PROVE  /\ Len(s) \in Nat /\ Len(s) > 0
         /\ s[1] \in Quotes /\ s[1] # "\\" /\ s[1] \notin HexDigits
         /\ s[1] \notin LineTerminators /\ s[1] \notin Controls
         /\ \A i \in 1 .. Len(s) : At(s, i) = s[i] /\ s[i] # "end"
         /\ \A i : At(s, i) # "end" => i \in 1 .. Len(s)
<1>1. Len(s) \in Nat
  BY LenProperties DEF IsSource
<1>2. /\ s[1] # "\\" /\ s[1] \notin HexDigits /\ s[1] \notin LineTerminators
      /\ s[1] \notin Controls
  BY DEF IsSource, Quotes, HexDigits, Digits, LineTerminators, Controls
<1>. QED
  BY <1>1, <1>2 DEF IsSource, At

(* An escape is legal when it is not forbidden and complete, and is known  *)
(* or allowed though it is not.                                            *)
LEMMA LegalEscape ==
  ASSUME NEW s, NEW i, NEW o \in Options, s[i] = "\\"
  PROVE  IsLegal(s, i, o) <=>
           /\ ~IsForbidden(s, i)
           /\ At(s, i + 1) # "end"
           /\ At(s, i + 1) = "u" => HexRun(s, i + 2, 4) # <<>>
           /\ At(s, i + 1) = "x" /\ ~o.escapeStrict => HexRun(s, i + 2, 2) # <<>>
           /\ \/ At(s, i + 1) \in LineTerminators \cup EscapeMap \cup {"u"}
              \/ At(s, i + 1) = "x" /\ ~o.escapeStrict
              \/ o.allowUnknown
<1> DEFINE m == At(s, i + 1)
           hex4 == HexRun(s, i + 2, 4) # <<>>
           hex2 == HexRun(s, i + 2, 2) # <<>>
<1>1. IsLegal(s, i, o) <=>
        /\ ~IsForbidden(s, i)
        /\ CASE m = "end"                          -> FALSE
             [] m = "u"                            -> hex4
             [] m = "x" /\ ~o.escapeStrict         -> hex2
             [] m \in LineTerminators \cup EscapeMap -> TRUE
             [] OTHER                              -> o.allowUnknown
  BY DEF IsLegal
<1>2. o.allowUnknown \in BOOLEAN /\ o.escapeStrict \in BOOLEAN
  BY DEF Options
<1>3. /\ "end" \notin LineTerminators \cup EscapeMap
      /\ "u" \notin LineTerminators \cup EscapeMap
      /\ "x" \notin LineTerminators \cup EscapeMap
  BY DEF LineTerminators, EscapeMap
<1> HIDE DEF m, hex4, hex2
<1>4. CASE m = "end"
  BY <1>1, <1>3, <1>4 DEF m
<1>5. CASE m = "u"
  BY <1>1, <1>3, <1>5 DEF m, hex4
<1>6. CASE m = "x" /\ ~o.escapeStrict
  BY <1>1, <1>3, <1>6 DEF m, hex2
<1>7. CASE m \in LineTerminators \cup EscapeMap
  BY <1>1, <1>3, <1>7 DEF m
<1>8. CASE /\ m \notin LineTerminators \cup EscapeMap \cup {"u", "end"}
           /\ m = "x" => o.escapeStrict
  BY <1>1, <1>2, <1>8 DEF m
<1>. QED
  BY <1>4, <1>5, <1>6, <1>7, <1>8

(* The digits of a run stand in the string.                                *)
LEMMA HexRunStands ==
  ASSUME NEW s, IsSource(s), NEW i \in Nat, NEW k \in Nat, HexRun(s, i, k) # <<>>
  PROVE  \A j \in i .. i + k - 1 : j \in 1 .. Len(s) /\ s[j] \in HexDigits
<1>1. \A j \in i .. i + k - 1 : At(s, j) \in HexDigits
  BY DEF HexRun
<1>2. "end" \notin HexDigits
  BY DEF HexDigits, Digits
<1>. QED
  BY <1>1, <1>2, SourceFacts

(* The program's walk passes over what is neither quote nor backslash.     *)
LEMMA PlainIsPassedOver ==
  ASSUME NEW s, IsSource(s), NEW i \in 2 .. Len(s), s[i] # s[1], s[i] # "\\"
  PROVE  Found(s)[i] = Found(s)[i + 1]
<1>1. Len(s) \in Nat /\ At(s, i) = s[i] /\ i \in 2 .. Len(s) + 2 /\ ~(i > Len(s))
  BY SourceFacts
<1>. QED
  BY <1>1, FoundUnfolds

(* Over a legal element it comes to where the next one starts, having      *)
(* found nothing forbidden in it.                                          *)
LEMMA LegalIsPassedOver ==
  ASSUME NEW s, IsSource(s), NEW o \in Options, NEW i \in 2 .. Len(s),
         s[i] # s[1], IsLegal(s, i, o)
  PROVE  /\ i + Width(s, i, o) \in i + 1 .. Len(s) + 1
         /\ "FORBIDDEN" \in Found(s)[i] <=> "FORBIDDEN" \in Found(s)[i + Width(s, i, o)]
<1>1. Len(s) \in Nat /\ i \in 2 .. Len(s) + 2 /\ At(s, i) = s[i] /\ ~(i > Len(s))
  BY SourceFacts
<1>2. CASE s[i] # "\\"
  <2>1. Width(s, i, o) = 1
    BY <1>2 DEF Width
  <2>. QED
    BY <1>1, <1>2, <2>1, PlainIsPassedOver
<1>3. CASE s[i] = "\\"
  <2> DEFINE m == At(s, i + 1)
  <2>1. /\ ~IsForbidden(s, i) /\ m # "end"
        /\ m = "u" => HexRun(s, i + 2, 4) # <<>>
        /\ m = "x" /\ ~o.escapeStrict => HexRun(s, i + 2, 2) # <<>>
    BY <1>3, LegalEscape
  <2>2. i + 1 \in 1 .. Len(s) /\ s[i + 1] = m /\ i # Len(s) /\ i + 2 \in 2 .. Len(s) + 1
    BY <1>1, <2>1, SourceFacts
  <2>3. ~Forbids(s, i)
    BY <1>3, <2>1, <2>2 DEF Forbids, IsForbidden
  <2>4. "FORBIDDEN" \in Found(s)[i] <=> "FORBIDDEN" \in Found(s)[i + 2]
    <3>1. Found(s)[i] = Found(s)[i + 2] \cup
             (IF s[i + 1] \in LineTerminators THEN {"CONTINUED"} ELSE {})
      BY <1>1, <1>3, <2>2, <2>3, FoundUnfolds
    <3>. QED
      BY <3>1
  <2>5. \A j \in 2 .. Len(s) :
           s[j] \in HexDigits \cup {"LF"} => Found(s)[j] = Found(s)[j + 1]
    <3>1. \A j : s[j] \in HexDigits \cup {"LF"} => s[j] # s[1] /\ s[j] # "\\"
      BY SourceFacts DEF HexDigits, Digits, LineTerminators
    <3>. QED
      BY <3>1, PlainIsPassedOver
  <2> HIDE DEF m
  <2>6. CASE m = "CR" /\ At(s, i + 2) = "LF"
    <3>1. Width(s, i, o) = 3
      BY <1>3, <2>6 DEF Width, m
    <3>2. i + 2 \in 2 .. Len(s) /\ s[i + 2] = "LF"
      BY <1>1, <2>2, <2>6, SourceFacts
    <3>3. Found(s)[i + 2] = Found(s)[i + 3]
      BY <2>5, <3>2
    <3>. QED
      BY <1>1, <2>4, <3>1, <3>2, <3>3
  <2>7. CASE m = "u"
    <3>1. Width(s, i, o) = 6
      BY <1>3, <2>7 DEF Width, m
    <3>2. \A j \in i + 2 .. i + 5 : j \in 2 .. Len(s) /\ s[j] \in HexDigits
      BY <1>1, <2>1, <2>7, HexRunStands
    <3>3. /\ Found(s)[i + 2] = Found(s)[i + 3] /\ Found(s)[i + 3] = Found(s)[i + 4]
          /\ Found(s)[i + 4] = Found(s)[i + 5] /\ Found(s)[i + 5] = Found(s)[i + 6]
      BY <1>1, <2>5, <3>2
    <3>. QED
      BY <1>1, <2>4, <3>1, <3>2, <3>3
  <2>8. CASE m = "x" /\ ~o.escapeStrict
    <3>1. Width(s, i, o) = 4
      BY <1>3, <2>8 DEF Width, m
    <3>2. \A j \in i + 2 .. i + 3 : j \in 2 .. Len(s) /\ s[j] \in HexDigits
      BY <1>1, <2>1, <2>8, HexRunStands
    <3>3. Found(s)[i + 2] = Found(s)[i + 3] /\ Found(s)[i + 3] = Found(s)[i + 4]
      BY <1>1, <2>5, <3>2
    <3>. QED
      BY <1>1, <2>4, <3>1, <3>2, <3>3
  <2>9. CASE ~(m = "CR" /\ At(s, i + 2) = "LF") /\ m # "u" /\ ~(m = "x" /\ ~o.escapeStrict)
    <3>1. Width(s, i, o) = 2
      BY <1>3, <2>9 DEF Width, m
    <3>. QED
      BY <1>1, <2>2, <2>4, <3>1
  <2>. QED
    BY <2>6, <2>7, <2>8, <2>9
<1>. QED
  BY <1>2, <1>3

(* The closing quote is a legal character, and so is a character that is   *)
(* neither a control nor a backslash.                                      *)
LEMMA LegalPlain ==
  ASSUME NEW s, NEW i, NEW o, s[i] # "\\"
  PROVE  IsLegal(s, i, o) <=>
           (s[i] \in Controls =>
              IF s[i] \in LineTerminators THEN s[1] = "BQ" ELSE o.allowControl)
BY DEF IsLegal

(* An escape ES5.1 forbids is found where it stands.                       *)
LEMMA ForbiddenIsFound ==
  ASSUME NEW s, IsSource(s), NEW i \in 2 .. Len(s), s[i] = "\\", IsForbidden(s, i)
  PROVE  "FORBIDDEN" \in Found(s)[i]
<1>1. Len(s) \in Nat /\ i \in 2 .. Len(s) + 2 /\ At(s, i) = s[i] /\ ~(i > Len(s))
  BY SourceFacts
<1>2. At(s, i + 1) # "end"
  BY DEF IsForbidden, Digits
<1>3. i + 1 \in 1 .. Len(s) /\ s[i + 1] = At(s, i + 1) /\ i # Len(s)
  BY <1>1, <1>2, SourceFacts
<1>4. Forbids(s, i) /\ s[i] # s[1]
  BY <1>3, SourceFacts DEF Forbids, IsForbidden
<1>5. Found(s)[i] = Found(s)[i + 2] \cup {"FORBIDDEN"}
  BY <1>1, <1>3, <1>4, FoundUnfolds
<1>. QED
  BY <1>5

(* Where every element is legal the program finds nothing forbidden.       *)
LEMMA NothingForbidden ==
  ASSUME NEW s, IsSource(s), NEW o \in Options
  PROVE  \A i \in 2 .. Len(s) + 1 :
           (\A j \in StartsFrom(s, o)[i] : IsLegal(s, j, o))
             => "FORBIDDEN" \notin Found(s)[i]
<1> DEFINE Fine(i) == \A j \in StartsFrom(s, o)[i] : IsLegal(s, j, o)
           good == {i \in 2 .. Len(s) + 1 : Fine(i) => "FORBIDDEN" \notin Found(s)[i]}
<1>1. Len(s) \in Nat /\ Len(s) + 1 \in Int
  BY SourceFacts
<1>2. ASSUME NEW i \in 2 .. Len(s) + 1, \A j \in i + 1 .. Len(s) + 1 : j \in good
      PROVE  i \in good
  <2> SUFFICES ASSUME Fine(i) PROVE "FORBIDDEN" \notin Found(s)[i]
    OBVIOUS
  <2>1. i \in 2 .. Len(s) + 2 /\ i \in 2 .. Len(s) + 6
    BY <1>1
  <2>2. CASE i > Len(s) \/ s[i] = s[1]
    <3>1. i > Len(s) \/ At(s, i) = s[1]
      BY <1>1, <2>1, <2>2 DEF At
    <3>. QED
      BY <1>1, <2>1, <3>1, FoundUnfolds
  <2>3. CASE ~(i > Len(s)) /\ s[i] # s[1]
    <3> DEFINE k == i + Width(s, i, o)
    <3>1. StartsFrom(s, o)[i] = {i} \cup StartsFrom(s, o)[k]
      <4>1. \A j \in 2 .. Len(s) + 6 :
              StartsFrom(s, o)[j] =
                IF j > Len(s) THEN {}
                ELSE IF s[j] = s[1] THEN {j}
                ELSE {j} \cup StartsFrom(s, o)[j + Width(s, j, o)]
        BY ONLY <1>1, StartsUnfold
      <4>. QED
        BY ONLY <2>1, <2>3, <4>1
    <3>2. i \in 2 .. Len(s)
      BY <1>1, <2>3
    <3>3. IsLegal(s, i, o)
      BY <3>1
    <3>4. /\ k \in i + 1 .. Len(s) + 1
          /\ "FORBIDDEN" \in Found(s)[i] <=> "FORBIDDEN" \in Found(s)[k]
      BY <2>3, <3>2, <3>3, LegalIsPassedOver
    <3>5. Fine(k)
      BY <3>1
    <3>6. k \in good
      BY <1>2, <3>4
    <3>. QED
      BY <3>4, <3>5, <3>6
  <2>. QED
    BY <2>2, <2>3
<1> HIDE DEF good
<1>3. \A i \in 2 .. Len(s) + 1 : (\A j \in i + 1 .. Len(s) + 1 : j \in good) => i \in good
  BY <1>2
<1> DEFINE last == Len(s) + 1
<1>4. /\ 2 \in Int /\ last \in Int
      /\ \A i \in 2 .. last : (\A j \in i + 1 .. last : j \in good) => i \in good
  BY <1>1, <1>3
<1> HIDE DEF last
<1>5. \A i \in 2 .. last : i \in good
  BY ONLY <1>4, FromTheEnd, Zenon
<1>. QED
  BY <1>5 DEF good, last

-------------------------------------------------------------------------------
(* The reader is where an element of the literal starts, all those before  *)
(* it are legal and none is the closing quote, and nothing forbidden is    *)
(* ahead.                                                                  *)
Ahead == StartsFrom(src, syntax)[at]

InStep ==
  /\ at \in 2 .. Len(src) + 1
  /\ "FORBIDDEN" \notin Found(src)[at]
  /\ Ahead \subseteq Starts(src, syntax)
  /\ \A i \in Starts(src, syntax) \ Ahead : IsLegal(src, i, syntax) /\ src[i] # src[1]

ReaderInv ==
  /\ IsSource(src) /\ syntax \in Options /\ port \in {"ts", "go", "rs"}
  /\ outcome = "reading" => InStep
  /\ ReadsExactlyTheLiterals
  /\ ClosesAtTheClosingQuote

(* What reading says of the character the reader is at. *)
LEMMA ReadingFacts ==
  ASSUME ReaderInv, Reading
  PROVE  /\ IsSource(src) /\ syntax \in Options /\ InStep
         /\ at \in 2 .. Len(src) + 6 /\ Len(src) \in Nat
         /\ c # "end" => at \in 2 .. Len(src) /\ c = src[at] /\ at \in Ahead
         /\ c = "end" => Ahead = {}
         /\ c = quote => Ahead = {at}
         /\ c # quote /\ c # "end" =>
              Ahead = {at} \cup StartsFrom(src, syntax)[at + Width(src, at, syntax)]
<1>1. IsSource(src) /\ syntax \in Options /\ InStep
  BY DEF ReaderInv, Reading
<1>2. Len(src) \in Nat /\ at \in 2 .. Len(src) + 1
  BY <1>1, SourceFacts DEF InStep
<1>3. at \in 2 .. Len(src) + 6 /\ at \in Int
  BY <1>2
<1>4. c = IF at \in 1 .. Len(src) THEN src[at] ELSE "end"
  BY DEF c, At
<1>5. c # "end" => at \in 2 .. Len(src) /\ c = src[at]
  BY <1>2, <1>4
<1>6. c = "end" => at > Len(src)
  BY <1>1, <1>2, <1>4, SourceFacts
<1>7. Ahead = IF at > Len(src) THEN {}
              ELSE IF src[at] = src[1] THEN {at}
              ELSE {at} \cup StartsFrom(src, syntax)[at + Width(src, at, syntax)]
  <2>1. \A i \in 2 .. Len(src) + 6 :
           StartsFrom(src, syntax)[i] =
             IF i > Len(src) THEN {}
             ELSE IF src[i] = src[1] THEN {i}
             ELSE {i} \cup StartsFrom(src, syntax)[i + Width(src, i, syntax)]
    BY ONLY <1>2, StartsUnfold
  <2>. QED
    BY ONLY <1>3, <2>1 DEF Ahead
<1>8. quote # "end" /\ quote = src[1]
  BY <1>1, SourceFacts DEF quote, IsSource, Quotes
<1>. QED
  BY <1>1, <1>2, <1>3, <1>5, <1>6, <1>7, <1>8

(* A legal element taken whole leaves the reader in step.                  *)
LEMMA LegalTaken ==
  ASSUME ReaderInv, Reading, c # "end", c # quote, IsLegal(src, at, syntax),
         at' = at + Width(src, at, syntax), UNCHANGED <<input, outcome>>
  PROVE  ReaderInv'
<1> DEFINE k == at + Width(src, at, syntax)
<1>1. /\ IsSource(src) /\ syntax \in Options /\ InStep
      /\ at \in 2 .. Len(src) /\ c = src[at]
      /\ Ahead = {at} \cup StartsFrom(src, syntax)[k]
  BY ReadingFacts
<1>2. src[at] # src[1]
  BY <1>1 DEF quote
<1>3. /\ k \in at + 1 .. Len(src) + 1
      /\ "FORBIDDEN" \in Found(src)[at] <=> "FORBIDDEN" \in Found(src)[k]
  BY <1>1, <1>2, LegalIsPassedOver
<1>4. port' = port /\ syntax' = syntax /\ src' = src /\ outcome' = outcome /\ at' = k
  BY DEF input
<1> HIDE DEF k
<1>5. Ahead' = StartsFrom(src, syntax)[k]
  BY <1>4 DEF Ahead
<1>6. InStep'
  <2>1. k \in 2 .. Len(src) + 1
    BY <1>1, <1>3
  <2>2. /\ "FORBIDDEN" \notin Found(src)[k]
        /\ Ahead' \subseteq Starts(src, syntax)
        /\ \A i \in Starts(src, syntax) \ Ahead' :
              IsLegal(src, i, syntax) /\ src[i] # src[1]
    BY <1>1, <1>2, <1>3, <1>5 DEF InStep
  <2>. QED
    BY <1>4, <2>1, <2>2 DEF InStep
<1>7. outcome' = "reading"
  BY <1>4 DEF Reading
<1>. QED
  BY <1>4, <1>6, <1>7
     DEF ReaderInv, ReadsExactlyTheLiterals, ClosesAtTheClosingQuote, Errors

(* An error at an element that is not legal is of a string that is no      *)
(* literal.                                                                *)
LEMMA IllegalBlamed ==
  ASSUME ReaderInv, Reading, c # "end", ~IsLegal(src, at, syntax),
         outcome' \in Errors, UNCHANGED input
  PROVE  ReaderInv'
<1>1. InStep /\ at \in Ahead
  BY ReadingFacts
<1>2. ~IsLiteral(src, syntax)
  BY <1>1 DEF IsLiteral, InStep
<1>3. outcome' # "reading" /\ outcome' # "token"
  BY DEF Errors
<1>. QED
  BY <1>2, <1>3 DEF ReaderInv, ReadsExactlyTheLiterals, ClosesAtTheClosingQuote, input

(* An escape goes on past its backslash, and is none ES5.1 forbids.        *)
LEMMA AtAnEscape ==
  ASSUME ReaderInv, Reading, c = "\\"
  PROVE  /\ c # "end" /\ c # quote /\ src[at] = "\\"
         /\ at \in 2 .. Len(src) /\ IsSource(src) /\ syntax \in Options
         /\ ~IsForbidden(src, at)
<1>1. /\ IsSource(src) /\ syntax \in Options /\ InStep
      /\ at \in 2 .. Len(src) /\ c = src[at]
  BY ReadingFacts
<1>2. c # quote
  BY <1>1, SourceFacts DEF quote
<1>. QED
  BY <1>1, <1>2, ForbiddenIsFound DEF InStep

(* Which escapes are legal, and how long they are, by what follows the     *)
(* backslash.                                                              *)
LEMMA EscapeFacts ==
  ASSUME ReaderInv, Reading, c = "\\"
  PROVE  /\ n = "end" => ~IsLegal(src, at, syntax)
         /\ n \in LineTerminators \cup EscapeMap =>
              /\ IsLegal(src, at, syntax)
              /\ Width(src, at, syntax) =
                   IF n = "CR" /\ At(src, at + 2) = "LF" THEN 3 ELSE 2
         /\ n = "u" =>
              /\ IsLegal(src, at, syntax) <=> HexRun(src, at + 2, 4) # <<>>
              /\ Width(src, at, syntax) = 6
         /\ n = "x" /\ ~syntax.escapeStrict =>
              /\ IsLegal(src, at, syntax) <=> HexRun(src, at + 2, 2) # <<>>
              /\ Width(src, at, syntax) = 4
         /\ /\ n \notin LineTerminators \cup EscapeMap \cup {"u", "end"}
            /\ n = "x" => syntax.escapeStrict
            =>
              /\ IsLegal(src, at, syntax) <=> syntax.allowUnknown
              /\ Width(src, at, syntax) = 2
<1>1. src[at] = "\\" /\ syntax \in Options /\ ~IsForbidden(src, at)
  BY AtAnEscape
<1>2. IsLegal(src, at, syntax) <=>
           /\ ~IsForbidden(src, at)
           /\ n # "end"
           /\ n = "u" => HexRun(src, at + 2, 4) # <<>>
           /\ n = "x" /\ ~syntax.escapeStrict => HexRun(src, at + 2, 2) # <<>>
           /\ \/ n \in LineTerminators \cup EscapeMap \cup {"u"}
              \/ n = "x" /\ ~syntax.escapeStrict
              \/ syntax.allowUnknown
  BY <1>1, LegalEscape DEF n
<1>3. Width(src, at, syntax) =
        CASE n = "CR" /\ At(src, at + 2) = "LF"  -> 3
          [] n = "u"                             -> 6
          [] n = "x" /\ ~syntax.escapeStrict     -> 4
          [] OTHER                               -> 2
  BY <1>1 DEF Width, n
<1>4. /\ "CR" \in LineTerminators
      /\ {"end", "u", "x"} \cap (LineTerminators \cup EscapeMap) = {}
  BY DEF LineTerminators, EscapeMap
<1>5. syntax.allowUnknown \in BOOLEAN /\ syntax.escapeStrict \in BOOLEAN
  BY <1>1 DEF Options
<1> HIDE DEF n
<1>6. n \in LineTerminators \cup EscapeMap =>
        Width(src, at, syntax) = IF n = "CR" /\ At(src, at + 2) = "LF" THEN 3 ELSE 2
  BY ONLY <1>3, <1>4
<1>7. /\ n = "u" => Width(src, at, syntax) = 6
      /\ n = "x" /\ ~syntax.escapeStrict => Width(src, at, syntax) = 4
      /\ n \notin LineTerminators \cup {"u"} /\ (n = "x" => syntax.escapeStrict) =>
           Width(src, at, syntax) = 2
  BY ONLY <1>3, <1>4
<1>. QED
  BY ONLY <1>1, <1>2, <1>4, <1>5, <1>6, <1>7

-------------------------------------------------------------------------------
(* The checks at the opening quote.                                        *)
LEMMA InitIsSound == Init => ReaderInv
BY DEF Init, ReaderInv, ReadsExactlyTheLiterals, ClosesAtTheClosingQuote, Errors

(* What the scan finds decides: a string refused is no literal, and one    *)
(* taken up is read from its first element on.                             *)
LEMMA CheckIsSound ==
  ASSUME ReaderInv, FixedCheck \/ StringCheck
  PROVE  ReaderInv'
<1>1. IsSource(src) /\ syntax \in Options /\ Len(src) \in Nat /\ Len(src) > 0
  BY SourceFacts DEF ReaderInv
<1>2. port' = port /\ syntax' = syntax /\ src' = src
  BY DEF FixedCheck, StringCheck, input
<1>3. CASE "FORBIDDEN" \in ScanString(src)
  <2>1. 2 \in 2 .. Len(src) + 1
    BY <1>1
  <2>2. ~IsLiteral(src, syntax)
    BY <1>1, <1>3, <2>1, NothingForbidden DEF ScanString, IsLiteral, Starts
  <2>3. outcome' = "unexpected"
    BY <1>3 DEF FixedCheck, StringCheck
  <2>. QED
    BY <1>2, <2>2, <2>3 DEF ReaderInv, ReadsExactlyTheLiterals, ClosesAtTheClosingQuote
<1>4. CASE "FORBIDDEN" \notin ScanString(src) /\ FixedCheck
  <2>1. outcome' = "reading" /\ at' = 2
    BY <1>4 DEF FixedCheck
  <2>2. at' \in 2 .. Len(src) + 1
    BY <1>1, <2>1
  <2>3. Ahead' = Starts(src, syntax)
    BY <1>2, <2>1 DEF Ahead, Starts
  <2>4. InStep'
    BY <1>2, <1>4, <2>1, <2>2, <2>3 DEF InStep, ScanString
  <2>. QED
    BY <1>2, <2>1, <2>4
       DEF ReaderInv, ReadsExactlyTheLiterals, ClosesAtTheClosingQuote, Errors
<1>5. CASE "FORBIDDEN" \notin ScanString(src) /\ StringCheck
  <2>1. outcome' = "engine"
    BY <1>5 DEF StringCheck
  <2>. QED
    BY <1>2, <2>1 DEF ReaderInv, ReadsExactlyTheLiterals, ClosesAtTheClosingQuote, Errors
<1>. QED
  BY <1>3, <1>4, <1>5

-------------------------------------------------------------------------------
(* The turns of the reader's loop.                                         *)

(* A turn that reads an escape takes a legal one whole, or blames one that *)
(* is not.                                                                 *)
LEMMA EscapeIsSound ==
  ASSUME ReaderInv,
         Continuation \/ MappedEscape \/ HexEscape \/ UnicodeEscape \/ UnknownEscape
  PROVE  ReaderInv'
<1> DEFINE width == Width(src, at, syntax)
           legal == IsLegal(src, at, syntax)
<1>1. Reading /\ c = "\\"
  BY DEF Continuation, MappedEscape, HexEscape, UnicodeEscape, UnknownEscape
<1>2. c # "end" /\ c # quote
  BY <1>1, AtAnEscape
<1>3. ASSUME legal, at' = at + width, UNCHANGED <<input, outcome>>
      PROVE  ReaderInv'
  BY <1>1, <1>2, <1>3, LegalTaken
<1>4. ASSUME ~legal, outcome' \in Errors, UNCHANGED input
      PROVE  ReaderInv'
  BY <1>1, <1>2, <1>4, IllegalBlamed
<1>5. /\ "end" \notin LineTerminators \cup EscapeMap
      /\ {"unexpected", "invalid_ascii", "invalid_unicode"} \subseteq Errors
  BY DEF LineTerminators, EscapeMap, Errors
<1>6. CASE Continuation
  <2>1. legal /\ width = IF n = "CR" /\ At(src, at + 2) = "LF" THEN 3 ELSE 2
    BY <1>1, <1>6, EscapeFacts DEF Continuation
  <2>2. at' = at + IF n = "CR" /\ At(src, at + 2) = "LF" THEN 3 ELSE 2
    BY <1>6 DEF Continuation, Along
  <2>3. UNCHANGED <<input, outcome>>
    BY <1>6 DEF Continuation
  <2>. QED
    BY <1>3, <2>1, <2>2, <2>3
<1>7. CASE MappedEscape
  <2>1. n \in EscapeMap /\ n # "CR"
    BY <1>7 DEF MappedEscape, EscapeMap
  <2>2. legal /\ width = 2
    BY <1>1, <2>1, EscapeFacts
  <2>3. at' = at + 2 /\ UNCHANGED <<input, outcome>>
    BY <1>7 DEF MappedEscape, Along
  <2>. QED
    BY <1>3, <2>2, <2>3
<1>8. CASE HexEscape
  <2> DEFINE digits == HexRun(src, at + 2, 2)
  <2>1. (legal <=> digits # <<>>) /\ width = 4
    BY <1>1, <1>8, EscapeFacts DEF HexEscape
  <2>2. \/ digits # <<>> /\ at' = at + 4 /\ UNCHANGED <<input, outcome>>
        \/ digits = <<>> /\ outcome' = "invalid_ascii" /\ UNCHANGED input
    BY <1>8 DEF HexEscape, Along, Bad
  <2>. QED
    BY <1>3, <1>4, <1>5, <2>1, <2>2
<1>9. CASE UnicodeEscape
  <2> DEFINE digits == HexRun(src, at + 2, 4)
  <2>1. (legal <=> digits # <<>>) /\ width = 6
    BY <1>1, <1>9, EscapeFacts DEF UnicodeEscape
  <2>2. \/ digits # <<>> /\ at' = at + 6 /\ UNCHANGED <<input, outcome>>
        \/ digits = <<>> /\ outcome' = "invalid_unicode" /\ UNCHANGED input
    BY <1>9 DEF UnicodeEscape, Along, Bad
  <2>. QED
    BY <1>3, <1>4, <1>5, <2>1, <2>2
<1>10. CASE UnknownEscape
  <2>1. (legal <=> syntax.allowUnknown) /\ width = 2
    BY <1>1, <1>10, EscapeFacts DEF UnknownEscape
  <2>2. \/ syntax.allowUnknown /\ at' = at + 2 /\ UNCHANGED <<input, outcome>>
        \/ ~syntax.allowUnknown /\ outcome' = "unexpected" /\ UNCHANGED input
    BY <1>10 DEF UnknownEscape, Along, Bad
  <2>. QED
    BY <1>3, <1>4, <1>5, <2>1, <2>2
<1>. QED
  BY <1>6, <1>7, <1>8, <1>9, <1>10

(* A character that is neither the closing quote nor a backslash is legal  *)
(* unless it is one to refuse, and takes one character.                    *)
LEMMA PlainFacts ==
  ASSUME ReaderInv, LineInBody \/ RefuseControl \/ Ordinary
  PROVE  /\ Reading /\ c \notin {quote, "\\", "end"} /\ at \in 2 .. Len(src) /\ c = src[at]
         /\ IsLegal(src, at, syntax) <=> ~Unprintable
         /\ LineBody \subseteq LineTerminators /\ (LineBody # {} => multiLine)
         /\ Width(src, at, syntax) = 1
<1> DEFINE legal == IsLegal(src, at, syntax)
<1>1. Reading /\ port \in {"ts", "go", "rs"} /\ syntax \in Options
  BY DEF LineInBody, RefuseControl, Ordinary, ReaderInv
<1>2. LineBody \subseteq LineTerminators /\ (LineBody # {} => multiLine)
  BY <1>1 DEF LineBody, LineTerminators
<1>3. /\ LineTerminators \cap (Quotes \cup {"\\", "end"}) = {}
      /\ Controls \cap (Quotes \cup {"\\", "end"}) = {}
      /\ LineTerminators \ {"LS"} \subseteq Controls /\ "LS" \notin Controls
      /\ "unprintable" \in Errors
  BY DEF LineTerminators, Controls, Quotes, Errors
<1>4. quote \in Quotes /\ quote = src[1] /\ (multiLine <=> quote = "BQ")
  BY <1>1, ReadingFacts DEF quote, multiLine, IsSource
<1>5. c \notin {quote, "\\", "end"}
  <2>1. CASE LineInBody
    BY <1>2, <1>3, <1>4, <2>1 DEF LineInBody
  <2>2. CASE RefuseControl
    <3>1. c \in LineTerminators \cup Controls
      BY <2>2 DEF RefuseControl, Unprintable
    <3>. QED
      BY <1>3, <1>4, <3>1
  <2>3. CASE Ordinary
    BY <2>3 DEF Ordinary
  <2>. QED
    BY <2>1, <2>2, <2>3
<1>6. at \in 2 .. Len(src) /\ c = src[at]
  BY <1>1, <1>5, ReadingFacts
<1>7. legal <=> ~Unprintable
  <2>1. legal <=> (c \in Controls => IF c \in LineTerminators THEN multiLine
                                                              ELSE syntax.allowControl)
    BY <1>4, <1>5, <1>6, LegalPlain
  <2>. QED
    BY <1>3, <2>1 DEF Unprintable
<1>8. Width(src, at, syntax) = 1
  BY <1>5, <1>6 DEF Width
<1>. QED
  BY <1>1, <1>2, <1>5, <1>6, <1>7, <1>8

(* So does a turn that reads a plain character.                            *)
LEMMA PlainIsSound ==
  ASSUME ReaderInv, LineInBody \/ RefuseControl \/ Ordinary
  PROVE  ReaderInv'
<1>1. /\ Reading /\ c # quote /\ c # "end"
      /\ IsLegal(src, at, syntax) <=> ~Unprintable
      /\ LineBody \subseteq LineTerminators /\ (LineBody # {} => multiLine)
      /\ Width(src, at, syntax) = 1
  BY PlainFacts
<1>2. CASE LineInBody \/ Ordinary
  <2>1. ~Unprintable
    BY <1>1, <1>2 DEF LineInBody, Ordinary, Unprintable
  <2>2. at' = at + 1 /\ UNCHANGED <<input, outcome>>
    BY <1>2 DEF LineInBody, Ordinary, Along
  <2>. QED
    BY <1>1, <2>1, <2>2, LegalTaken
<1>3. CASE RefuseControl
  <2>1. Unprintable /\ outcome' = "unprintable" /\ UNCHANGED input
    BY <1>3 DEF RefuseControl, Bad
  <2>2. "unprintable" \in Errors
    BY DEF Errors
  <2>. QED
    BY <1>1, <2>1, <2>2, IllegalBlamed
<1>. QED
  BY <1>2, <1>3

(* A source that ends first has no closing quote, or ends in half an       *)
(* escape.                                                                 *)
LEMMA UnterminatedIsSound ==
  ASSUME ReaderInv, Unterminated
  PROVE  ReaderInv'
<1>1. Reading /\ outcome' = "unterminated_string" /\ UNCHANGED input
  BY DEF Unterminated
<1>2. "unterminated_string" \in Errors
  BY DEF Errors
<1>3. CASE c = "end"
  <2>1. InStep /\ Ahead = {}
    BY <1>1, <1>3, ReadingFacts
  <2>2. Closing(src, syntax) = {}
    BY <2>1 DEF Closing, InStep
  <2>3. ~IsLiteral(src, syntax)
    BY <2>2 DEF IsLiteral
  <2>. QED
    BY <1>1, <2>3 DEF ReaderInv, ReadsExactlyTheLiterals, ClosesAtTheClosingQuote, input
<1>4. CASE c # "end"
  <2>1. c = "\\" /\ n = "end"
    BY <1>4 DEF Unterminated
  <2>2. ~IsLegal(src, at, syntax)
    BY <1>1, <2>1, EscapeFacts
  <2>. QED
    BY <1>1, <1>2, <1>4, <2>2, IllegalBlamed
<1>. QED
  BY <1>3, <1>4

(* Where the reader closes the token all elements are behind it, and       *)
(* legal.                                                                  *)
LEMMA CloseIsSound ==
  ASSUME ReaderInv, Close
  PROVE  ReaderInv'
<1>1. Reading /\ c = quote /\ outcome' = "token" /\ at' = at + 1 /\ UNCHANGED input
  BY DEF Close
<1>2. /\ IsSource(src) /\ InStep /\ Ahead = {at}
      /\ c # "end" => at \in 2 .. Len(src) /\ c = src[at]
  BY <1>1, ReadingFacts
<1>3. quote = src[1] /\ quote \notin Controls \cup {"\\", "end"}
  BY <1>2, SourceFacts DEF quote, IsSource, Quotes
<1>4. at \in 2 .. Len(src) /\ src[at] = src[1]
  BY <1>1, <1>2, <1>3
<1>5. IsLegal(src, at, syntax)
  BY <1>3, <1>4, LegalPlain
<1>6. IsLiteral(src, syntax) /\ at \in Closing(src, syntax)
  BY <1>2, <1>4, <1>5 DEF IsLiteral, Closing, InStep
<1>7. (at + 1) - 1 = at
  BY <1>4
<1>. QED
  BY <1>1, <1>6, <1>7
     DEF ReaderInv, ReadsExactlyTheLiterals, ClosesAtTheClosingQuote, input, Errors

-------------------------------------------------------------------------------
(* At every turn of readContinuedString the elements behind the cursor are *)
(* whole and legal, the next one starts at the cursor, and the scan found  *)
(* nothing forbidden ahead: the scan, the loop and the literal are in      *)
(* step.                                                                   *)
LEMMA ReaderStep ==
  ASSUME ReaderInv, [Next]_vars
  PROVE  ReaderInv'
<1>1. CASE UNCHANGED vars
  BY <1>1 DEF ReaderInv, InStep, Ahead, ReadsExactlyTheLiterals, ClosesAtTheClosingQuote,
              vars, input
<1>. QED
  BY <1>1, CheckIsSound, EscapeIsSound, PlainIsSound, UnterminatedIsSound, CloseIsSound
     DEF Next, ReadContinuedString

(* So what has been read is in step with the source and with the scan.     *)
THEOREM ReaderInvariant == Spec => []ReaderInv
BY InitIsSound, ReaderStep, PTL DEF Spec

(* readContinuedString makes a token of a string, whatever its length, the *)
(* port and the options, exactly when ES5.1 calls it a literal.            *)
THEOREM TokensAreTheLiterals == Spec => []ReadsExactlyTheLiterals
BY ReaderInvariant, PTL DEF ReaderInv

(* The loop closes the token at the quote the literal is cut at.           *)
THEOREM ClosedAtTheQuote == Spec => []ClosesAtTheClosingQuote
BY ReaderInvariant, PTL DEF ReaderInv

-------------------------------------------------------------------------------
(* The position: the rows and columns of the source, and those the reader  *)
(* counts.                                                                 *)

(* The elements from a place on start there or later.                      *)
LEMMA StartsLieAhead ==
  ASSUME NEW s, NEW o, Len(s) \in Nat
  PROVE  \A i \in 2 .. Len(s) + 6 : StartsFrom(s, o)[i] \subseteq i .. Len(s)
<1> DEFINE last == Len(s) + 6
           good == {i \in 2 .. last : StartsFrom(s, o)[i] \subseteq i .. Len(s)}
<1>1. 2 \in Int /\ last \in Int
  OBVIOUS
<1>2. ASSUME NEW i \in 2 .. last, \A j \in i + 1 .. last : j \in good
      PROVE  i \in good
  <2> DEFINE k == i + Width(s, i, o)
  <2>1. StartsFrom(s, o)[i] = IF i > Len(s) THEN {}
                              ELSE IF s[i] = s[1] THEN {i}
                              ELSE {i} \cup StartsFrom(s, o)[k]
    <3>1. \A j \in 2 .. Len(s) + 6 :
             StartsFrom(s, o)[j] = IF j > Len(s) THEN {}
                                   ELSE IF s[j] = s[1] THEN {j}
                                   ELSE {j} \cup StartsFrom(s, o)[j + Width(s, j, o)]
      BY ONLY Len(s) \in Nat, StartsUnfold
    <3>2. i \in 2 .. Len(s) + 6
      OBVIOUS
    <3>. QED
      BY ONLY <3>1, <3>2
  <2>2. i <= Len(s) => k \in i + 1 .. last
    BY WidthIs
  <2>3. i <= Len(s) => StartsFrom(s, o)[k] \subseteq k .. Len(s)
    BY <1>2, <2>2
  <2>4. i <= Len(s) => i \in i .. Len(s) /\ k .. Len(s) \subseteq i .. Len(s)
    BY <2>2
  <2> HIDE DEF k
  <2>. QED
    BY <2>1, <2>3, <2>4
<1> HIDE DEF good, last
<1>3. \A i \in 2 .. last : (\A j \in i + 1 .. last : j \in good) => i \in good
  BY <1>2
<1>4. \A i \in 2 .. last : i \in good
  BY ONLY <1>1, <1>3, FromTheEnd, Zenon
<1>. QED
  BY <1>4 DEF good, last

Wide(i) == Width(src, i, syntax)

(* The elements that lie before p, whole.                                  *)
Complete(p) == {i \in Starts(src, syntax) : i + Wide(i) <= p}

WholeBehind == \A i \in Starts(src, syntax) \ Ahead : i + Wide(i) <= at

(* The row and column kept are the source's, but for what the port counts  *)
(* otherwise.                                                              *)
Counted ==
  ~MissesRow =>
    /\ row = SourceRow(src, at)
    /\ ~RestartsAtCR => col = SourceCol(src, at)

PositionInv ==
  /\ outcome = "check" => at = 1 /\ row = 1 /\ col = 1
  /\ outcome = "reading" => WholeBehind /\ (port # "rs" => Counted)
  /\ PositionIsTheSources

(* The starts of the elements are places of the source.                    *)
LEMMA StartsAreNumbers ==
  ASSUME IsSource(src)
  PROVE  \A i \in Starts(src, syntax) : i \in 2 .. Len(src) /\ Wide(i) \in 1 .. 6
<1>1. Len(src) \in Nat
  BY SourceFacts
<1>2. 2 \in 2 .. Len(src) + 6
  BY <1>1
<1>3. Starts(src, syntax) \subseteq 2 .. Len(src)
  BY <1>1, <1>2, StartsLieAhead DEF Starts
<1>. QED
  BY <1>3, WidthIs DEF Wide

(* The greatest of a set of numbers is its Max.                            *)
LEMMA GreatestIsMax ==
  ASSUME NEW T \in SUBSET Int, NEW x \in T, \A y \in T : y <= x
  PROVE  Max(T) = x
<1>1. \E m \in T : \A y \in T : m >= y
  OBVIOUS
<1> DEFINE m == Max(T)
<1>2. m \in T /\ \A y \in T : m >= y
  BY <1>1 DEF Max
<1> HIDE DEF m
<1>3. m \in Int /\ x \in Int /\ m >= x /\ x >= m
  BY <1>2
<1>. QED
  BY ONLY <1>3 DEF m

(* The last of the rows that ended before p, or none, is a place before p. *)
LEMMA LastRow ==
  ASSUME NEW s, NEW p \in Nat, p >= 1
  PROVE  Max(RowsEnded(s, p) \cup {0}) \in 0 .. (p - 1)
<1> DEFINE T == RowsEnded(s, p) \cup {0}
           after == {p - 1 - x : x \in T}
<1>1. T \subseteq 0 .. (p - 1) /\ 0 \in T
  BY DEF RowsEnded
<1> HIDE DEF T
<1>2. after \in SUBSET Nat /\ after # {}
  BY <1>1
<1>3. PICK y \in after : \A z \in after : y <= z
  BY <1>2, LeastNumber
<1>4. PICK x \in T : y = p - 1 - x
  BY <1>3
<1>5. \A z \in T : p - 1 - x <= p - 1 - z
  BY <1>3, <1>4
<1>6. \A z \in T : z <= x
  BY <1>1, <1>5
<1>7. T \in SUBSET Int
  BY <1>1
<1>8. Max(T) = x
  BY <1>6, <1>7, GreatestIsMax
<1>. QED
  BY <1>1, <1>8 DEF T

(* Past w characters that end no row, the row is the same and the column   *)
(* counted on.                                                             *)
LEMMA RowGoesOn ==
  ASSUME NEW s, NEW p \in Nat, p >= 1, NEW w \in Nat,
         \A j \in p .. (p + w) - 1 : s[j] \notin RowChars
  PROVE  /\ RowsEnded(s, p + w) = RowsEnded(s, p)
         /\ SourceRow(s, p + w) = SourceRow(s, p)
         /\ SourceCol(s, p + w) = SourceCol(s, p) + w
<1>1. RowsEnded(s, p + w) = RowsEnded(s, p)
  <2>1. \A j \in 1 .. (p + w) - 1 : j \in 1 .. p - 1 \/ j \in p .. (p + w) - 1
    OBVIOUS
  <2>2. \A j \in 1 .. p - 1 : j \in 1 .. (p + w) - 1
    OBVIOUS
  <2>. QED
    BY <2>1, <2>2 DEF RowsEnded
<1> DEFINE last == Max(RowsEnded(s, p) \cup {0})
<1>2. last \in Int
  BY LastRow
<1>3. SourceCol(s, p + w) = (p + w) - last /\ SourceCol(s, p) = p - last
  BY <1>1 DEF SourceCol
<1> HIDE DEF last
<1>. QED
  BY <1>1, <1>2, <1>3 DEF SourceRow

(* Past w characters of which the last one alone ends a row, a row begins. *)
LEMMA RowBegins ==
  ASSUME NEW s, NEW p \in Nat, p >= 1, NEW w \in Nat, w >= 1,
         \A j \in p .. (p + w) - 1 : s[j] \in RowChars <=> j = (p + w) - 1
  PROVE  /\ SourceRow(s, p + w) = SourceRow(s, p) + 1
         /\ SourceCol(s, p + w) = 1
<1> DEFINE q == p + w
           l == (p + w) - 1
           old == RowsEnded(s, p)
<1>1. q \in Nat /\ l \in Nat /\ l = q - 1 /\ p <= l /\ l >= 1 /\ q - l = 1
  OBVIOUS
<1>2. \A j \in p .. l : s[j] \in RowChars <=> j = l
  OBVIOUS
<1> HIDE DEF q, l
<1>3. RowsEnded(s, q) = old \cup {l}
  <2>1. \A j \in 1 .. q - 1 : j \in 1 .. p - 1 \/ j \in p .. l
    BY <1>1
  <2>2. \A j \in 1 .. p - 1 : j \in 1 .. q - 1
    BY <1>1
  <2>3. l \in 1 .. q - 1 /\ l \in p .. l
    BY <1>1
  <2>. QED
    BY <1>2, <2>1, <2>2, <2>3 DEF RowsEnded
<1>4. IsFiniteSet(old) /\ l \notin old
  <2>1. IsFiniteSet(1 .. p - 1)
    BY FS_Interval
  <2>2. old \subseteq 1 .. p - 1 /\ l \notin 1 .. p - 1
    BY <1>1 DEF RowsEnded
  <2>. QED
    BY <2>1, <2>2, FS_Subset
<1>5. Cardinality(old \cup {l}) = Cardinality(old) + 1 /\ Cardinality(old) \in Nat
  BY <1>4, FS_AddElement, FS_CardinalityType
<1>6. Max((old \cup {l}) \cup {0}) = l
  <2>1. (old \cup {l}) \cup {0} \in SUBSET Int
    BY <1>1 DEF RowsEnded
  <2>2. l \in (old \cup {l}) \cup {0} /\ \A y \in (old \cup {l}) \cup {0} : y <= l
    BY <1>1 DEF RowsEnded
  <2> HIDE DEF old
  <2>. QED
    BY <2>1, <2>2, GreatestIsMax
<1> HIDE DEF old
<1>7. SourceCol(s, q) = q - l
  BY <1>3, <1>6 DEF SourceCol
<1>8. SourceRow(s, q) = 1 + (Cardinality(old) + 1) /\ SourceRow(s, p) = 1 + Cardinality(old)
  BY <1>3, <1>5 DEF SourceRow, old
<1>. QED
  BY <1>1, <1>5, <1>7, <1>8 DEF q

(* The first row begins with the source.                                   *)
LEMMA FirstRow ==
  ASSUME NEW s
  PROVE  RowsEnded(s, 1) = {} /\ SourceRow(s, 1) = 1 /\ SourceCol(s, 1) = 1
<1>1. RowsEnded(s, 1) = {}
  BY DEF RowsEnded
<1>2. Cardinality({}) = 0
  BY FS_EmptySet
<1>3. Max({0}) = 0
  BY GreatestIsMax
<1>. QED
  BY <1>1, <1>2, <1>3 DEF SourceRow, SourceCol

(* A legal element read is one more that is complete.                      *)
LEMMA CompleteGrows ==
  ASSUME ReaderInv, Reading, WholeBehind, c # "end", c # quote, IsLegal(src, at, syntax)
  PROVE  /\ Complete(at + Wide(at)) = Complete(at) \cup {at}
         /\ at \notin Complete(at)
         /\ Complete(at) = Starts(src, syntax) \ Ahead
         /\ Complete(at + Wide(at)) =
              Starts(src, syntax) \ StartsFrom(src, syntax)[at + Wide(at)]
<1> DEFINE k == at + Wide(at)
           ahead == StartsFrom(src, syntax)[k]
<1>1. /\ IsSource(src) /\ syntax \in Options /\ InStep
      /\ at \in 2 .. Len(src) /\ c = src[at] /\ Len(src) \in Nat
      /\ Ahead = {at} \cup ahead
  BY ReadingFacts DEF Wide
<1>2. k \in at + 1 .. Len(src) + 1
  BY <1>1, LegalIsPassedOver DEF quote, Wide
<1>3. ahead \subseteq k .. Len(src)
  BY <1>1, <1>2, StartsLieAhead
<1>4. \A i \in Starts(src, syntax) : i \in 2 .. Len(src) /\ Wide(i) \in 1 .. 6
  BY <1>1, StartsAreNumbers
<1>5. /\ Ahead \subseteq Starts(src, syntax)
      /\ \A i \in Starts(src, syntax) \ Ahead : i + Wide(i) <= at
  BY <1>1 DEF InStep, WholeBehind
<1>6. k = at + Wide(at) /\ at \in Int /\ at \in Starts(src, syntax)
  BY <1>1, <1>5
<1> HIDE DEF k, ahead
<1>7. ASSUME NEW i \in Starts(src, syntax)
      PROVE  /\ i \in Complete(at) <=> i \notin Ahead
             /\ i \in Complete(k) <=> i \notin ahead
  <2>1. i \in 2 .. Len(src) /\ Wide(i) \in 1 .. 6
    BY <1>4
  <2>2. i \in ahead => i \in k .. Len(src)
    BY <1>3
  <2>3. CASE i \in ahead
    BY <1>1, <1>2, <2>1, <2>2, <2>3 DEF Complete
  <2>4. CASE i = at
    BY <1>1, <1>2, <1>6, <2>1, <2>2, <2>4 DEF Complete
  <2>5. CASE i \notin Ahead
    <3>1. i + Wide(i) <= at
      BY <1>5, <2>5
    <3>. QED
      BY <1>1, <1>2, <2>1, <2>5, <3>1 DEF Complete
  <2>. QED
    BY <1>1, <2>3, <2>4, <2>5
<1>8. at \notin ahead
  BY <1>1, <1>2, <1>3
<1>9. Complete(at) = Starts(src, syntax) \ Ahead
  BY <1>7 DEF Complete
<1>10. Complete(k) = Starts(src, syntax) \ ahead
  BY <1>7 DEF Complete
<1>. QED
  BY <1>1, <1>6, <1>8, <1>9, <1>10 DEF k, ahead

(* The element the reader is at ends a row.                                *)
EndsRow == src[(at + Wide(at)) - 1] \in RowChars

(* Of the characters of a legal element only the last can end a row; an    *)
(* escape ends one when it is a continuation and its terminator does.      *)
LEMMA RowCharsOfAnElement ==
  ASSUME ReaderInv, Reading, c # "end", c # quote, IsLegal(src, at, syntax)
  PROVE  /\ \A j \in at .. (at + Wide(at)) - 1 :
               src[j] \in RowChars <=> EndsRow /\ j = (at + Wide(at)) - 1
         /\ c # "\\" => Wide(at) = 1 /\ (EndsRow <=> c \in RowChars)
         /\ c = "\\" => (EndsRow <=> /\ n \in LineTerminators
                                     /\ \/ n = "CR" /\ At(src, at + 2) = "LF"
                                        \/ n \in RowChars)
<1>1. IsSource(src) /\ at \in 2 .. Len(src) /\ c = src[at] /\ syntax \in Options
  BY ReadingFacts
<1>2. /\ RowChars \subseteq LineTerminators /\ "\\" \notin RowChars /\ "CR" \notin RowChars
      /\ "LF" \in RowChars /\ "CR" \in LineTerminators
      /\ {"u", "x"} \cap LineTerminators = {}
      /\ HexDigits \cap LineTerminators = {}
  BY DEF RowChars, LineTerminators, HexDigits, Digits
<1>3. CASE c # "\\"
  <2>1. Wide(at) = 1
    BY <1>1, <1>3 DEF Wide, Width
  <2>2. (at + 1) - 1 = at /\ \A j \in at .. at : j = at
    BY <1>1
  <2>. QED
    BY <1>1, <1>3, <2>1, <2>2 DEF EndsRow
<1>4. CASE c = "\\"
  <2> DEFINE m == At(src, at + 1)
             w == Wide(at)
  <2>1. /\ m # "end"
        /\ m = "u" => HexRun(src, at + 2, 4) # <<>>
        /\ m = "x" /\ ~syntax.escapeStrict => HexRun(src, at + 2, 2) # <<>>
    BY <1>1, <1>4, LegalEscape
  <2>2. src[at + 1] = m
    BY <1>1, <2>1, SourceFacts
  <2>3. w = Width(src, at, syntax)
    BY DEF Wide
  <2>4. EndsRow <=> src[(at + w) - 1] \in RowChars
    BY DEF EndsRow
  <2>5. n = m
    BY DEF n
  <2> HIDE DEF m, w
  <2>6. CASE m = "CR" /\ At(src, at + 2) = "LF"
    <3>1. w = 3
      BY <1>1, <1>4, <2>3, <2>6 DEF Width, m
    <3>2. src[at + 2] = "LF"
      BY <1>1, <2>6, SourceFacts
    <3>3. \A j \in at .. (at + 3) - 1 : j \in {at, at + 1, at + 2}
      BY <1>1
    <3>4. (at + 3) - 1 = at + 2 /\ at # at + 2 /\ at + 1 # at + 2
      BY <1>1
    <3>. QED
      BY <1>1, <1>2, <1>4, <2>2, <2>4, <2>5, <2>6, <3>1, <3>2, <3>3, <3>4 DEF w
  <2>7. CASE m = "u" \/ (m = "x" /\ ~syntax.escapeStrict)
    <3>1. w = IF m = "u" THEN 6 ELSE 4
      BY <1>1, <1>4, <2>3, <2>7 DEF Width, m
    <3>2. \A j \in at + 2 .. (at + w) - 1 : src[j] \in HexDigits
      BY <1>1, <2>1, <2>7, <3>1, HexRunStands
    <3>3. \A j \in at .. (at + w) - 1 : j \in {at, at + 1} \/ j \in at + 2 .. (at + w) - 1
      BY <1>1, <3>1
    <3>4. \A j \in at .. (at + w) - 1 : src[j] \notin RowChars
      BY <1>1, <1>2, <1>4, <2>2, <2>7, <3>2, <3>3
    <3>5. (at + w) - 1 \in at .. (at + w) - 1
      BY <1>1, <3>1
    <3>. QED
      BY <1>2, <1>4, <2>4, <2>5, <2>7, <3>4, <3>5 DEF w
  <2>8. CASE /\ ~(m = "CR" /\ At(src, at + 2) = "LF")
             /\ m # "u" /\ ~(m = "x" /\ ~syntax.escapeStrict)
    <3>1. w = 2
      BY <1>1, <1>4, <2>3, <2>8 DEF Width, m
    <3>2. \A j \in at .. (at + 2) - 1 : j = at \/ j = at + 1
      BY <1>1
    <3>3. (at + 2) - 1 = at + 1 /\ at # at + 1
      BY <1>1
    <3>. QED
      BY <1>1, <1>2, <1>4, <2>2, <2>4, <2>5, <2>8, <3>1, <3>2, <3>3 DEF w
  <2>. QED
    BY <2>6, <2>7, <2>8
<1>. QED
  BY <1>3, <1>4

(* A step on through the same source leaves no raw terminator unpassed     *)
(* that was passed.                                                        *)
LEMMA PassedStays ==
  ASSUME IsSource(src), UNCHANGED input, at \in Int, at' \in Int, at <= at'
  PROVE  /\ MissesRow => MissesRow'
         /\ RowsEnded(src, at') = RowsEnded(src, at) /\ RestartsAtCR => RestartsAtCR'
<1>1. port' = port /\ syntax' = syntax /\ src' = src /\ (multiLine' <=> multiLine)
  BY DEF input, multiLine, quote
<1>2. \A k \in Starts(src, syntax) : k < at => k < at'
  BY StartsAreNumbers
<1>. QED
  BY <1>1, <1>2 DEF MissesRow, RestartsAtCR, RawBefore

(* The reader has just passed a raw LS or PS its port counts no row of.    *)
Missed == c = "LS" /\ ~(port = "ts" /\ multiLine)

(* An element taken whole leaves the position right.                       *)
LEMMA PositionTaken ==
  ASSUME ReaderInv, PositionInv, Reading,
         c # "end", c # quote, IsLegal(src, at, syntax),
         at' = at + Wide(at), UNCHANGED <<input, outcome>>,
         port # "rs" =>
           IF EndsRow THEN Missed \/ (row' = row + 1 /\ col' = 1)
                      ELSE row' = row /\ (c = "CR" \/ col' = col + Wide(at))
  PROVE  PositionInv'
<1> DEFINE w == Wide(at)
           k == at + w
<1>1. WholeBehind /\ (port # "rs" => Counted)
  BY DEF PositionInv, Reading
<1>2. port' = port /\ syntax' = syntax /\ src' = src /\ outcome' = outcome /\ at' = k
  BY DEF input
<1>3. /\ IsSource(src) /\ at \in 2 .. Len(src) /\ c = src[at] /\ Len(src) \in Nat
      /\ at \in Starts(src, syntax) /\ w \in 1 .. 6
  BY ReadingFacts, WidthIs DEF InStep, Wide
<1>4. WholeBehind'
  <2>1. /\ Complete(k) = Starts(src, syntax) \ StartsFrom(src, syntax)[k]
        /\ \A i \in Complete(k) : i + Wide(i) <= k
    BY <1>1, CompleteGrows DEF Complete
  <2>2. Ahead' = StartsFrom(src, syntax)[k]
    BY <1>2 DEF Ahead
  <2>3. \A i : Wide(i)' = Wide(i)
    BY <1>2 DEF Wide
  <2>. QED
    BY <1>2, <2>1, <2>2, <2>3 DEF WholeBehind
<1>5. at \in Nat /\ at >= 1 /\ w \in Nat /\ w >= 1 /\ at < k /\ k \in Int
  BY <1>3
<1>6. \A j \in at .. (at + w) - 1 : src[j] \in RowChars <=> EndsRow /\ j = (at + w) - 1
  BY RowCharsOfAnElement
<1> HIDE DEF w, k
<1>7. ASSUME port # "rs" PROVE Counted'
  <2>1. SUFFICES ASSUME ~MissesRow'
                 PROVE  /\ row' = SourceRow(src, k)
                        /\ ~RestartsAtCR' => col' = SourceCol(src, k)
    BY <1>2 DEF Counted
  <2>2. /\ MissesRow => MissesRow'
        /\ RowsEnded(src, k) = RowsEnded(src, at) /\ RestartsAtCR => RestartsAtCR'
    BY <1>2, <1>3, <1>5, PassedStays
  <2>3. row = SourceRow(src, at) /\ (~RestartsAtCR => col = SourceCol(src, at))
    BY <1>1, <1>7, <2>1, <2>2 DEF Counted
  <2>4. ~Missed
    BY <1>2, <1>3, <1>5, <1>7, <2>1 DEF Missed, MissesRow, RawBefore, multiLine, quote
  <2>5. CASE EndsRow
    <3>1. row' = row + 1 /\ col' = 1
      BY <1>7, <2>4, <2>5
    <3>2. \A j \in at .. (at + w) - 1 : src[j] \in RowChars <=> j = (at + w) - 1
      BY <1>6, <2>5
    <3>3. SourceRow(src, k) = SourceRow(src, at) + 1 /\ SourceCol(src, k) = 1
      BY <1>5, <3>2, RowBegins DEF k
    <3>. QED
      BY <2>3, <3>1, <3>3
  <2>6. CASE ~EndsRow
    <3>1. row' = row /\ (c = "CR" \/ col' = col + w)
      BY <1>7, <2>6 DEF w
    <3>2. \A j \in at .. (at + w) - 1 : src[j] \notin RowChars
      BY <1>6, <2>6
    <3>3. /\ RowsEnded(src, k) = RowsEnded(src, at)
          /\ SourceRow(src, k) = SourceRow(src, at)
          /\ SourceCol(src, k) = SourceCol(src, at) + w
      BY <1>5, <3>2, RowGoesOn DEF k
    <3>4. c = "CR" => RestartsAtCR'
      <4>1. RowsEnded(src, at) \subseteq 1 .. at
        BY <1>5 DEF RowsEnded
      <4>. QED
        BY <1>2, <1>3, <1>5, <1>7, <3>3, <4>1 DEF RestartsAtCR
    <3>. QED
      BY <2>2, <2>3, <3>1, <3>3, <3>4
  <2>. QED
    BY <2>5, <2>6
<1>. QED
  BY <1>2, <1>4, <1>7 DEF PositionInv, PositionIsTheSources, Placed, Reading, Errors

(* A token or an error a character on, or where the reader stands, is      *)
(* placed right.                                                           *)
LEMMA PositionEnds ==
  ASSUME ReaderInv, PositionInv, Reading, c # "end", UNCHANGED input,
         outcome' \notin {"check", "reading"},
         NEW w \in {0, 1}, w = 1 => c \notin RowChars, at' = at + w,
         row' = IF port = "rs" THEN SourceRow(src, at + w) ELSE row,
         col' = IF port = "rs" THEN SourceCol(src, at + w) ELSE col + w
  PROVE  PositionInv'
<1>1. /\ IsSource(src) /\ at \in 2 .. Len(src) /\ c = src[at] /\ Len(src) \in Nat
  BY ReadingFacts
<1>2. port' = port /\ src' = src
  BY DEF input
<1>3. \A j \in at .. (at + w) - 1 : src[j] \notin RowChars
  <2>1. \A j \in at .. (at + w) - 1 : w = 1 /\ j = at
    BY <1>1
  <2>. QED
    BY <1>1, <2>1
<1>4. /\ RowsEnded(src, at + w) = RowsEnded(src, at)
      /\ SourceRow(src, at + w) = SourceRow(src, at)
      /\ SourceCol(src, at + w) = SourceCol(src, at) + w
  BY <1>1, <1>3, RowGoesOn
<1>5. Counted'
  <2>1. CASE port = "rs"
    BY <1>2, <2>1 DEF Counted
  <2>2. CASE port # "rs"
    <3>1. Counted /\ row' = row /\ col' = col + w
      BY <2>2 DEF PositionInv, Reading
    <3>2. at \in Int /\ at' \in Int /\ at <= at'
      BY <1>1
    <3>3. /\ MissesRow => MissesRow'
          /\ RestartsAtCR => RestartsAtCR'
      BY <1>1, <1>4, <3>2, PassedStays
    <3>. QED
      BY <1>2, <1>4, <3>1, <3>3 DEF Counted
  <2>. QED
    BY <2>1, <2>2
<1>. QED
  BY <1>5 DEF PositionInv, PositionIsTheSources, Counted

(* An error sited at the element, or one character into an escape.         *)
LEMMA BadPosition ==
  ASSUME ReaderInv, PositionInv, Reading, c # "end",
         NEW why \in Errors, NEW w \in {0, 1}, w = 1 => c = "\\", Bad(why, w)
  PROVE  PositionInv'
<1>1. "\\" \notin RowChars /\ why \notin {"check", "reading"}
  BY DEF RowChars, Errors
<1>. QED
  BY <1>1, PositionEnds DEF Bad

(* An escape read or refused leaves the position right.                    *)
LEMMA EscapePosition ==
  ASSUME ReaderInv, PositionInv,
         Continuation \/ MappedEscape \/ HexEscape \/ UnicodeEscape \/ UnknownEscape
  PROVE  PositionInv'
<1> DEFINE width == Wide(at)
           legal == IsLegal(src, at, syntax)
           crlf  == n = "CR" /\ At(src, at + 2) = "LF"
<1>1. Reading /\ c = "\\"
  BY DEF Continuation, MappedEscape, HexEscape, UnicodeEscape, UnknownEscape
<1>2. c # "end" /\ c # quote
  BY <1>1, AtAnEscape
<1>3. legal => (EndsRow <=> n \in LineTerminators /\ (crlf \/ n \in RowChars))
  BY <1>1, <1>2, RowCharsOfAnElement
<1>4. ASSUME legal, n \notin LineTerminators, Along(width), UNCHANGED <<input, outcome>>
      PROVE  PositionInv'
  <2>1. at' = at + width /\ (port # "rs" => row' = row /\ col' = col + width)
    BY <1>4 DEF Along
  <2>. QED
    BY <1>1, <1>2, <1>3, <1>4, <2>1, PositionTaken
<1>5. ASSUME NEW why \in Errors, NEW w \in {0, 1}, Bad(why, w)
      PROVE  PositionInv'
  BY <1>1, <1>2, <1>5, BadPosition
<1>6. /\ {"unexpected", "invalid_ascii", "invalid_unicode"} \subseteq Errors
      /\ LineTerminators \cap (EscapeMap \cup {"u", "x"}) = {}
  BY DEF LineTerminators, EscapeMap, Errors
<1>7. CASE Continuation
  <2>1. legal /\ width = IF crlf THEN 3 ELSE 2
    BY <1>1, <1>7, EscapeFacts DEF Continuation, Wide
  <2>2. UNCHANGED <<input, outcome>> /\ n \in LineTerminators
    BY <1>7 DEF Continuation
  <2>3. IF port # "rs" /\ (crlf \/ n \in RowChars)
        THEN at' = at + width /\ row' = row + 1 /\ col' = 1
        ELSE Along(width)
    BY <1>7, <2>1 DEF Continuation
  <2>4. at' = at + width
    BY <2>3 DEF Along
  <2>5. port # "rs" =>
          IF EndsRow THEN row' = row + 1 /\ col' = 1 ELSE row' = row /\ col' = col + width
    BY <1>3, <2>1, <2>2, <2>3 DEF Along
  <2>. QED
    BY <1>1, <1>2, <2>1, <2>2, <2>4, <2>5, PositionTaken
<1>8. CASE MappedEscape
  <2>1. n \in EscapeMap /\ n # "CR" /\ n \notin LineTerminators
    BY <1>6, <1>8 DEF MappedEscape, EscapeMap
  <2>2. legal /\ width = 2
    BY <1>1, <2>1, EscapeFacts DEF Wide
  <2>3. Along(2) /\ UNCHANGED <<input, outcome>>
    BY <1>8 DEF MappedEscape
  <2>. QED
    BY <1>4, <2>1, <2>2, <2>3
<1>9. CASE HexEscape
  <2> DEFINE digits == HexRun(src, at + 2, 2)
  <2>1. (legal <=> digits # <<>>) /\ width = 4
    BY <1>1, <1>9, EscapeFacts DEF HexEscape, Wide
  <2>2. n \notin LineTerminators
    BY <1>6, <1>9 DEF HexEscape
  <2>3. \/ digits # <<>> /\ Along(4) /\ UNCHANGED <<input, outcome>>
        \/ digits = <<>> /\ Bad("invalid_ascii", 0)
    BY <1>9 DEF HexEscape
  <2>. QED
    BY <1>4, <1>5, <1>6, <2>1, <2>2, <2>3
<1>10. CASE UnicodeEscape
  <2> DEFINE digits == HexRun(src, at + 2, 4)
  <2>1. (legal <=> digits # <<>>) /\ width = 6
    BY <1>1, <1>10, EscapeFacts DEF UnicodeEscape, Wide
  <2>2. n \notin LineTerminators
    BY <1>6, <1>10 DEF UnicodeEscape
  <2>3. \/ digits # <<>> /\ Along(6) /\ UNCHANGED <<input, outcome>>
        \/ digits = <<>> /\ Bad("invalid_unicode", 0)
    BY <1>10 DEF UnicodeEscape
  <2>. QED
    BY <1>4, <1>5, <1>6, <2>1, <2>2, <2>3
<1>11. CASE UnknownEscape
  <2>1. (legal <=> syntax.allowUnknown) /\ width = 2
    BY <1>1, <1>11, EscapeFacts DEF UnknownEscape, Wide
  <2>2. n \notin LineTerminators
    BY <1>11 DEF UnknownEscape
  <2>3. \/ syntax.allowUnknown /\ Along(2) /\ UNCHANGED <<input, outcome>>
        \/ ~syntax.allowUnknown /\ Bad("unexpected", 1)
    BY <1>11 DEF UnknownEscape
  <2>. QED
    BY <1>4, <1>5, <1>6, <2>1, <2>2, <2>3
<1>. QED
  BY <1>7, <1>8, <1>9, <1>10, <1>11

(* So does a plain character: one that is body ends a row when it is a row *)
(* character, and of the others only LS or PS is one.                      *)
LEMMA PlainPosition ==
  ASSUME ReaderInv, PositionInv, LineInBody \/ RefuseControl \/ Ordinary
  PROVE  PositionInv'
<1>1. /\ Reading /\ c \notin {quote, "\\", "end"} /\ at \in 2 .. Len(src) /\ c = src[at]
      /\ IsLegal(src, at, syntax) <=> ~Unprintable
      /\ LineBody \subseteq LineTerminators /\ (LineBody # {} => multiLine)
      /\ Wide(at) = 1
  BY PlainFacts DEF Wide
<1>2. port \in {"ts", "go", "rs"}
  BY DEF ReaderInv
<1>3. CASE LineInBody
  <2>1. ~Unprintable
    BY <1>1, <1>3 DEF LineInBody, Unprintable
  <2>2. EndsRow <=> c \in RowChars
    BY <1>1, <2>1, RowCharsOfAnElement
  <2>3. /\ at' = at + 1 /\ UNCHANGED <<input, outcome>>
        /\ row' = IF c \in RowChars THEN row + 1 ELSE row
        /\ col' = 1 /\ c \in LineBody
    BY <1>3 DEF LineInBody
  <2>4. c \notin RowChars => c = "CR"
    BY <1>1, <2>3 DEF LineTerminators, RowChars
  <2>5. IF EndsRow THEN row' = row + 1 /\ col' = 1 ELSE row' = row /\ c = "CR"
    BY <2>2, <2>3, <2>4
  <2>6. at' = at + Wide(at)
    BY <1>1, <2>3
  <2>. QED
    BY <1>1, <2>1, <2>3, <2>5, <2>6, PositionTaken
<1>4. CASE Ordinary
  <2>1. ~Unprintable
    BY <1>4 DEF Ordinary
  <2>2. EndsRow <=> c \in RowChars
    BY <1>1, <2>1, RowCharsOfAnElement
  <2>3. /\ at' = at + 1 /\ UNCHANGED <<input, outcome>>
        /\ port # "rs" => row' = row /\ col' = col + 1
        /\ c \notin LineBody
    BY <1>4 DEF Ordinary, Along
  <2>4. port # "rs" => (c \in RowChars => Missed)
    BY <1>1, <1>2, <2>1, <2>3
       DEF Missed, Unprintable, LineBody, RowChars, LineTerminators
  <2>5. port # "rs" =>
          IF EndsRow THEN Missed ELSE row' = row /\ col' = col + Wide(at)
    BY <1>1, <2>2, <2>3, <2>4
  <2>6. at' = at + Wide(at)
    BY <1>1, <2>3
  <2>. QED
    BY <1>1, <2>1, <2>3, <2>5, <2>6, PositionTaken
<1>5. CASE RefuseControl
  <2>1. Bad("unprintable", 0) /\ "unprintable" \in Errors
    BY <1>5 DEF RefuseControl, Errors
  <2>. QED
    BY <1>1, <2>1, BadPosition
<1>. QED
  BY <1>3, <1>4, <1>5

(* So does the closing quote.                                              *)
LEMMA ClosePosition ==
  ASSUME ReaderInv, PositionInv, Close
  PROVE  PositionInv'
<1>1. /\ Reading /\ c = quote /\ outcome' = "token" /\ at' = at + 1 /\ UNCHANGED input
      /\ row' = IF port = "rs" THEN SourceRow(src, at + 1) ELSE row
      /\ col' = IF port = "rs" THEN SourceCol(src, at + 1) ELSE col + 1
  BY DEF Close
<1>2. IsSource(src)
  BY <1>1, ReadingFacts
<1>3. c # "end" /\ c \notin RowChars
  BY <1>1, <1>2 DEF quote, IsSource, Quotes, RowChars
<1>4. 1 \in {0, 1} /\ outcome' \notin {"check", "reading"}
  BY <1>1
<1>. QED
  BY ONLY ReaderInv, PositionInv, <1>1, <1>3, <1>4, PositionEnds

(* The check at the opening quote leaves the reader at the start of the    *)
(* body.                                                                   *)
LEMMA CheckPosition ==
  ASSUME ReaderInv, PositionInv, FixedCheck \/ StringCheck
  PROVE  PositionInv'
<1>1. IsSource(src) /\ Len(src) \in Nat /\ src[1] \in Quotes
  BY SourceFacts DEF ReaderInv
<1>2. /\ UNCHANGED input /\ port' = port /\ syntax' = syntax /\ src' = src
      /\ at = 1 /\ row = 1 /\ col = 1
      /\ outcome' \in {"unexpected", "engine", "reading"}
  BY DEF FixedCheck, StringCheck, input, PositionInv
<1>3. CASE outcome' = "reading"
  <2>1. at' = 2 /\ row' = 1 /\ (port # "rs" => col' = 2)
    BY <1>2, <1>3 DEF FixedCheck, StringCheck
  <2>2. WholeBehind'
    BY <1>2, <2>1 DEF WholeBehind, Ahead, Starts
  <2>3. \A j \in 1 .. (1 + 1) - 1 : src[j] \notin RowChars
    <3>1. \A j \in 1 .. (1 + 1) - 1 : j = 1
      OBVIOUS
    <3>. QED
      BY <1>1, <3>1 DEF Quotes, RowChars
  <2>4. /\ SourceRow(src, 1 + 1) = SourceRow(src, 1)
        /\ SourceCol(src, 1 + 1) = SourceCol(src, 1) + 1
    BY <2>3, RowGoesOn
  <2>5. SourceRow(src, 2) = 1 /\ SourceCol(src, 2) = 2
    BY <2>4, FirstRow
  <2>6. port # "rs" => Counted'
    BY <1>2, <2>1, <2>5 DEF Counted
  <2>. QED
    BY <1>2, <1>3, <2>2, <2>6 DEF PositionInv, PositionIsTheSources, Placed, Errors
<1>4. CASE outcome' # "reading"
  <2>1. at' = 1 /\ row' = 1 /\ col' = 1
    BY <1>2, <1>4 DEF FixedCheck, StringCheck
  <2>2. row' = SourceRow(src', at') /\ col' = SourceCol(src', at')
    BY <1>2, <2>1, FirstRow
  <2>. QED
    BY <1>2, <1>4, <2>2 DEF PositionInv, PositionIsTheSources
<1>. QED
  BY <1>3, <1>4

(* At every turn of readContinuedString the row and the column TypeScript  *)
(* and Go count are the source's: every row character passed was the last  *)
(* of its element and was counted, but for a raw LS or PS, and the column  *)
(* is counted from it, but for a raw CR since.                             *)
LEMMA PositionStep ==
  ASSUME ReaderInv, PositionInv, [Next]_vars
  PROVE  PositionInv'
<1>1. CASE UNCHANGED vars
  <2>1. UNCHANGED <<at, row, col, outcome>> /\ src' = src /\ syntax' = syntax
        /\ port' = port
    BY <1>1 DEF vars, input
  <2>2. WholeBehind' <=> WholeBehind
    BY <2>1 DEF WholeBehind, Ahead, Wide
  <2>3. (MissesRow' <=> MissesRow) /\ (RestartsAtCR' <=> RestartsAtCR)
    BY <2>1 DEF MissesRow, RestartsAtCR, RawBefore, multiLine, quote
  <2>. QED
    BY <2>1, <2>2, <2>3 DEF PositionInv, PositionIsTheSources, Placed, Counted
<1>2. CASE Unterminated
  BY <1>2 DEF Unterminated, PositionInv, PositionIsTheSources, Placed, Errors
<1>. QED
  BY <1>1, <1>2, CheckPosition, EscapePosition, PlainPosition, ClosePosition
     DEF Next, ReadContinuedString

(* At the opening quote the cursor stands at the source's first place.     *)
LEMMA PositionBegins == Init => PositionInv
BY DEF Init, PositionInv, PositionIsTheSources, Placed, Errors

(* So the row and the column counted are the source's at every turn, but   *)
(* for the raw terminators a port misses.                                  *)
THEOREM PositionInvariant == Spec => [](ReaderInv /\ PositionInv)
BY PositionBegins, PositionStep, ReaderInvariant, PTL DEF Spec

(* Row and column after the token, and at every error inside the string,   *)
(* are those strings.tsv's one rule gives for the source, in every port:   *)
(* the rows unless TypeScript or Go has passed a raw LS or PS it counts    *)
(* none of, the columns unless either has passed a raw CR in this row.     *)
THEOREM PositionsAreTheSources == Spec => []PositionIsTheSources
BY PositionInvariant, PTL DEF PositionInv

-------------------------------------------------------------------------------
(* The value.  A set of places taken in order grows at its end when a      *)
(* later place joins it.                                                   *)

InOrderOf(T) == InOrder(T) \in [1 .. Cardinality(T) -> T]

(* What came before keeps its number, and the later place has the last.    *)
LEMMA InOrderGrows ==
  ASSUME NEW T \in SUBSET Int, IsFiniteSet(T), InOrderOf(T),
         NEW x \in Int, \A y \in T : y < x
  PROVE  /\ IsFiniteSet(T \cup {x}) /\ InOrderOf(T \cup {x})
         /\ Cardinality(T) \in Nat /\ Cardinality(T \cup {x}) = Cardinality(T) + 1
         /\ \A k \in 1 .. Cardinality(T) : InOrder(T \cup {x})[k] = InOrder(T)[k]
         /\ InOrder(T \cup {x})[Cardinality(T) + 1] = x
<1> DEFINE S == T \cup {x}
           m == Cardinality(T)
           Upto(R, i) == {j \in R : j <= i}
           Nth(R, k) == {i \in R : Cardinality(Upto(R, i)) = k}
<1>1. x \notin T
  OBVIOUS
<1>2. m \in Nat /\ IsFiniteSet(S) /\ Cardinality(S) = m + 1
  BY <1>1, FS_AddElement, FS_CardinalityType
<1>3. \A i \in T : Upto(S, i) = Upto(T, i) /\ Cardinality(Upto(T, i)) <= m
               /\ Cardinality(Upto(T, i)) \in Nat
  <2> SUFFICES ASSUME NEW i \in T
               PROVE  Upto(S, i) = Upto(T, i) /\ Cardinality(Upto(T, i)) <= m
                      /\ Cardinality(Upto(T, i)) \in Nat
    OBVIOUS
  <2>1. ~(x <= i)
    OBVIOUS
  <2>2. Upto(S, i) = Upto(T, i)
    BY <2>1
  <2>3. Upto(T, i) \in SUBSET T
    OBVIOUS
  <2>4. IsFiniteSet(Upto(T, i)) /\ Cardinality(Upto(T, i)) <= m
    BY <2>3, FS_Subset
  <2>. QED
    BY <2>2, <2>4, FS_CardinalityType
<1>4. Upto(S, x) = S
  <2>1. \A j \in S : j <= x
    OBVIOUS
  <2>. QED
    BY <2>1
<1> HIDE DEF Upto
<1>5. ASSUME NEW k \in 1 .. m PROVE Nth(S, k) = Nth(T, k)
  <2>1. k # m + 1
    BY <1>2
  <2>. QED
    BY <1>2, <1>3, <1>4, <2>1
<1>6. Nth(S, m + 1) = {x}
  <2>1. \A i \in T : Cardinality(Upto(S, i)) # m + 1
    BY <1>2, <1>3
  <2>. QED
    BY <1>2, <1>4, <2>1
<1> HIDE DEF Nth
<1>7. InOrder(S) = [k \in 1 .. m + 1 |-> OneOf(Nth(S, k))]
  BY <1>2 DEF InOrder, Nth, Upto
<1>8. InOrder(T) = [k \in 1 .. m |-> OneOf(Nth(T, k))]
  BY DEF InOrder, Nth, Upto
<1>9. \A k \in 1 .. m : InOrder(S)[k] = InOrder(T)[k]
  <2> SUFFICES ASSUME NEW k \in 1 .. m PROVE InOrder(S)[k] = InOrder(T)[k]
    OBVIOUS
  <2>1. k \in 1 .. m + 1
    BY <1>2
  <2>2. InOrder(S)[k] = OneOf(Nth(S, k)) /\ InOrder(T)[k] = OneOf(Nth(T, k))
    BY <1>7, <1>8, <2>1
  <2>. QED
    BY <1>5, <2>2
<1>10. OneOf({x}) = x
  BY DEF OneOf
<1>11. InOrder(S)[m + 1] = x
  <2>1. m + 1 \in 1 .. m + 1
    BY <1>2
  <2>. QED
    BY <1>6, <1>7, <1>10, <2>1
<1>12. InOrderOf(S)
  <2>1. \A k \in 1 .. m + 1 : k \in 1 .. m \/ k = m + 1
    BY <1>2
  <2>2. \A k \in 1 .. m : InOrder(T)[k] \in T
    BY DEF InOrderOf
  <2>3. \A k \in 1 .. m + 1 : InOrder(S)[k] \in S
    BY <1>9, <1>11, <2>1, <2>2
  <2>. QED
    BY <1>2, <1>7, <2>3 DEF InOrderOf
<1>. QED
  BY <1>2, <1>9, <1>11, <1>12

(* No places in order are none.                                            *)
LEMMA InOrderOfNone == InOrder({}) = <<>> /\ InOrderOf({})
<1>1. Cardinality({}) = 0
  BY FS_EmptySet
<1>2. \A k : k \notin 1 .. 0
  OBVIOUS
<1>3. InOrder({}) = [k \in 1 .. 0 |->
                       OneOf({i \in {} : Cardinality({j \in {} : j <= i}) = k})]
  BY <1>1 DEF InOrder
<1>4. InOrder({}) = <<>>
  BY <1>2, <1>3
<1>. QED
  BY <1>1, <1>2, <1>3, <1>4 DEF InOrderOf

(* A sequence with one more at its end.                                    *)
LEMMA AppendIs ==
  ASSUME NEW m \in Nat, NEW q, q = [k \in 1 .. m |-> q[k]], NEW x
  PROVE  /\ Len(q) = m
         /\ Append(q, x) = [k \in 1 .. m + 1 |-> IF k = m + 1 THEN x ELSE q[k]]
<1> DEFINE V == {q[k] : k \in 1 .. m} \cup {x}
<1>1. q \in [1 .. m -> V]
  OBVIOUS
<1>2. q \in Seq(V)
  BY <1>1, SeqDef
<1>3. Len(q) = m
  BY <1>1, <1>2, LenProperties
<1>4. x \in V
  OBVIOUS
<1> HIDE DEF V
<1>5. /\ Append(q, x) \in Seq(V) /\ Len(Append(q, x)) = m + 1
      /\ \A i \in 1 .. m : Append(q, x)[i] = q[i]
      /\ Append(q, x)[m + 1] = x
  BY <1>2, <1>3, <1>4, AppendProperties
<1>6. Append(q, x) = [k \in 1 .. m + 1 |-> Append(q, x)[k]]
  BY <1>5, LenProperties
<1>7. \A k \in 1 .. m + 1 : Append(q, x)[k] = IF k = m + 1 THEN x ELSE q[k]
  BY <1>5
<1>. QED
  BY <1>3, <1>6, <1>7

(* The units that the elements at a set of places spell.                   *)
UnitsOf(T) == LET places == InOrder(T)
              IN  [k \in DOMAIN places |-> Unit(src, places[k], syntax)]

(* One more element, later than all others, is one more unit at the end.   *)
LEMMA UnitsGrow ==
  ASSUME NEW T \in SUBSET Int, IsFiniteSet(T), InOrderOf(T),
         NEW x \in Int, \A y \in T : y < x
  PROVE  /\ Cardinality(T) \in Nat
         /\ UnitsOf(T) = [k \in 1 .. Cardinality(T) |-> UnitsOf(T)[k]]
         /\ UnitsOf(T \cup {x}) = Append(UnitsOf(T), Unit(src, x, syntax))
<1> DEFINE m == Cardinality(T)
           S == T \cup {x}
<1>1. /\ m \in Nat /\ Cardinality(S) = m + 1 /\ InOrderOf(S)
      /\ \A k \in 1 .. m : InOrder(S)[k] = InOrder(T)[k]
      /\ InOrder(S)[m + 1] = x
  BY InOrderGrows
<1>2. DOMAIN InOrder(T) = 1 .. m /\ DOMAIN InOrder(S) = 1 .. m + 1
  BY <1>1 DEF InOrderOf
<1> HIDE DEF S, m
<1>3. UnitsOf(T) = [k \in 1 .. m |-> Unit(src, InOrder(T)[k], syntax)]
  BY <1>2 DEF UnitsOf
<1>4. UnitsOf(S) = [k \in 1 .. m + 1 |-> Unit(src, InOrder(S)[k], syntax)]
  BY <1>2 DEF UnitsOf
<1>5. UnitsOf(T) = [k \in 1 .. m |-> UnitsOf(T)[k]]
  BY <1>3
<1>6. Append(UnitsOf(T), Unit(src, x, syntax)) =
        [k \in 1 .. m + 1 |-> IF k = m + 1 THEN Unit(src, x, syntax) ELSE UnitsOf(T)[k]]
  BY <1>1, <1>5, AppendIs
<1>7. \A k \in 1 .. m + 1 : k = m + 1 \/ k \in 1 .. m
  BY <1>1
<1>8. \A k \in 1 .. m + 1 : Unit(src, InOrder(S)[k], syntax) =
                             IF k = m + 1 THEN Unit(src, x, syntax) ELSE UnitsOf(T)[k]
  BY <1>1, <1>3, <1>7
<1>. QED
  BY <1>1, <1>4, <1>5, <1>6, <1>8 DEF S, m

(* The characters of units that go on after a place where no pair is cut.  *)
LEMMA CharactersGoOn ==
  ASSUME NEW us, NEW m \in Nat, us = [k \in 1 .. m |-> us[k]],
         NEW vs, NEW p \in Nat, p > m, vs = [k \in 1 .. p |-> vs[k]],
         \A k \in 1 .. m : vs[k] = us[k],
         ~(HighAt(us, m) /\ LowAt(vs, m + 1)),
         Heads(vs) = Heads(us) \cup {m + 1}, InOrderOf(Heads(us))
  PROVE  /\ InOrderOf(Heads(vs))
         /\ Characters(vs) = Append(Characters(us), CharacterAt(vs, m + 1))
<1> DEFINE T == Heads(us)
           S == Heads(vs)
           z == Cardinality(T)
           last == m + 1
<1>1. DOMAIN us = 1 .. m /\ DOMAIN vs = 1 .. p
  OBVIOUS
<1>2. \A i \in 1 .. m : CharacterAt(vs, i) = CharacterAt(us, i)
  <2> SUFFICES ASSUME NEW i \in 1 .. m PROVE CharacterAt(vs, i) = CharacterAt(us, i)
    OBVIOUS
  <2>1. /\ HighAt(vs, i) <=> HighAt(us, i)
        /\ LowAt(vs, i) <=> LowAt(us, i)
        /\ vs[i] = us[i]
    BY <1>1 DEF HighAt, LowAt
  <2>2. CASE i < m
    <3>1. i + 1 \in 1 .. m /\ i + 1 \in 1 .. p
      BY <2>2
    <3>2. (LowAt(vs, i + 1) <=> LowAt(us, i + 1)) /\ vs[i + 1] = us[i + 1]
      BY <1>1, <3>1 DEF LowAt
    <3>. QED
      BY <2>1, <3>2 DEF CharacterAt
  <2>3. CASE i = m
    <3>1. ~(HighAt(us, i) /\ LowAt(vs, i + 1))
      BY <2>3
    <3>2. ~LowAt(us, i + 1)
      BY <1>1, <2>3 DEF LowAt
    <3>. QED
      BY <2>1, <3>1, <3>2 DEF CharacterAt
  <2>. QED
    BY <2>2, <2>3
<1>3. /\ T \in SUBSET Int /\ IsFiniteSet(T) /\ last \in Int
      /\ \A y \in T : y \in 1 .. m /\ y < last
  <2>1. T \subseteq 1 .. m
    BY <1>1 DEF Heads
  <2>2. 1 \in Int /\ m \in Int
    OBVIOUS
  <2>3. IsFiniteSet(1 .. m)
    BY ONLY <2>2, FS_Interval
  <2>. QED
    BY <2>1, <2>3, FS_Subset
<1>4. S = T \cup {last} /\ InOrderOf(T)
  OBVIOUS
<1> HIDE DEF T, S, last
<1>5. /\ z \in Nat /\ Cardinality(S) = z + 1 /\ InOrderOf(S)
      /\ \A k \in 1 .. z : InOrder(S)[k] = InOrder(T)[k]
      /\ InOrder(S)[z + 1] = last
  BY <1>3, <1>4, InOrderGrows
<1>6. DOMAIN InOrder(T) = 1 .. z /\ DOMAIN InOrder(S) = 1 .. z + 1
      /\ \A k \in 1 .. z : InOrder(T)[k] \in 1 .. m
  BY <1>3, <1>4, <1>5 DEF InOrderOf
<1> HIDE DEF z
<1>7. Characters(us) = [k \in 1 .. z |-> CharacterAt(us, InOrder(T)[k])]
  BY <1>6 DEF Characters, T
<1>8. Characters(vs) = [k \in 1 .. z + 1 |-> CharacterAt(vs, InOrder(S)[k])]
  BY <1>6 DEF Characters, S
<1>9. Characters(us) = [k \in 1 .. z |-> Characters(us)[k]]
  BY <1>7
<1> DEFINE lastCharacter == CharacterAt(vs, last)
<1>10. Append(Characters(us), lastCharacter) =
        [k \in 1 .. z + 1 |-> IF k = z + 1 THEN lastCharacter ELSE Characters(us)[k]]
  BY ONLY <1>5, <1>9, AppendIs
<1>11. \A k \in 1 .. z + 1 : k = z + 1 \/ k \in 1 .. z
  BY <1>5
<1>12. \A k \in 1 .. z + 1 : CharacterAt(vs, InOrder(S)[k]) =
                              IF k = z + 1 THEN lastCharacter ELSE Characters(us)[k]
  BY <1>2, <1>5, <1>6, <1>7, <1>11
<1>. QED
  BY <1>5, <1>8, <1>10, <1>12 DEF S, last

(* No unit is both halves of a pair.                                       *)
LEMMA HalvesDiffer == \A u : ~(IsHigh(u) /\ IsLow(u))
BY DEF IsHigh, IsLow

(* One more unit is one more character, unless it is the low half of a     *)
(* pair.                                                                   *)
LEMMA CharactersGrow ==
  ASSUME NEW us, NEW m \in Nat, us = [k \in 1 .. m |-> us[k]], NEW u,
         InOrderOf(Heads(us)), ~(IsLow(u) /\ HighAt(us, m))
  PROVE  /\ InOrderOf(Heads(Append(us, u)))
         /\ Characters(Append(us, u)) =
              Append(Characters(us), IF IsHigh(u) \/ IsLow(u) THEN Replacement ELSE u)
<1> DEFINE vs == Append(us, u)
           last == m + 1
<1>1. vs = [k \in 1 .. last |-> IF k = last THEN u ELSE us[k]]
  BY AppendIs
<1>2. last \in Nat /\ last > m /\ 1 .. m \subseteq 1 .. last /\ last \in 1 .. last
      /\ last - 1 = m /\ last + 1 \notin 1 .. last /\ last = m + 1
      /\ \A k \in 1 .. last : k = last \/ k \in 1 .. m
  OBVIOUS
<1> HIDE DEF vs, last
<1>3. vs = [k \in 1 .. last |-> vs[k]]
  BY <1>1
<1>4. (\A k \in 1 .. m : vs[k] = us[k]) /\ vs[last] = u
  <2>1. \A k \in 1 .. m : k # last
    BY <1>2
  <2>. QED
    BY <1>1, <1>2, <2>1
<1>5. DOMAIN vs = 1 .. last /\ DOMAIN us = 1 .. m
  BY <1>3
<1>6. ~(HighAt(us, m) /\ LowAt(vs, last))
  BY <1>4 DEF LowAt
<1>7. Heads(vs) = Heads(us) \cup {last}
  <2>1. \A k \in 1 .. m : k \in Heads(vs) <=> k \in Heads(us)
    <3> SUFFICES ASSUME NEW k \in 1 .. m PROVE k \in Heads(vs) <=> k \in Heads(us)
      OBVIOUS
    <3>1. LowAt(vs, k) <=> LowAt(us, k)
      BY <1>2, <1>4, <1>5 DEF LowAt
    <3>2. HighAt(vs, k - 1) <=> HighAt(us, k - 1)
      <4>1. k - 1 \in 1 .. last <=> k - 1 \in 1 .. m
        BY <1>2
      <4>. QED
        BY <1>4, <1>5, <4>1 DEF HighAt
    <3>. QED
      BY <1>2, <1>5, <3>1, <3>2 DEF Heads
  <2>2. last \in Heads(vs)
    <3>1. HighAt(vs, last - 1) => HighAt(us, m)
      BY <1>2, <1>4, <1>5 DEF HighAt
    <3>. QED
      BY <1>2, <1>5, <1>6, <3>1 DEF Heads
  <2>3. Heads(us) \subseteq 1 .. m /\ Heads(vs) \subseteq 1 .. last
    BY <1>5 DEF Heads
  <2>. QED
    BY <1>2, <2>1, <2>2, <2>3
<1>8. CharacterAt(vs, last) = IF IsHigh(u) \/ IsLow(u) THEN Replacement ELSE u
  <2>1. ~LowAt(vs, last + 1)
    BY <1>2, <1>5 DEF LowAt
  <2>2. (HighAt(vs, last) <=> IsHigh(u)) /\ (LowAt(vs, last) <=> IsLow(u))
    BY <1>2, <1>4, <1>5 DEF HighAt, LowAt
  <2>. QED
    BY <1>4, <2>1, <2>2 DEF CharacterAt
<1>9. /\ InOrderOf(Heads(vs))
      /\ Characters(vs) = Append(Characters(us), CharacterAt(vs, m + 1))
  <2>1. ~(HighAt(us, m) /\ LowAt(vs, m + 1)) /\ Heads(vs) = Heads(us) \cup {m + 1}
    BY <1>2, <1>6, <1>7
  <2>. QED
    BY <1>2, <1>3, <1>4, <2>1, CharactersGoOn
<1>. QED
  BY <1>2, <1>8, <1>9 DEF vs

(* The low half after a high one makes one character of the two.           *)
LEMMA CharactersPair ==
  ASSUME NEW us, NEW m \in Nat, us = [k \in 1 .. m |-> us[k]], NEW h, NEW l,
         InOrderOf(Heads(us)), IsHigh(h), IsLow(l)
  PROVE  /\ InOrderOf(Heads(Append(Append(us, h), l)))
         /\ Characters(Append(Append(us, h), l)) = Append(Characters(us), Pair(h, l))
<1> DEFINE ws == Append(us, h)
           vs == Append(ws, l)
           one == m + 1
           two == one + 1
<1>1. ws = [k \in 1 .. one |-> IF k = one THEN h ELSE us[k]]
  BY AppendIs
<1>2. /\ one \in Nat /\ two \in Nat /\ two > m /\ one > m /\ one = m + 1 /\ two = one + 1
      /\ 1 .. m \subseteq 1 .. two /\ one \in 1 .. two /\ two \in 1 .. two /\ two - 1 = one
      /\ one # two /\ one \in 1 .. one /\ 1 .. m \subseteq 1 .. one
      /\ \A k \in 1 .. two : k = two \/ k = one \/ k \in 1 .. m
      /\ \A k \in 1 .. m : k # one /\ k # two
  OBVIOUS
<1> HIDE DEF ws, vs, one, two
<1>3. ws = [k \in 1 .. one |-> ws[k]]
  BY <1>1
<1>4. vs = [k \in 1 .. two |-> IF k = two THEN l ELSE ws[k]]
  BY <1>2, <1>3, AppendIs DEF vs
<1>5. vs = [k \in 1 .. two |-> vs[k]] /\ DOMAIN vs = 1 .. two /\ DOMAIN us = 1 .. m
  BY <1>4
<1>6. (\A k \in 1 .. m : vs[k] = us[k]) /\ vs[one] = h /\ vs[two] = l
  BY <1>1, <1>2, <1>4
<1>7. ~IsLow(h) /\ ~IsHigh(l)
  BY HalvesDiffer
<1>8. ~LowAt(vs, one) /\ HighAt(vs, one) /\ LowAt(vs, two)
  BY <1>2, <1>5, <1>6, <1>7 DEF LowAt, HighAt
<1>9. Heads(vs) = Heads(us) \cup {one}
  <2>1. \A k \in 1 .. m : k \in Heads(vs) <=> k \in Heads(us)
    <3> SUFFICES ASSUME NEW k \in 1 .. m PROVE k \in Heads(vs) <=> k \in Heads(us)
      OBVIOUS
    <3>1. LowAt(vs, k) <=> LowAt(us, k)
      BY <1>2, <1>5, <1>6 DEF LowAt
    <3>2. HighAt(vs, k - 1) <=> HighAt(us, k - 1)
      <4>1. k - 1 \in 1 .. two <=> k - 1 \in 1 .. m
        BY <1>2
      <4>. QED
        BY <1>5, <1>6, <4>1 DEF HighAt
    <3>. QED
      BY <1>2, <1>5, <3>1, <3>2 DEF Heads
  <2>2. one \in Heads(vs) /\ two \notin Heads(vs)
    BY <1>2, <1>5, <1>8 DEF Heads
  <2>3. Heads(us) \subseteq 1 .. m /\ Heads(vs) \subseteq 1 .. two
    BY <1>5 DEF Heads
  <2>. QED
    BY <1>2, <2>1, <2>2, <2>3
<1>10. CharacterAt(vs, one) = Pair(h, l)
  BY <1>2, <1>6, <1>8 DEF CharacterAt
<1>11. /\ InOrderOf(Heads(vs))
       /\ Characters(vs) = Append(Characters(us), CharacterAt(vs, m + 1))
  <2>1. ~(HighAt(us, m) /\ LowAt(vs, m + 1)) /\ Heads(vs) = Heads(us) \cup {m + 1}
    BY <1>2, <1>8, <1>9
  <2>. QED
    BY <1>2, <1>5, <1>6, <2>1, CharactersGoOn
<1>. QED
  BY <1>2, <1>10, <1>11 DEF vs, ws

(* No units are no characters.                                             *)
LEMMA CharactersOfNone == Characters(<<>>) = <<>> /\ InOrderOf(Heads(<<>>))
<1>1. Heads(<<>>) = {}
  BY DEF Heads
<1>2. \A k : k \notin DOMAIN <<>>
  OBVIOUS
<1>3. Characters(<<>>) = [k \in DOMAIN <<>> |-> CharacterAt(<<>>, <<>>[k])]
  BY <1>1, InOrderOfNone DEF Characters
<1>. QED
  BY <1>1, <1>2, <1>3, InOrderOfNone

-------------------------------------------------------------------------------
(* What the reader has said of the units read so far: in TypeScript the    *)
(* units; in the other ports their characters, all but the last where that *)
(* is a high half still held.                                              *)

Spoken == {i \in Starts(src, syntax) \ Ahead : ~IsContinuation(src, i)}

Says(us, m, said, held) ==
  /\ InOrderOf(Heads(us))
  /\ \/ held = <<>> /\ ~HighAt(us, m) /\ said = Characters(us)
     \/ /\ IsHigh(held)
        /\ \E w : /\ w = [k \in 1 .. m - 1 |-> w[k]]
                  /\ m - 1 \in Nat /\ InOrderOf(Heads(w))
                  /\ us = Append(w, held) /\ said = Characters(w)

ValueInv ==
  /\ outcome = "check" => value = <<>> /\ pending = <<>>
  /\ outcome = "reading" =>
       /\ InOrderOf(Spoken)
       /\ IF port = "ts" THEN value = UnitsOf(Spoken) /\ pending = <<>>
                         ELSE Says(UnitsOf(Spoken), Cardinality(Spoken), value, pending)
  /\ ValueIsTheLiterals

(* What was held, flushed, completes the characters.                       *)
LEMMA FlushedIs ==
  ASSUME NEW us, NEW m \in Nat, Says(us, m, value, pending)
  PROVE  Flushed = Characters(us)
<1>1. CASE pending = <<>>
  <2>1. ~IsHigh(pending)
    BY <1>1 DEF IsHigh
  <2>. QED
    BY <1>1, <2>1 DEF Says, Flushed
<1>2. CASE pending # <<>>
  <2>1. IsHigh(pending)
    BY <1>2 DEF Says
  <2>2. PICK w : /\ w = [k \in 1 .. m - 1 |-> w[k]]
                 /\ m - 1 \in Nat /\ InOrderOf(Heads(w))
                 /\ us = Append(w, pending) /\ value = Characters(w)
    BY <1>2 DEF Says
  <2>3. Characters(us) = Append(Characters(w), Replacement)
    BY <2>1, <2>2, CharactersGrow, HalvesDiffer
  <2>. QED
    BY <1>2, <2>2, <2>3 DEF Flushed
<1>. QED
  BY <1>1, <1>2

(* One more unit, and what is said is of that many.                        *)
LEMMA EmitSays ==
  ASSUME NEW us, NEW m \in Nat, us = [k \in 1 .. m |-> us[k]],
         Says(us, m, value, pending), NEW u, EmitCodeUnit(u)
  PROVE  Says(Append(us, u), m + 1, value', pending')
<1> DEFINE vs == Append(us, u)
           last == m + 1
<1>1. Flushed = Characters(us) /\ InOrderOf(Heads(us))
  BY FlushedIs DEF Says
<1>2. vs = [k \in 1 .. last |-> IF k = last THEN u ELSE us[k]]
  BY AppendIs
<1>3. last \in 1 .. last /\ last \in Nat /\ last - 1 = m
  OBVIOUS
<1> HIDE DEF vs, last
<1>4. DOMAIN vs = 1 .. last /\ vs[last] = u
  BY <1>2, <1>3
<1>5. HighAt(vs, last) <=> IsHigh(u)
  BY <1>3, <1>4 DEF HighAt
<1>6. ASSUME ~(IsLow(u) /\ HighAt(us, m))
      PROVE  /\ InOrderOf(Heads(vs))
             /\ Characters(vs) =
                  Append(Characters(us), IF IsHigh(u) \/ IsLow(u) THEN Replacement ELSE u)
  BY <1>1, <1>6, CharactersGrow DEF vs
<1>7. CASE IsHigh(u)
  <2>1. value' = Characters(us) /\ pending' = u
    BY <1>1, <1>7, HalvesDiffer DEF EmitCodeUnit
  <2>2. InOrderOf(Heads(vs))
    BY <1>6, <1>7, HalvesDiffer
  <2>3. \E w : /\ w = [k \in 1 .. last - 1 |-> w[k]]
               /\ last - 1 \in Nat /\ InOrderOf(Heads(w))
               /\ vs = Append(w, pending') /\ value' = Characters(w)
    BY <1>1, <1>3, <2>1 DEF vs
  <2>. QED
    BY <1>7, <2>1, <2>2, <2>3 DEF Says, vs, last
<1>8. CASE IsLow(u) /\ pending # <<>>
  <2>1. value' = Append(value, Pair(pending, u)) /\ pending' = <<>>
    BY <1>8, HalvesDiffer DEF EmitCodeUnit
  <2>2. PICK w : /\ w = [k \in 1 .. m - 1 |-> w[k]]
                 /\ m - 1 \in Nat /\ InOrderOf(Heads(w))
                 /\ us = Append(w, pending) /\ value = Characters(w)
    BY <1>8 DEF Says
  <2>3. IsHigh(pending)
    BY <1>8 DEF Says
  <2>4. InOrderOf(Heads(vs)) /\ Characters(vs) = Append(Characters(w), Pair(pending, u))
    <3> DEFINE j == m - 1
    <3>1. j \in Nat /\ w = [k \in 1 .. j |-> w[k]] /\ InOrderOf(Heads(w))
      BY <2>2
    <3> HIDE DEF j
    <3>2. /\ InOrderOf(Heads(Append(Append(w, pending), u)))
          /\ Characters(Append(Append(w, pending), u))
                = Append(Characters(w), Pair(pending, u))
      BY ONLY <1>8, <2>3, <3>1, CharactersPair
    <3>. QED
      BY <2>2, <3>2 DEF vs
  <2>5. ~HighAt(vs, last)
    BY <1>5, <1>8, HalvesDiffer
  <2>. QED
    BY <2>1, <2>2, <2>4, <2>5 DEF Says, vs, last
<1>9. CASE ~IsHigh(u) /\ (IsLow(u) => pending = <<>>)
  <2>1. IsLow(u) => ~HighAt(us, m) /\ value = Characters(us)
    <3>1. pending = <<>> => ~IsHigh(pending)
      BY DEF IsHigh
    <3>. QED
      BY <1>9, <3>1 DEF Says
  <2>2. /\ InOrderOf(Heads(vs))
        /\ Characters(vs) = Append(Characters(us), IF IsLow(u) THEN Replacement ELSE u)
    BY <1>6, <1>9, <2>1
  <2>3. /\ pending' = <<>>
        /\ value' = Append(Characters(us), IF IsLow(u) THEN Replacement ELSE u)
    BY <1>1, <1>9, <2>1 DEF EmitCodeUnit
  <2>4. ~HighAt(vs, last)
    BY <1>5, <1>9
  <2>. QED
    BY <2>2, <2>3, <2>4 DEF Says, vs, last
<1>. QED
  BY <1>7, <1>8, <1>9, HalvesDiffer

(* The elements spoken so far are places before the reader's.              *)
LEMMA SpokenFacts ==
  ASSUME ReaderInv, PositionInv, Reading
  PROVE  /\ Spoken \in SUBSET Int /\ IsFiniteSet(Spoken)
         /\ at \in Int /\ \A y \in Spoken : y < at
<1>1. IsSource(src) /\ Len(src) \in Nat /\ at \in 2 .. Len(src) + 6
  BY ReadingFacts
<1>2. \A i \in Starts(src, syntax) : i \in 2 .. Len(src) /\ Wide(i) \in 1 .. 6
  BY <1>1, StartsAreNumbers
<1>3. \A i \in Spoken : i \in Starts(src, syntax) /\ i + Wide(i) <= at
  BY DEF Spoken, PositionInv, WholeBehind, Reading
<1>4. Spoken \subseteq 2 .. Len(src)
  BY <1>2, <1>3
<1>5. IsFiniteSet(2 .. Len(src))
  BY <1>1, FS_Interval
<1>6. IsFiniteSet(Spoken)
  BY <1>4, <1>5, FS_Subset
<1>7. \A y \in Spoken : y < at
  BY <1>1, <1>2, <1>3
<1>. QED
  BY <1>1, <1>4, <1>6, <1>7

(* A legal element taken joins those spoken, later than all of them,       *)
(* unless it is a continuation.                                            *)
LEMMA SpokenGrows ==
  ASSUME ReaderInv, PositionInv, Reading, c # "end", c # quote, IsLegal(src, at, syntax),
         at' = at + Width(src, at, syntax), UNCHANGED input
  PROVE  Spoken' = IF IsContinuation(src, at) THEN Spoken ELSE Spoken \cup {at}
<1> DEFINE k == at + Wide(at)
<1>1. WholeBehind
  BY DEF PositionInv, Reading
<1>2. /\ Starts(src, syntax) \ StartsFrom(src, syntax)[k]
           = (Starts(src, syntax) \ Ahead) \cup {at}
  BY <1>1, CompleteGrows
<1>3. at' = k /\ src' = src /\ syntax' = syntax
  BY DEF Wide, input
<1> HIDE DEF k
<1>4. Ahead' = StartsFrom(src, syntax)[k]
  BY <1>3 DEF Ahead
<1>5. Spoken' = {i \in (Starts(src, syntax) \ Ahead) \cup {at} : ~IsContinuation(src, i)}
  BY <1>2, <1>3, <1>4 DEF Spoken
<1>. QED
  BY <1>5 DEF Spoken

(* An element that spells a unit, taken whole.                             *)
LEMMA UnitTaken ==
  ASSUME ReaderInv, PositionInv, ValueInv, Reading,
         c # "end", c # quote, IsLegal(src, at, syntax), ~IsContinuation(src, at),
         at' = at + Width(src, at, syntax), UNCHANGED <<input, outcome>>,
         Emit(Unit(src, at, syntax))
  PROVE  ValueInv'
<1> DEFINE u == Unit(src, at, syntax)
           T == Spoken
           S == T \cup {at}
           us == UnitsOf(T)
           m == Cardinality(T)
<1>1. /\ T \in SUBSET Int /\ IsFiniteSet(T) /\ at \in Int /\ \A y \in T : y < at
  BY SpokenFacts
<1>2. /\ InOrderOf(T)
      /\ IF port = "ts" THEN value = us /\ pending = <<>> ELSE Says(us, m, value, pending)
  BY DEF ValueInv, Reading
<1>3. Spoken' = S
  BY SpokenGrows
<1>4. port' = port /\ syntax' = syntax /\ src' = src /\ outcome' = "reading"
  BY DEF input, Reading
<1>5. UnitsOf(Spoken)' = UnitsOf(S)
  BY <1>3, <1>4 DEF UnitsOf
<1> HIDE DEF T
<1>6. /\ m \in Nat /\ us = [k \in 1 .. m |-> us[k]] /\ UnitsOf(S) = Append(us, u)
      /\ InOrderOf(S) /\ Cardinality(S) = m + 1
  BY <1>1, <1>2, UnitsGrow, InOrderGrows
<1>7. CASE port = "ts"
  <2>1. value' = Append(us, u) /\ pending' = <<>>
    BY <1>2, <1>7 DEF Emit
  <2>. QED
    BY <1>3, <1>4, <1>5, <1>6, <1>7, <2>1 DEF ValueInv, ValueIsTheLiterals, InOrderOf
<1>8. CASE port # "ts"
  <2>1. EmitCodeUnit(u)
    BY <1>8 DEF Emit
  <2> HIDE DEF us, m, u, S
  <2>2. Says(us, m, value, pending)
    BY <1>2, <1>8
  <2>3. Says(Append(us, u), m + 1, value', pending')
    BY ONLY <1>6, <2>1, <2>2, EmitSays
  <2>4. Says(UnitsOf(S), Cardinality(S), value', pending')
    BY <1>6, <2>3
  <2>5. InOrderOf(Spoken)'
    BY <1>3, <1>6 DEF InOrderOf
  <2>6. Says(UnitsOf(Spoken), Cardinality(Spoken), value, pending)'
    BY <1>3, <1>5, <2>4
  <2>. QED
    BY <1>4, <1>8, <2>5, <2>6 DEF ValueInv, ValueIsTheLiterals
<1>. QED
  BY <1>7, <1>8

(* A continuation says nothing and leaves a held surrogate held.           *)
LEMMA ContinuationValue ==
  ASSUME ReaderInv, PositionInv, ValueInv, Continuation
  PROVE  ValueInv'
<1>1. /\ Reading /\ c = "\\" /\ n \in LineTerminators
      /\ UNCHANGED <<input, value, pending, outcome>>
  BY DEF Continuation
<1>2. c # "end" /\ c # quote /\ src[at] = "\\"
  BY <1>1, AtAnEscape
<1>3. /\ IsLegal(src, at, syntax)
      /\ Width(src, at, syntax) = IF n = "CR" /\ At(src, at + 2) = "LF" THEN 3 ELSE 2
  BY <1>1, EscapeFacts
<1>4. IsContinuation(src, at)
  BY <1>1, <1>2 DEF IsContinuation, n
<1>5. at' = at + Width(src, at, syntax)
  BY <1>3 DEF Continuation, Along
<1>6. Spoken' = Spoken
  BY <1>1, <1>2, <1>3, <1>4, <1>5, SpokenGrows
<1>7. port' = port /\ syntax' = syntax /\ src' = src /\ outcome' = "reading"
      /\ value' = value /\ pending' = pending
  BY <1>1 DEF input, Reading
<1>8. UnitsOf(Spoken)' = UnitsOf(Spoken)
  BY <1>6, <1>7 DEF UnitsOf
<1>9. /\ InOrderOf(Spoken)
      /\ IF port = "ts" THEN value = UnitsOf(Spoken) /\ pending = <<>>
                        ELSE Says(UnitsOf(Spoken), Cardinality(Spoken), value, pending)
  BY <1>1 DEF ValueInv, Reading
<1>10. InOrderOf(Spoken)'
  BY <1>6, <1>9 DEF InOrderOf
<1>11. IF port' = "ts" THEN value' = UnitsOf(Spoken)' /\ pending' = <<>>
        ELSE Says(UnitsOf(Spoken), Cardinality(Spoken), value, pending)'
  BY <1>6, <1>7, <1>8, <1>9
<1>. QED
  BY <1>7, <1>10, <1>11 DEF ValueInv, ValueIsTheLiterals

(* An error says nothing of the value.                                     *)
LEMMA ErrorValue ==
  ASSUME outcome' \in Errors \cup {"engine"}
  PROVE  ValueInv'
BY DEF ValueInv, ValueIsTheLiterals, Errors

(* The unit an escape spells, by what follows the backslash.               *)
LEMMA EscapeUnit ==
  ASSUME src[at] = "\\", syntax \in Options
  PROVE  /\ n \in EscapeMap => Unit(src, at, syntax) = <<"escape", n>>
         /\ n = "u" => Unit(src, at, syntax) = <<"code">> \o HexRun(src, at + 2, 4)
         /\ n = "x" /\ ~syntax.escapeStrict =>
              Unit(src, at, syntax) = <<"code">> \o HexRun(src, at + 2, 2)
         /\ n \notin EscapeMap \cup {"u"} /\ (n = "x" => syntax.escapeStrict) =>
              Unit(src, at, syntax) = <<"raw", n>>
<1> DEFINE hex4 == <<"code">> \o HexRun(src, at + 2, 4)
           hex2 == <<"code">> \o HexRun(src, at + 2, 2)
<1>1. Unit(src, at, syntax) =
        CASE n = "u"                         -> hex4
          [] n = "x" /\ ~syntax.escapeStrict -> hex2
          [] n \in EscapeMap                 -> <<"escape", n>>
          [] OTHER                           -> <<"raw", n>>
  BY DEF Unit, n
<1>2. {"u", "x"} \cap EscapeMap = {} /\ syntax.escapeStrict \in BOOLEAN
  BY DEF EscapeMap, Options
<1> HIDE DEF hex4, hex2, n
<1>3. n = "u" => Unit(src, at, syntax) = hex4
  BY ONLY <1>1, <1>2
<1>4. n = "x" /\ ~syntax.escapeStrict => Unit(src, at, syntax) = hex2
  BY ONLY <1>1, <1>2
<1>5. n \in EscapeMap => Unit(src, at, syntax) = <<"escape", n>>
  BY ONLY <1>1, <1>2
<1>6. n \notin EscapeMap \cup {"u"} /\ (n = "x" => syntax.escapeStrict) =>
        Unit(src, at, syntax) = <<"raw", n>>
  BY ONLY <1>1, <1>2
<1>. QED
  BY <1>3, <1>4, <1>5, <1>6 DEF hex4, hex2

(* An escape says its unit, or is an error.                                *)
LEMMA EscapeValue ==
  ASSUME ReaderInv, PositionInv, ValueInv,
         MappedEscape \/ HexEscape \/ UnicodeEscape \/ UnknownEscape
  PROVE  ValueInv'
<1> DEFINE width == Width(src, at, syntax)
           legal == IsLegal(src, at, syntax)
           unit  == Unit(src, at, syntax)
<1>1. Reading /\ c = "\\"
  BY DEF MappedEscape, HexEscape, UnicodeEscape, UnknownEscape
<1>2. /\ c # "end" /\ c # quote /\ src[at] = "\\" /\ syntax \in Options
  BY <1>1, AtAnEscape
<1>3. LineTerminators \cap (EscapeMap \cup {"u", "x"}) = {}
  BY DEF LineTerminators, EscapeMap
<1>4. n \notin LineTerminators
  BY <1>3 DEF MappedEscape, HexEscape, UnicodeEscape, UnknownEscape
<1>5. ~IsContinuation(src, at)
  BY <1>4 DEF IsContinuation, n
<1>6. ASSUME legal, Along(width), UNCHANGED <<input, outcome>>, Emit(unit)
      PROVE  ValueInv'
  BY <1>1, <1>2, <1>5, <1>6, UnitTaken DEF Along
<1>7. ASSUME NEW why \in Errors, NEW w, Bad(why, w)
      PROVE  ValueInv'
  BY <1>7, ErrorValue DEF Bad
<1>8. {"unexpected", "invalid_ascii", "invalid_unicode"} \subseteq Errors
  BY DEF Errors
<1>9. CASE MappedEscape
  <2>1. n \in EscapeMap /\ n # "CR"
    BY <1>9 DEF MappedEscape, EscapeMap
  <2>2. legal /\ width = 2 /\ unit = <<"escape", n>>
    BY <1>1, <1>2, <2>1, EscapeFacts, EscapeUnit
  <2>3. Along(2) /\ UNCHANGED <<input, outcome>> /\ Emit(<<"escape", n>>)
    BY <1>9 DEF MappedEscape
  <2>. QED
    BY <1>6, <2>2, <2>3
<1>10. CASE HexEscape
  <2> DEFINE digits == HexRun(src, at + 2, 2)
  <2>1. (legal <=> digits # <<>>) /\ width = 4 /\ unit = <<"code">> \o digits
    BY <1>1, <1>2, <1>10, EscapeFacts, EscapeUnit DEF HexEscape
  <2>2. \/ digits # <<>> /\ Along(4) /\ UNCHANGED <<input, outcome>>
           /\ Emit(<<"code">> \o digits)
        \/ Bad("invalid_ascii", 0)
    BY <1>10 DEF HexEscape
  <2>. QED
    BY <1>6, <1>7, <1>8, <2>1, <2>2
<1>11. CASE UnicodeEscape
  <2> DEFINE digits == HexRun(src, at + 2, 4)
  <2>1. (legal <=> digits # <<>>) /\ width = 6 /\ unit = <<"code">> \o digits
    BY <1>1, <1>2, <1>11, EscapeFacts, EscapeUnit DEF UnicodeEscape
  <2>2. \/ digits # <<>> /\ Along(6) /\ UNCHANGED <<input, outcome>>
           /\ Emit(<<"code">> \o digits)
        \/ Bad("invalid_unicode", 0)
    BY <1>11 DEF UnicodeEscape
  <2>. QED
    BY <1>6, <1>7, <1>8, <2>1, <2>2
<1>12. CASE UnknownEscape
  <2>1. (legal <=> syntax.allowUnknown) /\ width = 2 /\ unit = <<"raw", n>>
    BY <1>1, <1>2, <1>12, EscapeFacts, EscapeUnit DEF UnknownEscape
  <2>2. \/ /\ syntax.allowUnknown /\ Along(2) /\ UNCHANGED <<input, outcome>>
           /\ Emit(<<"raw", n>>)
        \/ Bad("unexpected", 1)
    BY <1>12 DEF UnknownEscape
  <2>. QED
    BY <1>6, <1>7, <1>8, <2>1, <2>2
<1>. QED
  BY <1>9, <1>10, <1>11, <1>12

(* A plain character says itself, or is an error.                          *)
LEMMA PlainValue ==
  ASSUME ReaderInv, PositionInv, ValueInv, LineInBody \/ RefuseControl \/ Ordinary
  PROVE  ValueInv'
<1>1. /\ Reading /\ c \notin {quote, "\\", "end"} /\ at \in 2 .. Len(src) /\ c = src[at]
      /\ IsLegal(src, at, syntax) <=> ~Unprintable
      /\ LineBody \subseteq LineTerminators /\ (LineBody # {} => multiLine)
      /\ Width(src, at, syntax) = 1
  BY PlainFacts
<1>2. CASE LineInBody \/ Ordinary
  <2>1. ~Unprintable
    BY <1>1, <1>2 DEF LineInBody, Ordinary, Unprintable
  <2>2. at' = at + 1 /\ UNCHANGED <<input, outcome>> /\ Emit(<<"raw", c>>)
    BY <1>2 DEF LineInBody, Ordinary, Along
  <2>3. ~IsContinuation(src, at) /\ Unit(src, at, syntax) = <<"raw", c>>
    BY <1>1 DEF IsContinuation, Unit
  <2>. QED
    BY <1>1, <2>1, <2>2, <2>3, UnitTaken
<1>3. CASE RefuseControl
  BY <1>3, ErrorValue DEF RefuseControl, Bad, Errors
<1>. QED
  BY <1>2, <1>3

(* At the closing quote all is spoken, and what is still held is flushed.  *)
LEMMA CloseValue ==
  ASSUME ReaderInv, PositionInv, ValueInv, Close
  PROVE  ValueInv'
<1>1. Reading /\ c = quote /\ outcome' = "token" /\ value' = Flushed /\ UNCHANGED input
  BY DEF Close
<1>2. IsSource(src) /\ InStep /\ Ahead = {at}
  BY <1>1, ReadingFacts
<1>3. c # "end" => c = src[at]
  BY <1>1, ReadingFacts
<1>4. quote = src[1] /\ quote # "end"
  BY <1>2 DEF quote, IsSource, Quotes
<1>5. Closing(src, syntax) = Ahead
  BY <1>1, <1>2, <1>3, <1>4 DEF Closing, InStep
<1>6. Units(src, syntax) = UnitsOf(Spoken)
  BY <1>5 DEF Units, UnitsOf, Spoken
<1>7. IF port = "ts" THEN value = UnitsOf(Spoken) /\ pending = <<>>
                     ELSE Says(UnitsOf(Spoken), Cardinality(Spoken), value, pending)
  BY <1>1 DEF ValueInv, Reading
<1>8. Cardinality(Spoken) \in Nat
  BY <1>1, SpokenFacts, FS_CardinalityType
<1>9. value' = IF port = "ts" THEN Units(src, syntax) ELSE Characters(Units(src, syntax))
  <2>1. CASE port = "ts"
    BY <1>1, <1>6, <1>7, <2>1 DEF Flushed
  <2>2. CASE port # "ts"
    BY <1>1, <1>6, <1>7, <1>8, <2>2, FlushedIs
  <2>. QED
    BY <2>1, <2>2
<1>10. port' = port /\ src' = src /\ syntax' = syntax
  BY <1>1 DEF input
<1>. QED
  BY <1>1, <1>9, <1>10 DEF ValueInv, ValueIsTheLiterals

(* At the start nothing is spoken.                                         *)
LEMMA CheckValue ==
  ASSUME ReaderInv, ValueInv, FixedCheck \/ StringCheck
  PROVE  ValueInv'
<1>1. /\ outcome = "check" /\ outcome' \in {"unexpected", "engine", "reading"}
      /\ UNCHANGED <<input, value, pending>>
  BY DEF FixedCheck, StringCheck
<1>2. value = <<>> /\ pending = <<>>
  BY <1>1 DEF ValueInv
<1>3. CASE outcome' = "reading"
  <2>1. /\ at' = 2 /\ src' = src /\ syntax' = syntax /\ port' = port
        /\ value' = <<>> /\ pending' = <<>>
    BY <1>1, <1>2, <1>3 DEF FixedCheck, StringCheck, input
  <2>2. Spoken' = {}
    BY <2>1 DEF Spoken, Ahead, Starts
  <2>3. InOrderOf({}) /\ InOrder({}) = <<>> /\ Cardinality({}) = 0
    BY InOrderOfNone, FS_EmptySet
  <2>4. UnitsOf({}) = <<>>
    BY <2>3 DEF UnitsOf
  <2>5. UnitsOf(Spoken)' = <<>>
    <3>1. UnitsOf(Spoken)' = UnitsOf({})
      BY <2>1, <2>2 DEF UnitsOf
    <3>. QED
      BY <2>4, <3>1
  <2>6. Says(<<>>, 0, <<>>, <<>>)
    BY CharactersOfNone DEF Says, HighAt
  <2>7. InOrderOf(Spoken)'
    BY <2>2, <2>3 DEF InOrderOf
  <2>8. IF port' = "ts" THEN value' = UnitsOf(Spoken)' /\ pending' = <<>>
        ELSE Says(UnitsOf(Spoken), Cardinality(Spoken), value, pending)'
    BY <2>1, <2>2, <2>3, <2>5, <2>6
  <2>. QED
    BY <1>3, <2>7, <2>8 DEF ValueInv, ValueIsTheLiterals
<1>4. CASE outcome' # "reading"
  BY <1>1, <1>4, ErrorValue DEF Errors
<1>. QED
  BY <1>3, <1>4

(* At every turn of readContinuedString what the value and the held        *)
(* surrogate say is what the elements behind the cursor spell, in their    *)
(* order.                                                                  *)
LEMMA ValueStep ==
  ASSUME ReaderInv, PositionInv, ValueInv, [Next]_vars
  PROVE  ValueInv'
<1>1. CASE UNCHANGED vars
  <2>1. /\ src' = src /\ syntax' = syntax /\ port' = port /\ at' = at /\ outcome' = outcome
        /\ value' = value /\ pending' = pending
    BY <1>1 DEF vars, input
  <2>2. Spoken' = Spoken
    BY <2>1 DEF Spoken, Ahead
  <2>3. UnitsOf(Spoken)' = UnitsOf(Spoken)
    BY <2>1, <2>2 DEF UnitsOf
  <2>4. InOrderOf(Spoken)' <=> InOrderOf(Spoken)
    BY <2>2 DEF InOrderOf
  <2>. QED
    BY <2>1, <2>2, <2>3, <2>4 DEF ValueInv, ValueIsTheLiterals
<1>2. CASE Unterminated
  BY <1>2, ErrorValue DEF Unterminated, Errors
<1>. QED
  BY <1>1, <1>2, CheckValue, ContinuationValue, EscapeValue, PlainValue, CloseValue
     DEF Next, ReadContinuedString

(* At the opening quote nothing has been said.                             *)
LEMMA ValueBegins == Init => ValueInv
BY DEF Init, ValueInv, ValueIsTheLiterals

(* What has been read, where the cursor stands and what has been said.     *)
StringInv == ReaderInv /\ PositionInv /\ ValueInv

(* All three hold where the lexer hands over the string ...                *)
LEMMA StringBegins == Init => StringInv
BY InitIsSound, PositionBegins, ValueBegins DEF StringInv

(* ... and through the two checks and every turn of the loop ...           *)
LEMMA StringGoesOn ==
  ASSUME StringInv, [Next]_vars
  PROVE  StringInv'
BY ReaderStep, PositionStep, ValueStep DEF StringInv

(* ... so they hold of every string that is read.                          *)
THEOREM StringInvariant == Spec => []StringInv
BY StringBegins, StringGoesOn, PTL DEF Spec

(* The token's value is the literal's: its code units in TypeScript, their *)
(* characters in Go and Rust.                                              *)
THEOREM ValuesAreTheLiterals == Spec => []ValueIsTheLiterals
BY StringInvariant, PTL DEF StringInv, ValueInv
================================================================================
