----------------------------- MODULE StringLiteral ------------------------------
(***************************************************************************)
(* What a JSON5 string literal is and says (ES5.1 7.8.4 with JSON5's       *)
(* extensions), stated over the whole literal at once: how it is cut into  *)
(* elements, which elements are legal, and the code units they spell.      *)
(* ContinuedString is the program; this is what it is held against.        *)
(*                                                                         *)
(* A source is a sequence of characters, each named by a string: "LF",     *)
(* "CR", "LS", "BQ" (backtick) and "^A" name the characters so; PS is     *)
(* treated as LS everywhere.  "\\" is a backslash, the rest are            *)
(* themselves.  The first character is the opening quote.                  *)
(***************************************************************************)
EXTENDS Integers, Sequences, FiniteSets, FiniteSetsExt

LineTerminators == {"LF", "CR", "LS"}
RowChars        == {"LF", "LS"}
Controls        == {"LF", "CR", "^A"}
Digits          == {"0", "1", "8"}
HexDigits       == Digits \cup {"D", "E"}

(* The place of the p-th character in the source: a row begins after each  *)
(* LF, LS and PS, so after a CRLF too and never after a lone CR, inside a  *)
(* string or out (test/spec/strings.tsv:44-46), and a column is a          *)
(* character.                                                              *)
RowsEnded(s, p) == {k \in 1..(p - 1) : s[k] \in RowChars}
SourceRow(s, p) == 1 + Cardinality(RowsEnded(s, p))
SourceCol(s, p) == p - Max(RowsEnded(s, p) \cup {0})

(* The escapes the grammar's escape map names. *)
EscapeMap == {"n", "0", "'", "BQ", "\\"}

(* The character at i, or no character. *)
At(s, i) == IF i \in 1..Len(s) THEN s[i] ELSE "end"

Quotes == {"'", "\"", "BQ"}

(* A source that begins with its opening quote. *)
IsSource(s) ==
  /\ s \in Seq(STRING)
  /\ Len(s) > 0 /\ s[1] \in Quotes
  /\ \A i \in 1..Len(s) : s[i] # "end"

(* The digits of s from i on for n characters, or no digits when one of    *)
(* them is something else.                                                 *)
HexRun(s, i, n) ==
  IF \A k \in i..(i + n - 1) : At(s, k) \in HexDigits THEN SubSeq(s, i, i + n - 1) ELSE <<>>

(* A code unit is a tagged sequence of characters. *)
IsHigh(u) == Len(u) = 5 /\ u[2] = "D" /\ u[3] = "8"
IsLow(u)  == Len(u) = 5 /\ u[2] = "D" /\ u[3] = "E"
Replacement == <<"U+FFFD">>

-------------------------------------------------------------------------------
IsContinuation(s, i) == s[i] = "\\" /\ At(s, i + 1) \in LineTerminators

(* How many characters the element at i takes. *)
Width(s, i, syntax) ==
  LET n == At(s, i + 1) IN
  IF s[i] # "\\" THEN 1
  ELSE CASE n = "CR" /\ At(s, i + 2) = "LF"  -> 3
         [] n = "u"                          -> 6
         [] n = "x" /\ ~syntax.escapeStrict  -> 4
         [] OTHER                            -> 2

(* Where the elements of the literal start from each place on, the closing *)
(* quote included.                                                         *)
StartsFrom(s, syntax) ==
  LET from[i \in 2..(Len(s) + 6)] ==
        IF i > Len(s) THEN {}
        ELSE IF s[i] = s[1] THEN {i}
        ELSE {i} \cup from[i + Width(s, i, syntax)]
  IN  from

Starts(s, syntax) == StartsFrom(s, syntax)[2]

Closing(s, syntax) == {i \in Starts(s, syntax) : s[i] = s[1]}

(* \1 to \9, \0 before a digit and \u{ are no ES5.1 escapes. *)
IsForbidden(s, i) ==
  /\ s[i] = "\\"
  /\ \/ At(s, i + 1) \in Digits \ {"0"}
     \/ At(s, i + 1) = "0" /\ At(s, i + 2) \in Digits
     \/ At(s, i + 1) = "u" /\ At(s, i + 2) = "{"

IsLegal(s, i, syntax) ==
  LET n == At(s, i + 1) IN
  IF s[i] # "\\"
  THEN s[i] \in Controls =>
         IF s[i] \in LineTerminators THEN s[1] = "BQ" ELSE syntax.allowControl
  ELSE /\ ~IsForbidden(s, i)
       /\ CASE n = "end"                         -> FALSE
            [] n = "u"                           -> HexRun(s, i + 2, 4) # <<>>
            [] n = "x" /\ ~syntax.escapeStrict   -> HexRun(s, i + 2, 2) # <<>>
            [] n \in LineTerminators \cup EscapeMap -> TRUE
            [] OTHER                             -> syntax.allowUnknown

IsLiteral(s, syntax) ==
  Closing(s, syntax) # {} /\ \A i \in Starts(s, syntax) : IsLegal(s, i, syntax)

-------------------------------------------------------------------------------
(* The unit an element of a literal spells; a continuation spells none. *)
Unit(s, i, syntax) ==
  LET n == At(s, i + 1) IN
  IF s[i] # "\\" THEN <<"raw", s[i]>>
  ELSE CASE n = "u"                         -> <<"code">> \o HexRun(s, i + 2, 4)
         [] n = "x" /\ ~syntax.escapeStrict -> <<"code">> \o HexRun(s, i + 2, 2)
         [] n \in EscapeMap                -> <<"escape", n>>
         [] OTHER                          -> <<"raw", n>>

(* The members of a set of places, the first one first. *)
OneOf(R) == CHOOSE i \in R : TRUE
InOrder(T) ==
  [k \in 1..Cardinality(T) |-> OneOf({i \in T : Cardinality({j \in T : j <= i}) = k})]

Units(s, syntax) ==
  LET spoken == {i \in Starts(s, syntax) \ Closing(s, syntax) : ~IsContinuation(s, i)}
      places == InOrder(spoken)
  IN  [k \in DOMAIN places |-> Unit(s, places[k], syntax)]

(* UTF-16 read as characters: a high half directly followed by a low one   *)
(* is one character, and a half without its other is U+FFFD.               *)
HighAt(units, k) == k \in DOMAIN units /\ IsHigh(units[k])
LowAt(units, k)  == k \in DOMAIN units /\ IsLow(units[k])

Pair(high, low) == <<"pair">> \o Tail(high) \o Tail(low)

(* Where a character begins, and the one that begins there. *)
Heads(units) == {k \in DOMAIN units : ~(LowAt(units, k) /\ HighAt(units, k - 1))}

CharacterAt(units, k) ==
  IF HighAt(units, k) /\ LowAt(units, k + 1) THEN Pair(units[k], units[k + 1])
  ELSE IF HighAt(units, k) \/ LowAt(units, k) THEN Replacement ELSE units[k]

Characters(units) ==
  LET places == InOrder(Heads(units))
  IN  [k \in DOMAIN places |-> CharacterAt(units, places[k])]
===============================================================================
