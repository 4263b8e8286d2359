----------------------------- MODULE Identifier -----------------------------
(* How an unquoted object key is judged, in the three ports: the lexer's     *)
(* textCheck looks at its first character, the engine (external) makes a     *)
(* token of the run and a pair's key of the token, and the after-open action *)
(* of `pair` decodes the whole run (decodeIdentifierName) and writes the     *)
(* decoded name back into the token and the key.                             *)
EXTENDS Naturals, Sequences, SequencesExt

CONSTANTS Sources,     \* the runs of characters to judge, none of them empty
          infinity     \* the plugin's option of that name

VARIABLES port,      \* "ts", "go" or "rs"
          source,    \* the run, a sequence of characters
          pc,        \* "check", "match", "decode", "taken" or "refused"
          i,         \* decodeIdentifierName: how much of source it has read
          out,       \* decodeIdentifierName: the name so far
          tin,       \* the token's kind: "TX", "VL", or "none" before it is made
          val,       \* the token's val, while that is text
          key        \* the rule's u.key

vars == <<port, source, pc, i, out, tin, val, key>>

-----------------------------------------------------------------------------
(* Characters, by name.  What \u escapes can spell of them is what pairs of  *)
(* the hex digits 00, 30 and d8 spell.                                       *)

Letters == {"a", "d", "u", "X", "Infinity", "eacute", "scriptA", "Oslash", "katakana"}

\* ES5.1 7.6: letters, $ and _ start a name; digits, marks, ZWNJ, ZWJ go on.
idStart == Letters \cup {"$"}
idPart == idStart \cup {"0", "3", "8", "zwnj"}

hexDigits == {"0", "3", "8", "a", "d"}

\* The UTF-8 bytes of a character; "Infinity" is the word.
Bytes(c) ==
    CASE c = "Infinity" -> 8
      [] c = "eacute" -> 2
      [] c = "zwnj" -> 3
      [] c \in {"scriptA", "emoji"} -> 4
      [] OTHER -> 1

\* The UTF-16 code unit four hex digits spell; "noLetter" is one of U+0000,
\* U+3000 (a space) and U+3030 (a dash).
CodeUnit(h) ==
    CASE h[1] = "d" -> "surrogate"
      [] h = <<"0", "0", "d", "8">> -> "Oslash"
      [] h = <<"0", "0", "3", "0">> -> "0"
      [] h = <<"3", "0", "d", "8">> -> "katakana"
      [] OTHER -> "noLetter"

-----------------------------------------------------------------------------
(* The lexer's check.                                                        *)

\* cfg.value.def and cfg.value.defre, as prefixes of a run.
ValueNames ==
    IF infinity THEN {<<"Infinity">>, <<"-", "Infinity">>} ELSE {}

MatchesUppercaseHex(s) ==
    LET n == IF s[1] = "-" THEN 1 ELSE 0
    IN  /\ Len(s) >= n + 3
        /\ s[n + 1] = "0" /\ s[n + 2] = "X" /\ s[n + 3] \in hexDigits

\* A mistake in TextCheck: a character is judged by its first code unit.
TextCheckCodeUnit ==
    /\ pc = "check"
    /\ pc' = IF \/ source[1] \in (idStart \ {"scriptA"}) \cup {"\\"}
                \/ \E name \in ValueNames : IsPrefix(name, source)
                \/ MatchesUppercaseHex(source)
             THEN "match" ELSE "refused"
    /\ UNCHANGED <<port, source, i, out, tin, val, key>>

\* textCheck
TextCheck ==
    /\ pc = "check"
    /\ pc' = IF \/ source[1] \in idStart \cup {"\\"}
                \/ \E name \in ValueNames : IsPrefix(name, source)
                \/ MatchesUppercaseHex(source)
             THEN "match" ELSE "refused"
    /\ UNCHANGED <<port, source, i, out, tin, val, key>>

(* The engine (external): a run that is a value keyword, or that a value     *)
(* regex matches whole, is a #VL, any other a #TX; jsonic's @pairkey copies  *)
(* it into u.key, since the grammar's KEY set holds both.                    *)

IsUppercaseHex(s) ==
    /\ MatchesUppercaseHex(s)
    /\ LET n == IF s[1] = "-" THEN 1 ELSE 0
       IN  \A k \in n + 3 .. Len(s) : s[k] \in hexDigits

IsValue(s) == s \in ValueNames \/ IsUppercaseHex(s)

MatchText ==
    /\ pc = "match"
    /\ tin' = IF IsValue(source) THEN "VL" ELSE "TX"
    /\ val' = IF IsValue(source) THEN <<>> ELSE source
    /\ key' = source
    /\ pc' = IF IsValue(source) THEN "taken" ELSE "decode"
    /\ UNCHANGED <<port, source, i, out>>

-----------------------------------------------------------------------------
(* decodeIdentifierName                                                      *)

More == pc = "decode" /\ i < Len(source)

AtEscape == More /\ source[i + 1] = "\\"

\* How many bytes are left from each place on.
BytesFrom ==
    LET bytes[n \in 1 .. Len(source) + 1] ==
            IF n > Len(source) THEN 0 ELSE Bytes(source[n]) + bytes[n + 1]
    IN  bytes

BytesLeft == BytesFrom[i + 1]

\* Six characters \uXXXX stand at the cursor.  TypeScript's slice may be
\* short; Go and Rust first ask whether six bytes are left.
EscapeStands ==
    /\ port \in {"go", "rs"} => BytesLeft >= 6
    /\ Len(source) >= i + 6
    /\ source[i + 2] = "u"
    /\ \A k \in i + 3 .. i + 6 : source[k] \in hexDigits

Escaped == CodeUnit(SubSeq(source, i + 3, i + 6))

\* Whether c may stand where the name has got to.
Allowed(c) == IF out = <<>> THEN c \in idStart ELSE c \in idPart

DecodeEscape ==
    /\ AtEscape /\ EscapeStands
    /\ Escaped # "surrogate" /\ Allowed(Escaped)
    /\ out' = Append(out, Escaped)
    /\ i' = i + 6
    /\ UNCHANGED <<port, source, pc, tin, val, key>>

DecodeChar ==
    /\ More /\ source[i + 1] # "\\"
    /\ Allowed(source[i + 1])
    /\ out' = Append(out, source[i + 1])
    /\ i' = i + 1
    /\ UNCHANGED <<port, source, pc, tin, val, key>>

\* No name: the token becomes the parse's error.
RefuseName ==
    /\ More
    /\ IF AtEscape
         THEN EscapeStands => Escaped = "surrogate" \/ ~ Allowed(Escaped)
         ELSE ~ Allowed(source[i + 1])
    /\ pc' = "refused"
    /\ UNCHANGED <<port, source, i, out, tin, val, key>>

\* A mistake in WriteBack: the key copied by @pairkey is forgotten.
WriteBackToken ==
    /\ pc = "decode" /\ i = Len(source)
    /\ val' = out /\ key' = key
    /\ pc' = "taken"
    /\ UNCHANGED <<port, source, i, out, tin>>

\* The after-open action of pair, once the name is decoded.
WriteBack ==
    /\ pc = "decode" /\ i = Len(source)
    /\ IF out # val THEN val' = out /\ key' = out ELSE UNCHANGED <<val, key>>
    /\ pc' = "taken"
    /\ UNCHANGED <<port, source, i, out, tin>>

Init ==
    /\ port \in {"ts", "go", "rs"}
    /\ source \in Sources
    /\ pc = "check"
    /\ i = 0 /\ out = <<>>
    /\ tin = "none" /\ val = <<>> /\ key = <<>>

Next ==
    \/ TextCheck \/ MatchText
    \/ DecodeEscape \/ DecodeChar \/ RefuseName \/ WriteBack

Spec == Init /\ [][Next]_vars

-----------------------------------------------------------------------------
(* Properties                                                                *)

EscapeAt(n) ==
    /\ n + 5 <= Len(source)
    /\ source[n] = "\\" /\ source[n + 1] = "u"
    /\ \A k \in n + 2 .. n + 5 : source[k] \in hexDigits

\* The texts the source can be read as from each place, each escape one code
\* unit: ES5.1's UnicodeEscapeSequence, without a cursor.
ReadingsFrom ==
    LET from[n \in 1 .. Len(source) + 1] ==
            IF n > Len(source) THEN {<<>>}
            ELSE IF EscapeAt(n)
                 THEN {<<CodeUnit(SubSeq(source, n + 2, n + 5))>> \o t : t \in from[n + 6]}
            ELSE IF source[n] # "\\" THEN {<<source[n]>> \o t : t \in from[n + 1]}
            ELSE {}
    IN  from

Readings == ReadingsFrom[1]

IdentifierNames ==
    {t \in Readings : t[1] \in idStart /\ \A k \in 1 .. Len(t) : t[k] \in idPart}

\* A run that is no value is taken as a key exactly when it is an
\* IdentifierName: the lexer's check refuses no name that the whole run
\* would be, and no escape smuggles in what may not stand there.
NamesAndOnlyNames ==
    /\ pc = "taken" /\ tin = "TX" => IdentifierNames # {}
    /\ pc = "refused" => IdentifierNames = {}

\* The key of the pair and the value of its token are the decoded name,
\* whichever of its spellings the source uses.
KeyIsTheName ==
    pc = "taken" /\ tin = "TX" => {key} = IdentifierNames /\ val = key
=============================================================================
