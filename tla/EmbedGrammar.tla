---------------------------- MODULE EmbedGrammar ----------------------------
(* How ts/embed-grammar.js writes the grammar into a source file of each     *)
(* port, and what that port's compiler reads back (external).  A text is a   *)
(* sequence of lexemes: "bs" a backslash, "tick" a backtick, "qq" a double   *)
(* quote, "crlf" and "nl" line ends, "$", "{", "#", and any other, among     *)
(* them the markers "BEGIN" and "END" and the words of a declaration.        *)
EXTENDS Naturals, Sequences, SequencesExt

Ports == {"ts", "go", "rs"}

-----------------------------------------------------------------------------
\* A replace over the whole text, where by(i) stands for the lexeme at i.
Replaced(text, by(_)) == FlattenSeq([i \in DOMAIN text |-> by(i)])

Escaped(text, c) ==
    Replaced(text, LAMBDA i : IF text[i] = c THEN <<"bs", c>> ELSE <<text[i]>>)

At(text, i) == IF i \in DOMAIN text THEN text[i] ELSE "eof"

BracesEscaped(text) ==
    Replaced(text, LAMBDA i : IF text[i] = "$" /\ At(text, i + 1) = "{"
                                THEN <<"bs", "$">> ELSE <<text[i]>>)

\* A mistake in tsContent: the backslashes of the other escapes are doubled.
tsContentBackslashesLast(text) == Escaped(BracesEscaped(Escaped(text, "tick")), "bs")

tsContent(text) == BracesEscaped(Escaped(Escaped(text, "bs"), "tick"))

\* Each backtick ends a raw string, is one of its own, and opens the next.
goEscape(text) ==
    <<"tick">> \o Replaced(text, LAMBDA i :
                      IF text[i] = "tick"
                        THEN <<"tick", "+", "qq", "tick", "qq", "+", "tick">>
                        ELSE <<text[i]>>)
    \o <<"tick">>

\* r#"..."# closes at the first pair of the two.
FitsRaw(text) == ~ \E i \in 1 .. Len(text) - 1 : text[i] = "qq" /\ text[i + 1] = "#"

Declaration(port, text) ==
    CASE port = "ts" -> <<"const", "tick", "nl">> \o tsContent(text) \o <<"tick">>
      [] port = "go" -> <<"const">> \o goEscape(text) \o <<"nl">>
      [] port = "rs" -> <<"const", "r#", "qq">> \o text \o <<"qq", "#", ";">>

MarkersFound(file) == {"BEGIN", "END"} \subseteq ToSet(file)

Begin(file) == SelectInSeq(file, LAMBDA c : c = "BEGIN")
End(file) == SelectInSeq(file, LAMBDA c : c = "END")

Before(file) == SubSeq(file, 1, Begin(file) - 1)
After(file) == SubSeq(file, End(file) + 1, Len(file))

\* A mistake in embed: what follows the markers begins at END.
embedAtEnd(file, content) ==
    Before(file) \o <<"BEGIN", "nl">> \o content \o <<"nl", "END">>
                 \o SubSeq(file, End(file), Len(file))

embed(file, content) ==
    Before(file) \o <<"BEGIN", "nl">> \o content \o <<"nl", "END">> \o After(file)

-----------------------------------------------------------------------------
(* External: the constant a compiler reads between the markers, "broken"     *)
(* where it would not compile.                                               *)

Line(c) == IF c = "crlf" THEN "nl" ELSE c

Blank(text) == \A i \in DOMAIN text : text[i] = "nl"

Rest(text, i) == SubSeq(text, i, Len(text))

\* A template literal: an escape names a character, "${" is a substitution.
CompiledTs(text) ==
    LET read[i \in 1 .. Len(text) + 2] ==
            CASE At(text, i) = "tick" -> IF Blank(Rest(text, i + 1)) THEN <<>> ELSE <<"broken">>
              [] At(text, i) = "eof" -> <<"broken">>
              [] At(text, i) = "$" /\ At(text, i + 1) = "{" -> <<"broken">>
              [] At(text, i) = "bs" ->
                     <<IF At(text, i + 1) \in {"bs", "tick", "$", "{", "qq"}
                         THEN text[i + 1] ELSE "escape">> \o read[i + 2]
              [] OTHER -> <<Line(text[i])>> \o read[i + 1]
    IN  read[3]

\* A sum of raw strings, in which nothing is escaped, and of quoted backticks.
CompiledGo(text) ==
    LET read[at \in (1 .. Len(text) + 4) \X BOOLEAN] ==
            LET i == at[1]
                raw == at[2]
            IN  IF raw
                THEN CASE At(text, i) = "eof"  -> <<"broken">>
                       [] At(text, i) = "tick" -> read[<<i + 1, FALSE>>]
                       [] OTHER -> <<Line(text[i])>> \o read[<<i + 1, TRUE>>]
                ELSE IF Blank(Rest(text, i)) THEN <<>>
                ELSE CASE SubSeq(text, i, i + 1) = <<"+", "tick">> -> read[<<i + 2, TRUE>>]
                       [] SubSeq(text, i, i + 3) = <<"+", "qq", "tick", "qq">> ->
                              <<"tick">> \o read[<<i + 4, FALSE>>]
                       [] OTHER -> <<"broken">>
    IN  read[<<3, TRUE>>]

CompiledRs(text) ==
    LET read[i \in 1 .. Len(text) + 1] ==
            CASE At(text, i) = "eof" -> <<"broken">>
              [] At(text, i) = "qq" /\ At(text, i + 1) = "#" ->
                     IF At(text, i + 2) = ";" /\ Blank(Rest(text, i + 3))
                       THEN <<>> ELSE <<"broken">>
              [] OTHER -> <<Line(text[i])>> \o read[i + 1]
    IN  read[4]

\* The declaration is what stands after BEGIN's line.
Constant(port, file) ==
    LET text == SubSeq(file, Begin(file) + 2, End(file) - 1)
    IN  CASE port = "ts" -> CompiledTs(text)
          [] port = "go" -> CompiledGo(text)
          [] port = "rs" -> CompiledRs(text)

\* What the grammar says in a port: TypeScript's constant opens with a line end.
Meant(port, text) ==
    (IF port = "ts" THEN <<"nl">> ELSE <<>>) \o [i \in DOMAIN text |-> Line(text[i])]
=============================================================================
