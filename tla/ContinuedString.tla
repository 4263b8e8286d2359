---------------------------- MODULE ContinuedString -----------------------------
(***************************************************************************)
(* The plugin's own string reader.  A string literal that holds a          *)
(* LineContinuation is not left to the engine: fixedCheck, which runs      *)
(* ahead of every matcher, finds it at its opening quote, refuses it when  *)
(* it also holds an escape ES5.1 forbids, and otherwise reads it where it  *)
(* stands, so the position after it is the source's own.                   *)
(*                                                                         *)
(* The three ports share the loop and differ in two places: TypeScript     *)
(* keeps UTF-16 code units as they come, where Go and Rust hold a high     *)
(* surrogate back until the next unit decides it; and TypeScript and Go    *)
(* count rows and columns themselves, where Rust counts characters and     *)
(* moves the cursor with the engine's advance at the end.                  *)
(***************************************************************************)
EXTENDS StringLiteral

CONSTANTS
  Sources,     (* the sources, each beginning with its opening quote        *)
  Readers      (* [port, syntax]: a port and the string options it reads by *)

Options == [allowUnknown : BOOLEAN, escapeStrict : BOOLEAN, allowControl : BOOLEAN]

VARIABLES port, syntax, src, at, row, col, value, pending, outcome

input == <<port, syntax, src>>
vars  == <<input, at, row, col, value, pending, outcome>>

Errors == {"unexpected", "invalid_ascii", "invalid_unicode", "unprintable",
           "unterminated_string"}

quote     == src[1]
multiLine == quote = "BQ"

(* What the character at and the one after it are. *)
c == At(src, at)
n == At(src, at + 1)

-------------------------------------------------------------------------------
ForbidsLessTheZero(s, i) ==
  \/ s[i + 1] \in Digits \ {"0"}
  \/ s[i + 1] = "u" /\ At(s, i + 2) = "{"

(* The escape at i is one ES5.1 forbids. *)
Forbids(s, i) ==
  \/ s[i + 1] = "0" /\ At(s, i + 2) \in Digits
  \/ s[i + 1] \in Digits \ {"0"}
  \/ s[i + 1] = "u" /\ At(s, i + 2) = "{"

(* scanString: what the string holds from each place on.  An escape takes  *)
(* the character after it along; the walk ends at the closing quote or at  *)
(* the source's end.                                                       *)
Found(s) ==
  LET found[i \in 2..(Len(s) + 2)] ==
        IF i > Len(s) \/ At(s, i) = s[1] THEN {}
        ELSE IF s[i] # "\\" THEN found[i + 1]
        ELSE IF i = Len(s) THEN {}
        ELSE found[i + 2] \cup
             (IF Forbids(s, i) THEN {"FORBIDDEN"}
              ELSE IF s[i + 1] \in LineTerminators THEN {"CONTINUED"} ELSE {})
  IN  found

ScanString(s) == Found(s)[2]

(* fixedCheck: the string with a continuation is read here, or refused on  *)
(* its quote.                                                              *)
FixedCheck ==
  /\ outcome = "check"
  /\ "CONTINUED" \in ScanString(src)
  /\ \/ /\ "FORBIDDEN" \in ScanString(src)
        /\ outcome' = "unexpected"
        /\ UNCHANGED <<at, col>>
     \/ /\ "FORBIDDEN" \notin ScanString(src)
        /\ outcome' = "reading"
        /\ at' = 2
        /\ col' = IF port = "rs" THEN col ELSE col + 1
  /\ UNCHANGED <<input, row, value, pending>>

(* stringCheck: every other string is the engine's, unless it is refused   *)
(* on its quote.                                                           *)
StringCheck ==
  /\ outcome = "check"
  /\ "CONTINUED" \notin ScanString(src)
  /\ outcome' = IF "FORBIDDEN" \in ScanString(src) THEN "unexpected" ELSE "engine"
  /\ UNCHANGED <<input, at, row, col, value, pending>>

-------------------------------------------------------------------------------
(* flushHi: a held high surrogate that nothing paired with is U+FFFD. *)
Flushed == IF pending = <<>> THEN value ELSE Append(value, Replacement)

(* emitUnit: a high surrogate is held until the next unit decides it. *)
EmitCodeUnit(unit) ==
  \/ /\ IsHigh(unit)
     /\ value' = Flushed /\ pending' = unit
  \/ /\ IsLow(unit) /\ pending # <<>>
     /\ value' = Append(value, Pair(pending, unit))
     /\ pending' = <<>>
  \/ /\ IsLow(unit) /\ pending = <<>>
     /\ value' = Append(value, Replacement)
     /\ UNCHANGED pending
  \/ /\ ~IsHigh(unit) /\ ~IsLow(unit)
     /\ value' = Append(Flushed, unit)
     /\ pending' = <<>>

Emit(unit) ==
  IF port = "ts" THEN value' = Append(value, unit) /\ UNCHANGED pending
                 ELSE EmitCodeUnit(unit)

(* The cursor after w more characters of one row. *)
Along(w) ==
  /\ at' = at + w
  /\ col' = IF port = "rs" THEN col ELSE col + w
  /\ UNCHANGED row

(* bad: the error is sited w characters on from here.  Rust moves the      *)
(* cursor with the engine's advance, external, which counts as SourceRow   *)
(* and SourceCol do.                                                       *)
Bad(why, w) ==
  /\ outcome' = why
  /\ at' = at + w
  /\ row' = IF port = "rs" THEN SourceRow(src, at + w) ELSE row
  /\ col' = IF port = "rs" THEN SourceCol(src, at + w) ELSE col + w
  /\ UNCHANGED <<input, value, pending>>

-------------------------------------------------------------------------------
Reading == outcome = "reading"

(* The closing quote ends the string. *)
Close ==
  /\ Reading /\ c = quote
  /\ outcome' = "token"
  /\ value' = Flushed /\ pending' = <<>>
  /\ at' = at + 1
  /\ row' = IF port = "rs" THEN SourceRow(src, at + 1) ELSE row
  /\ col' = IF port = "rs" THEN SourceCol(src, at + 1) ELSE col + 1
  /\ UNCHANGED input

ContinuationFlushing ==
  LET crlf == n = "CR" /\ At(src, at + 2) = "LF"
      w    == IF crlf THEN 3 ELSE 2
  IN  /\ Reading /\ c = "\\" /\ n \in LineTerminators
      /\ IF port # "rs" /\ (crlf \/ n \in RowChars)
         THEN at' = at + w /\ row' = row + 1 /\ col' = 1
         ELSE Along(w)
      /\ value' = Flushed /\ pending' = <<>>
      /\ UNCHANGED <<input, outcome>>

ContinuationByItsFirst ==
  LET crlf == n = "CR" /\ At(src, at + 2) = "LF"
      w    == IF crlf THEN 3 ELSE 2
  IN  /\ Reading /\ c = "\\" /\ n \in LineTerminators
      /\ IF port # "rs" /\ n \in RowChars
         THEN at' = at + w /\ row' = row + 1 /\ col' = 1
         ELSE Along(w)
      /\ UNCHANGED <<input, value, pending, outcome>>

(* A continuation, CRLF counting as one, adds nothing to the value and     *)
(* ends a row when its terminator is a row character; a lone CR is two     *)
(* columns.  It is no code unit, so it leaves a held surrogate held.       *)
Continuation ==
  LET crlf == n = "CR" /\ At(src, at + 2) = "LF"
      w    == IF crlf THEN 3 ELSE 2
  IN  /\ Reading /\ c = "\\" /\ n \in LineTerminators
      /\ IF port # "rs" /\ (crlf \/ n \in RowChars)
         THEN at' = at + w /\ row' = row + 1 /\ col' = 1
         ELSE Along(w)
      /\ UNCHANGED <<input, value, pending, outcome>>

MappedEscapeAlone ==
  /\ Reading /\ c = "\\" /\ n \in EscapeMap
  /\ Emit(<<"escape", n>>)
  /\ Along(1)
  /\ UNCHANGED <<input, outcome>>

(* An escape the map names. *)
MappedEscape ==
  /\ Reading /\ c = "\\" /\ n \in EscapeMap
  /\ Emit(<<"escape", n>>)
  /\ Along(2)
  /\ UNCHANGED <<input, outcome>>

(* \x and two digits; anything else there is sited on the backslash. *)
HexEscape ==
  LET digits == HexRun(src, at + 2, 2) IN
  /\ Reading /\ c = "\\" /\ n = "x" /\ ~syntax.escapeStrict
  /\ \/ /\ digits # <<>>
        /\ Emit(<<"code">> \o digits)
        /\ Along(4)
        /\ UNCHANGED <<input, outcome>>
     \/ digits = <<>> /\ Bad("invalid_ascii", 0)

(* \u and four digits. *)
UnicodeEscape ==
  LET digits == HexRun(src, at + 2, 4) IN
  /\ Reading /\ c = "\\" /\ n = "u"
  /\ \/ /\ digits # <<>>
        /\ Emit(<<"code">> \o digits)
        /\ Along(6)
        /\ UNCHANGED <<input, outcome>>
     \/ digits = <<>> /\ Bad("invalid_unicode", 0)

(* Any other escape is its character, where the options allow it. *)
UnknownEscape ==
  /\ Reading /\ c = "\\"
  /\ n \notin LineTerminators \cup EscapeMap \cup {"u", "end"}
  /\ n = "x" => syntax.escapeStrict
  /\ \/ /\ syntax.allowUnknown
        /\ Emit(<<"raw", n>>)
        /\ Along(2)
        /\ UNCHANGED <<input, outcome>>
     \/ ~syntax.allowUnknown /\ Bad("unexpected", 1)

(* The raw terminators that are body in a multi-line string.  TypeScript's *)
(* line characters are tested whatever they are, Go's only below a space;  *)
(* in Rust they are as any character, and advance counts the rows.         *)
LineBody ==
  IF ~multiLine THEN {}
  ELSE CASE port = "ts" -> LineTerminators
         [] port = "go" -> {"CR", "LF"}
         [] port = "rs" -> {}

(* A raw terminator in a multi-line string. *)
LineInBody ==
  /\ Reading /\ c \in LineBody
  /\ Emit(<<"raw", c>>)
  /\ at' = at + 1
  /\ row' = IF c \in RowChars THEN row + 1 ELSE row
  /\ col' = 1
  /\ UNCHANGED <<input, outcome>>

(* A control character no option admits. *)
Unprintable ==
  IF c \in LineTerminators THEN c # "LS" /\ ~multiLine
                           ELSE c \in Controls /\ ~syntax.allowControl

RefuseControl ==
  Reading /\ Unprintable /\ Bad("unprintable", 0)

(* Every other character is itself. *)
Ordinary ==
  /\ Reading
  /\ c \notin {quote, "\\", "end"} \cup LineBody
  /\ ~Unprintable
  /\ Emit(<<"raw", c>>)
  /\ Along(1)
  /\ UNCHANGED <<input, outcome>>

UnterminatedAfterTheLast ==
  /\ Reading
  /\ c = "end"
  /\ outcome' = "unterminated_string"
  /\ at' = 1 /\ row' = 1 /\ col' = 1
  /\ UNCHANGED <<input, value, pending>>

(* The source ended first: sited on the opening quote. *)
Unterminated ==
  /\ Reading
  /\ c = "end" \/ (c = "\\" /\ n = "end")
  /\ outcome' = "unterminated_string"
  /\ at' = 1 /\ row' = 1 /\ col' = 1
  /\ UNCHANGED <<input, value, pending>>

-------------------------------------------------------------------------------
Init ==
  /\ \E r \in Readers : port = r.port /\ syntax = r.syntax
  /\ port \in {"ts", "go", "rs"} /\ syntax \in Options
  /\ src \in Sources /\ IsSource(src)
  /\ at = 1 /\ row = 1 /\ col = 1
  /\ value = <<>> /\ pending = <<>>
  /\ outcome = "check"

(* One turn of the reader's loop. *)
ReadContinuedString ==
  \/ Close \/ Continuation \/ MappedEscape \/ HexEscape \/ UnicodeEscape
  \/ UnknownEscape \/ LineInBody \/ RefuseControl \/ Ordinary \/ Unterminated

Next == FixedCheck \/ StringCheck \/ ReadContinuedString

Spec     == Init /\ [][Next]_vars
FairSpec == Spec /\ WF_vars(Next)

-------------------------------------------------------------------------------
(* readContinuedString gives a token for a literal with a continuation     *)
(* exactly when ES5.1 calls it one: nothing malformed slips through the    *)
(* two passes over it (the scan for forbidden escapes, then the loop),     *)
(* and nothing well-formed is refused by either.                           *)
ReadsExactlyTheLiterals ==
  /\ outcome = "token" => IsLiteral(src, syntax)
  /\ outcome \in Errors => ~IsLiteral(src, syntax)

(* The value is the literal's: its code units as they are in TypeScript,   *)
(* the characters they spell in Go and Rust, whatever continuations stand  *)
(* between the halves of a pair or the digits of an escape.                *)
ValueIsTheLiterals ==
  outcome = "token" =>
    value = IF port = "ts" THEN Units(src, syntax) ELSE Characters(Units(src, syntax))

(* The reader's loop and the scan that let it in see the same string: the  *)
(* quote the loop closes at is the one the literal is cut at, so the two   *)
(* ways of stepping over an escape never part.                             *)
ClosesAtTheClosingQuote ==
  outcome = "token" => at - 1 \in Closing(src, syntax)

(* Where what the loop reads is placed: the token's end, and an error      *)
(* inside the string (that of a string with no end is sited on its quote). *)
Placed == outcome \in {"token"} \cup (Errors \ {"unterminated_string"})

(* The raw character ch stands before the cursor. *)
RawBefore(ch) == \E k \in Starts(src, syntax) : k < at /\ src[k] = ch

(* Two raw terminators the ports that count for themselves take otherwise  *)
(* than the source: an LS or PS, of which Go counts no row, and TypeScript *)
(* none outside a multi-line string; and in a multi-line string a CR, at   *)
(* which both count columns anew, until the next row begins.               *)
MissesRow    == port # "rs" /\ RawBefore("LS") /\ ~(port = "ts" /\ multiLine)
RestartsAtCR ==
  /\ port # "rs"
  /\ \E k \in Starts(src, syntax) :
       k < at /\ src[k] = "CR" /\ RowsEnded(src, at) \subseteq 1..k

(* After the token and at every error inside the string, row and column    *)
(* are those of the source, by the one rule test/spec/strings.tsv:44-46    *)
(* gives for all ports: whatever continuations, CRLFs, lone CRs and line   *)
(* breaks of a multi-line string the reader has counted past, MissesRow    *)
(* and RestartsAtCR apart.                                                 *)
PositionIsTheSources ==
  Placed /\ ~MissesRow =>
    /\ row = SourceRow(src, at)
    /\ ~RestartsAtCR => col = SourceCol(src, at)

(* json5.ts:295-297, json5.go:129-130 and strings.tsv:44-46, as they       *)
(* stand: every row after the string is the source's own.                  *)
RowsAreTheSources == Placed => row = SourceRow(src, at)

(* The loop moves on at every turn: each string is left to the engine,     *)
(* read or refused.                                                        *)
EveryStringIsDecided == <>(outcome \notin {"check", "reading"})
===============================================================================
