------------------------------ MODULE RequireValue ------------------------------
(***************************************************************************)
(* What each port answers for a source that may hold no value: the guard   *)
(* in front of the engine (TypeScript's wrapped parser.start, Go's Parse,  *)
(* Rust's parse_with) and hasValue, the scan it decides by, which reads    *)
(* whitespace and comments by itself, without the lexer whose answer it    *)
(* has to agree with.  In TypeScript the plugin may have been installed    *)
(* twice, with the same options: each install wraps the start it finds, so *)
(* that one guard hands the source to another.                             *)
(*                                                                         *)
(* External, modelled from its use: the engine (EngineAnswer), which       *)
(* answers its declared empty result for a source that is exactly empty    *)
(* and lexes its own comments in every other.                              *)
(*                                                                         *)
(* A source is a sequence of "sp", "LF", "/", "*", "#" and "v"; "v" is any *)
(* other character.                                                        *)
(***************************************************************************)
EXTENDS Integers, Sequences

CONSTANTS
  Sources,
  Ports        (* a subset of {"ts", "go", "rs"} *)

VARIABLES
  port, src,
  options,     (* [requireValue, hashComment]                               *)
  guards,      (* the guards still in front of the engine, this one too     *)
  given,       (* what this guard was handed: src, or the empty source      *)
  at,          (* i: the next character of the scan                         *)
  hash,        (* hasValue's hashComment                                    *)
  pc,          (* "guard", "scan", "line" (in a line comment), "answered"   *)
  answer

input == <<port, src, options>>
handed == <<guards, given>>
vars  == <<input, handed, at, hash, pc, answer>>

Spaces == {"sp", "LF"}
Char(i) == IF i <= Len(given) THEN given[i] ELSE "end"

(* Where "*" "/" stands in a text at or after i. *)
EndsIn(text, i) == {k \in i..(Len(text) - 1) : text[k] = "*" /\ text[k + 1] = "/"}
Ends(i) == EndsIn(given, i)
First(S) == CHOOSE k \in S : \A j \in S : k <= j

-------------------------------------------------------------------------------
(* External: what the engine's lexer finds from each place on: the kind of  *)
(* the first token that is not trivia, lexing hash comments or not.         *)
LinesEnds(i) == {k \in i..Len(src) : src[k] = "LF"}
Tokens(hashes) ==
  LET After(i) == IF i < Len(src) THEN src[i + 1] ELSE "end"
      token[i \in 1..(Len(src) + 2)] ==
        IF i > Len(src) THEN "none"
        ELSE IF src[i] \in Spaces THEN token[i + 1]
        ELSE IF (src[i] = "#" /\ hashes) \/ (src[i] = "/" /\ After(i) = "/")
             THEN IF LinesEnds(i) = {} THEN "none" ELSE token[First(LinesEnds(i))]
        ELSE IF src[i] = "/" /\ After(i) = "*"
             THEN IF EndsIn(src, i + 2) = {} THEN "unterminated_comment"
                  ELSE token[First(EndsIn(src, i + 2)) + 2]
        ELSE IF src[i] = "v" THEN "value" ELSE "unexpected"
  IN  token

FirstToken(hashes) == Tokens(hashes)[1]

Found == FirstToken(options.hashComment)

(* External: the engine's answer.  lex.empty is requireValue turned        *)
(* round; with the #ZZ alternate dropped a source without a token is       *)
(* unexpected, and with it the rules match no value, which is undefined    *)
(* in TypeScript and the empty result in the other two.                    *)
EngineAnswer(source) ==
  IF source # <<>> /\ Found # "none" THEN Found
  ELSE IF options.requireValue THEN "unexpected"
  ELSE IF source # <<>> /\ port = "ts" THEN "undefined" ELSE "null"

Answer(a) ==
  /\ answer' = a
  /\ pc' = "answered"
  /\ UNCHANGED <<input, handed, at, hash>>

(* The start that the guard wraps: the guard of the install before, or the *)
(* engine's.                                                               *)
Start(source) ==
  \/ guards = 1 /\ Answer(EngineAnswer(source))
  \/ /\ guards > 1
     /\ guards' = guards - 1 /\ given' = source
     /\ at' = 1 /\ hash' = FALSE /\ pc' = "guard"
     /\ UNCHANGED <<input, answer>>

Scan(h) ==
  /\ hash' = h
  /\ pc' = "scan"
  /\ UNCHANGED <<input, handed, at, answer>>

(* requireValue: an empty source is refused, any other is scanned with the *)
(* slash comments only, whatever the options.                              *)
Guard ==
  /\ pc = "guard" /\ options.requireValue
  /\ \/ given = <<>> /\ Answer("json5_empty")
     \/ given # <<>> /\ Scan(FALSE)

ShortCircuitEmptyOnly ==
  /\ pc = "guard" /\ ~options.requireValue
  /\ Start(given)

(* Without it, TypeScript and Rust scan for a source with no value, hash   *)
(* comments and all; Go leaves everything to the engine.                   *)
ShortCircuit ==
  /\ pc = "guard" /\ ~options.requireValue
  /\ \/ (given = <<>> \/ port = "go") /\ Start(given)
     \/ given # <<>> /\ port # "go" /\ Scan(options.hashComment)

-------------------------------------------------------------------------------
Scanning == pc = "scan"

To(i, where) ==
  /\ at' = i
  /\ pc' = where
  /\ UNCHANGED <<input, handed, hash, answer>>

Space == Scanning /\ Char(at) \in Spaces /\ To(at + 1, "scan")

LineComment ==
  /\ Scanning
  /\ \/ hash /\ Char(at) = "#" /\ To(at + 1, "line")
     \/ Char(at) = "/" /\ Char(at + 1) = "/" /\ To(at + 2, "line")

(* A line comment runs to the terminator, which is left, or to the end. *)
InLine ==
  /\ pc = "line"
  /\ To(IF Char(at) \in {"LF", "end"} THEN at ELSE at + 1,
        IF Char(at) \in {"LF", "end"} THEN "scan" ELSE "line")

(* A block comment that ends. *)
BlockComment ==
  /\ Scanning /\ Char(at) = "/" /\ Char(at + 1) = "*"
  /\ Ends(at + 2) # {}
  /\ To(First(Ends(at + 2)) + 2, "scan")

(* An unterminated block comment is left to the engine. *)
Unterminated ==
  /\ Scanning /\ Char(at) = "/" /\ Char(at + 1) = "*"
  /\ Ends(at + 2) = {}
  /\ Start(given)

(* hasValue is true: anything else begins something. *)
HasValue ==
  /\ Scanning
  /\ Char(at) \notin Spaces \cup {"end"}
  /\ ~(hash /\ Char(at) = "#")
  /\ ~(Char(at) = "/" /\ Char(at + 1) \in {"/", "*"})
  /\ Start(given)

(* hasValue is false: refused, or handed on as the empty source. *)
NoValue ==
  /\ Scanning /\ Char(at) = "end"
  /\ \/ options.requireValue /\ Answer("json5_no_value")
     \/ ~options.requireValue /\ Start(<<>>)

-------------------------------------------------------------------------------
Init ==
  /\ port \in Ports
  /\ src \in Sources
  /\ options \in [requireValue : BOOLEAN, hashComment : BOOLEAN]
  /\ guards \in (IF port = "ts" THEN {1, 2} ELSE {1})
  /\ given = src
  /\ at = 1 /\ hash = FALSE
  /\ pc = "guard" /\ answer = "none"

Next ==
  \/ Guard \/ ShortCircuit \/ Space \/ LineComment \/ InLine
  \/ BlockComment \/ Unterminated \/ HasValue \/ NoValue

Spec == Init /\ [][Next]_vars

-------------------------------------------------------------------------------
(* The answer, the same in the three ports, hangs on the options and on     *)
(* what the lexer finds first (test/spec/options.tsv).  A value, a stray    *)
(* character or an unterminated comment is answered as the engine has it:   *)
(* the guard never shadows it.  Nothing is null (and never undefined)       *)
(* without requireValue, whichever comments or spaces it is written with.   *)
(* With it nothing is refused, json5_empty or json5_no_value, and a source  *)
(* that is nothing only because hash comments are on is unexpected.  A      *)
(* second guard changes nothing.                                            *)
AnswersAreTheSpecified ==
  pc = "answered" =>
    IF Found # "none" THEN answer = Found
    ELSE IF ~options.requireValue THEN answer = "null"
    ELSE IF src = <<>> THEN answer = "json5_empty"
    ELSE answer = IF FirstToken(FALSE) = "none" THEN "json5_no_value" ELSE "unexpected"
===============================================================================
