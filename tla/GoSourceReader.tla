--------------------------- MODULE GoSourceReader ---------------------------
(***************************************************************************)
(* goIgnored and goImports of tools/port-deps.cjs: is a Go file's build    *)
(* constraint exactly "ignore", and what does it import?  A text is a      *)
(* sequence of trimmed lines, a line a sequence of lexemes [k, v]:         *)
(*   "//"       a // comment, to the end of its line; v is its directive:  *)
(*              "go:build" and "+build" with or without ignore, or none    *)
(*   "/*", "*/" the ends of a block comment                                *)
(*   "word", "string", "punct"    what goImports calls them                *)
(*   "broken"   a string that does not close or holds an escape            *)
(***************************************************************************)
EXTENDS Integers, Sequences, SequencesExt

CONSTANT None

VARIABLE reader     \* the locals of goIgnored, then those of goImports

GoBuild   == {"go:build ignore", "go:build other"}

StartsComment(line) == line # <<>> /\ line[1].k = "//"

-----------------------------------------------------------------------------
(* goIgnored, one header line at a time.                                   *)
StartHeader(text) ==
  [proc |-> "goIgnored", text |-> text, k |-> 1, end |-> 0, ended |-> FALSE,
   inStar |-> FALSE, goBuild |-> None, ok |-> TRUE]

(* What is left of a line once its comments are taken off: the state of    *)
(* the inner loop, which leaves the header at the first other text.        *)
Strip(s, lexeme) ==
  CASE s.stop              -> s
    [] ~s.stop /\ s.inStar -> [s EXCEPT !.inStar = lexeme.k # "*/"]
    [] OTHER               -> [inStar |-> lexeme.k = "/*",
                               stop   |-> lexeme.k # "/*",
                               text   |-> lexeme.k \notin {"/*", "//"}]

HeaderLine == reader.text[reader.k]
InHeader   == reader.proc = "goIgnored" /\ reader.ok /\ reader.k <= Len(reader.text)

(* Mutant: every blank line of the header moves the end of the run in      *)
(* which +build lines count.                                               *)
BlankLineAnywhere ==
  /\ InHeader /\ HeaderLine = <<>>
  /\ reader' = [reader EXCEPT !.end = reader.k, !.k = @ + 1]

BlankLine ==
  /\ InHeader /\ HeaderLine = <<>> /\ ~reader.ended
  /\ reader' = [reader EXCEPT !.end = reader.k, !.k = @ + 1]

TextLine ==
  /\ InHeader /\ (HeaderLine # <<>> \/ reader.ended)
  /\ LET line    == HeaderLine
         build   == ~reader.inStar /\ StartsComment(line) /\ line[1].v \in GoBuild
         after   == FoldLeft(Strip, [inStar |-> reader.inStar, stop |-> FALSE, text |-> FALSE], line)
     IN  IF build /\ reader.goBuild # None
         THEN reader' = [reader EXCEPT !.ok = FALSE]
         ELSE reader' = [reader EXCEPT
                !.ended   = @ \/ ~StartsComment(line),
                !.goBuild = IF build THEN line[1].v ELSE @,
                !.inStar  = after.inStar,
                !.k       = IF after.text THEN Len(reader.text) + 1 ELSE @ + 1]

Ignored(r) ==
  IF r.goBuild # None THEN r.goBuild = "go:build ignore"
  ELSE \E i \in 1..r.end : StartsComment(r.text[i]) /\ r.text[i][1].v = "+build ignore"

(* The header is read: a file not ignored is read again for its imports.   *)
HeaderRead == reader.proc = "goIgnored" /\ reader.ok /\ reader.k > Len(reader.text)

-----------------------------------------------------------------------------
(* goImports, one token at a time.  want says what the reader expects.     *)
StartImports(text) ==
  [proc |-> "goImports", rest |-> FlattenSeq(text), want |-> "package", out |-> <<>>, ok |-> TRUE]

AtToken == reader.proc = "goImports" /\ reader.ok /\ reader.want # "done" /\ reader.rest # <<>>
Token   == Head(reader.rest)
Is(k, v)   == Token.k = k /\ Token.v = v
IsComment  == Token.k \in {"//", "/*"}
Goes(want) == reader' = [reader EXCEPT !.rest = Tail(@), !.want = want]
Fails      == reader' = [reader EXCEPT !.ok = FALSE]

(* next() skips a comment, and fails at a block comment that never closes. *)
Comment ==
  /\ AtToken /\ IsComment
  /\ LET closes == {i \in DOMAIN reader.rest : reader.rest[i].k = "*/"}
     IN  \/ /\ Token.k = "//" /\ Goes(reader.want)
         \/ /\ Token.k = "/*" /\ closes # {}
            /\ reader' = [reader EXCEPT !.rest =
                 SubSeq(@, 1 + CHOOSE i \in closes : \A j \in closes : i <= j, Len(@))]
         \/ Token.k = "/*" /\ closes = {} /\ Fails

PackageClause ==
  /\ AtToken /\ ~IsComment /\ reader.want \in {"package", "name"}
  /\ \/ reader.want = "package" /\ Is("word", "package") /\ Goes("name")
     \/ reader.want = "name" /\ Token.k = "word" /\ Goes("decl")
     \/ /\ ~(reader.want = "package" /\ Is("word", "package"))
        /\ ~(reader.want = "name" /\ Token.k = "word")
        /\ Fails

(* Between declarations: the first token that does not start an import     *)
(* ends the reading.                                                       *)
Declaration ==
  /\ AtToken /\ ~IsComment /\ reader.want = "decl"
  /\ \/ Is("punct", ";") /\ Goes("decl")
     \/ Is("word", "import") /\ Goes("import")
     \/ ~Is("punct", ";") /\ ~Is("word", "import") /\ Token.k # "broken" /\ Goes("done")
     \/ Token.k = "broken" /\ Fails

OpenGroup == AtToken /\ reader.want = "import" /\ Is("punct", "(") /\ Goes("group")

InGroup ==
  /\ AtToken /\ reader.want = "group"
  /\ \/ Is("punct", ")") /\ Goes("decl")
     \/ Is("punct", ";") /\ Goes("group")

(* spec: an alias, "_" or "." before the path, then the path.              *)
Spec ==
  /\ AtToken /\ ~IsComment
  /\ reader.want \in {"import", "path", "group", "group path"}
  /\ ~(reader.want = "import" /\ Is("punct", "("))
  /\ ~(reader.want = "group" /\ (Is("punct", ")") \/ Is("punct", ";")))
  /\ LET grouped == reader.want \in {"group", "group path"}
         first   == reader.want \in {"import", "group"}
         alias   == Token.k = "word" \/ Is("punct", ".")
     IN  \/ /\ first /\ alias
            /\ Goes(IF grouped THEN "group path" ELSE "path")
         \/ /\ Token.k = "string"
            /\ reader' = [reader EXCEPT !.rest = Tail(@), !.out = Append(@, Token.v),
                                        !.want = IF grouped THEN "group" ELSE "decl"]
         \/ /\ Token.k # "string" /\ ~(first /\ alias)
            /\ Fails

(* The end of the text stands for a token: only between declarations is    *)
(* there nothing missing.                                                  *)
EndOfText ==
  /\ reader.proc = "goImports" /\ reader.ok /\ reader.want # "done" /\ reader.rest = <<>>
  /\ IF reader.want = "decl" THEN reader' = [reader EXCEPT !.want = "done"] ELSE Fails

HeaderStep == BlankLine \/ TextLine
ImportStep == Comment \/ PackageClause \/ Declaration \/ OpenGroup \/ InGroup \/ Spec \/ EndOfText
GoSourceStep == HeaderStep \/ ImportStep
=============================================================================
