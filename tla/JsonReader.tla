------------------------------ MODULE JsonReader ------------------------------
(***************************************************************************)
(* A reader of JSON's syntax, one token at a time, built from the syntax   *)
(* alone: what json5-render writes is held against what it reads.  open    *)
(* holds a bracket per container; want says what may come: "value",        *)
(* "first-item" (a value or "]"), "first-key" (a key or "}"), "key",       *)
(* "colon", "more" (a comma or the closing bracket), "newline" or "end";   *)
(* found is the events read.                                               *)
(***************************************************************************)
EXTENDS TreeEvents, Integers, Sequences

Reader(open, want, found, ok) ==
  [open |-> open, want |-> want, found |-> found, ok |-> ok]

StartOfText == Reader(<< >>, "value", << >>, TRUE)

Innermost(open) == IF open = << >> THEN "" ELSE open[Len(open)]

Outer(open) == SubSeq(open, 1, Len(open) - 1)

AfterValue(open) == IF open = << >> THEN "newline" ELSE "more"

Wants(r, want) == Reader(r.open, want, r.found, r.ok)

(* The reader r, with another event read, and wanting something else. *)
Finds(r, kind, text, want) ==
  Reader(r.open, want, Append(r.found, [kind |-> kind, text |-> text]), r.ok)

Opens(r, kind, bracket, want) ==
  Finds(Reader(Append(r.open, bracket), r.want, r.found, r.ok), kind, "", want)

Closes(r, kind) ==
  Finds(Reader(Outer(r.open), r.want, r.found, r.ok), kind, "", AfterValue(Outer(r.open)))

Syntax(r, token) ==
  LET value  == r.want \in {"value", "first-item"}
      key    == r.want \in {"key", "first-key"}
      inside == Innermost(r.open)
  IN  CASE token = "[" /\ value -> Opens(r, "array-start", "[", "first-item")
        [] token = "{" /\ value -> Opens(r, "object-start", "{", "first-key")
        [] token = "]" /\ inside = "[" /\ r.want \in {"first-item", "more"} ->
             Closes(r, "array-end")
        [] token = "}" /\ inside = "{" /\ r.want \in {"first-key", "more"} ->
             Closes(r, "object-end")
        [] token = "," /\ r.want = "more" ->
             Wants(r, IF inside = "[" THEN "value" ELSE "key")
        [] token = ":" /\ r.want = "colon" -> Wants(r, "value")
        [] token = "\n" /\ r.want = "newline" -> Wants(r, "end")
        [] token \in Keys /\ key -> Finds(r, "key", token, "colon")
        [] token \in Scalars /\ value -> Finds(r, "scalar", token, AfterValue(r.open))
        [] OTHER -> [r EXCEPT !.ok = FALSE]

(* The reader after each of the first tokens. *)
Reading(tokens) ==
  LET reader[n \in 0 .. Len(tokens)] ==
        IF n = 0 THEN StartOfText ELSE Syntax(reader[n - 1], tokens[n])
  IN  reader

Read(tokens) == Reading(tokens)[Len(tokens)]
===============================================================================
