----------------------------- MODULE GoModReader -----------------------------
(***************************************************************************)
(* parseGoMod of tools/port-deps.cjs: go/go.mod read one line at a time.   *)
(* A line is its tokens and what its // comment says of the require        *)
(* ("indirect" or not), or not lexed when a quoted string on it does not   *)
(* close or holds an escape.                                               *)
(***************************************************************************)
EXTENDS Integers, Sequences

CONSTANT None

VARIABLE reader     \* the locals of parseGoMod while it runs

StartGoMod(lines) ==
  [rest |-> lines, module |-> None, block |-> None, requires |-> <<>>, ok |-> TRUE]

AtLine == reader.ok /\ reader.rest # <<>>
Line   == Head(reader.rest)
Then(r) == reader' = [r EXCEPT !.rest = Tail(@)]
Refuse  == reader' = [reader EXCEPT !.ok = FALSE]

Blank == AtLine /\ Line.lexed /\ Line.tokens = <<>> /\ Then(reader)

Unlexed == AtLine /\ ~Line.lexed /\ Refuse

(* ")" alone closes the block it stands in.                                *)
CloseBlock ==
  /\ AtLine /\ Line.lexed /\ Line.tokens # <<>>
  /\ reader.block # None /\ Head(Line.tokens) = ")"
  /\ IF Len(Line.tokens) = 1 THEN Then([reader EXCEPT !.block = None]) ELSE Refuse

(* <verb> ( opens a block; nothing may follow on its line.                 *)
Opens(tokens) == reader.block = None /\ Len(tokens) > 1 /\ tokens[2] = "("
OpenBlock ==
  /\ AtLine /\ Line.lexed /\ Line.tokens # <<>>
  /\ Opens(Line.tokens)
  /\ IF Len(Line.tokens) = 2 THEN Then([reader EXCEPT !.block = Head(Line.tokens)]) ELSE Refuse

(* A directive, its verb on the line or on the block around it.  Only      *)
(* module and require are read: no other one can hide an import.           *)
Directive ==
  /\ AtLine /\ Line.lexed /\ Line.tokens # <<>>
  /\ ~Opens(Line.tokens)
  /\ reader.block # None => Head(Line.tokens) # ")"
  /\ LET verb == IF reader.block = None THEN Head(Line.tokens) ELSE reader.block
         args == IF reader.block = None THEN Tail(Line.tokens) ELSE Line.tokens
     IN  \/ /\ verb = "module"
            /\ IF Len(args) = 1 /\ reader.module = None
               THEN Then([reader EXCEPT !.module = args[1]]) ELSE Refuse
         \/ /\ verb = "require"
            /\ IF Len(args) = 2
               THEN Then([reader EXCEPT !.requires =
                            Append(@, [path |-> args[1], indirect |-> Line.indirect])])
               ELSE Refuse
         \/ verb \notin {"module", "require"} /\ Then(reader)

(* At the end of the text every block is closed and the module is named.   *)
GoModComplete == reader.ok /\ reader.rest = <<>> /\ reader.block = None /\ reader.module # None

GoModStep == Blank \/ Unlexed \/ CloseBlock \/ OpenBlock \/ Directive
==============================================================================
