----------------------------- MODULE TomlReader -----------------------------
(***************************************************************************)
(* parseToml of tools/port-deps.cjs: a Cargo manifest read one statement   *)
(* at a time into a tree of tables.  The tree is a function from paths     *)
(* (sequences of keys) to nodes; an array of tables keeps its items under  *)
(* "1", "2", ...  What the characters of a statement are is abstracted: a  *)
(* statement is a header, an array header, a key with its value, or        *)
(* something the reader does not understand.                               *)
(***************************************************************************)
EXTENDS Integers, Sequences, SequencesExt, TLC

VARIABLE reader     \* the locals of parseToml while it runs

Node(t, v)             == [t |-> t, v |-> v, defined |-> TRUE, inline |-> FALSE]
Table(defined, inline) == [t |-> "table", v |-> "", defined |-> defined, inline |-> inline]

(* A value as value() returns it: a tree of its own with the root at <<>>, *)
(* or not ok when value() threw.                                           *)
Leaf(t, v) == [ok |-> TRUE, tree |-> <<>> :> Node(t, v)]

-----------------------------------------------------------------------------
(* assign: walk all but the last of the parts down from a table, making    *)
(* tables on the way; an existing one must be a table and not inline.      *)
StepInto(w, part) ==
  LET to   == Append(w.at, part)
      tree == IF to \in DOMAIN w.tree THEN w.tree ELSE w.tree @@ (to :> Table(TRUE, FALSE))
  IN  [tree |-> tree, at |-> to,
       ok |-> w.ok /\ tree[to].t = "table" /\ ~tree[to].inline]

Assign(tree, from, parts, value) ==
  LET w    == FoldLeft(StepInto, [tree |-> tree, at |-> from, ok |-> TRUE], Front(parts))
      here == Append(w.at, Last(parts))
  IN  [ok   |-> w.ok /\ value.ok /\ here \notin DOMAIN w.tree,
       tree |-> w.tree @@ [p \in {here \o q : q \in DOMAIN value.tree} |->
                             value.tree[SubSeq(p, Len(here) + 1, Len(p))]]]

(* An inline table { k = v, ... }: its entries assigned one after another. *)
InlineTable(entries) ==
  LET Add(v, e) == LET a == Assign(v.tree, <<>>, e.parts, e.value)
                   IN  [a EXCEPT !.ok = a.ok /\ v.ok]
  IN  FoldLeft(Add, [ok |-> TRUE, tree |-> <<>> :> Table(TRUE, TRUE)], entries)

(* header: the tables made on the way are not yet defined, and an array of *)
(* tables is entered at its last item.                                     *)
Descend(w, part) ==
  LET next == Append(w.at, part)
      tree == IF next \in DOMAIN w.tree THEN w.tree ELSE w.tree @@ (next :> Table(FALSE, FALSE))
      to   == IF tree[next].t = "aot" THEN Append(next, ToString(tree[next].v)) ELSE next
  IN  [tree |-> tree, at |-> to,
       ok |-> w.ok /\ tree[to].t = "table" /\ ~tree[to].inline]

-----------------------------------------------------------------------------
StartToml(file) ==
  [rest |-> file, doc |-> <<>> :> Table(TRUE, FALSE), current |-> <<>>, ok |-> TRUE]

Statement(kind) ==
  /\ reader.ok
  /\ reader.rest # <<>>
  /\ Head(reader.rest).kind = kind

Refuse == reader' = [reader EXCEPT !.ok = FALSE]

(* The statement is understood: the tree is doc and current is the table   *)
(* that the keys after it belong to.                                       *)
Continue(doc, current) ==
  reader' = [reader EXCEPT !.rest = Tail(@), !.doc = doc, !.current = current]

(* [a.b]: a new table, or one that so far was only made on the way.        *)
Header ==
  /\ Statement("header")
  /\ LET parts == Head(reader.rest).parts
         w     == FoldLeft(Descend, [tree |-> reader.doc, at |-> <<>>, ok |-> TRUE], Front(parts))
         here  == Append(w.at, Last(parts))
         seen  == here \in DOMAIN w.tree
     IN  \/ /\ w.ok /\ ~seen
            /\ Continue(w.tree @@ (here :> Table(TRUE, FALSE)), here)
         \/ /\ w.ok /\ seen /\ w.tree[here].t = "table" /\ ~w.tree[here].defined
            /\ Continue([w.tree EXCEPT ![here].defined = TRUE], here)
         \/ /\ ~w.ok \/ (seen /\ (w.tree[here].t # "table" \/ w.tree[here].defined))
            /\ Refuse

(* [[a.b]]: one more item of an array of tables.                           *)
ArrayHeader ==
  /\ Statement("array header")
  /\ LET parts == Head(reader.rest).parts
         w     == FoldLeft(Descend, [tree |-> reader.doc, at |-> <<>>, ok |-> TRUE], Front(parts))
         here  == Append(w.at, Last(parts))
         seen  == here \in DOMAIN w.tree
         n     == IF seen THEN w.tree[here].v + 1 ELSE 1
         item  == Append(here, ToString(n))
     IN  IF w.ok /\ (seen => w.tree[here].t = "aot")
         THEN Continue((here :> Node("aot", n)) @@ (item :> Table(TRUE, FALSE)) @@ w.tree, item)
         ELSE Refuse

(* a.b = value, in the current table.                                      *)
KeyValue ==
  /\ Statement("key")
  /\ LET a == Assign(reader.doc, reader.current, Head(reader.rest).parts, Head(reader.rest).value)
     IN  IF a.ok THEN Continue(a.tree, reader.current) ELSE Refuse

(* Every other text: a string that does not close, an unknown escape, a    *)
(* key without a value, text after a statement...                          *)
NotUnderstood == Statement("other") /\ Refuse

TomlStep == Header \/ ArrayHeader \/ KeyValue \/ NotUnderstood
=============================================================================
