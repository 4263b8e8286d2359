------------------------------ MODULE MCPortDeps ------------------------------
(***************************************************************************)
(* Model checking of PortDeps.  A repository varies in one manifest at a   *)
(* time, over every file the samples below can make up, or in the          *)
(* agreement of three small manifests with a register.  A sample says in   *)
(* hand-written labels what its text declares; the properties compare what *)
(* the program makes of the text with the labels.                          *)
(***************************************************************************)
EXTENDS PortDeps

Upto(S, n) == UNION {[1..k -> S] : k \in 0..n}

-----------------------------------------------------------------------------
(* Names.                                                                  *)
Json5 == <<"@", "tabnas/json5">>
Json  == <<"@", "tabnas/json">>
Expr  == <<"@", "tabnas/expr">>
Pad   == <<"left-pad">>
Alias == <<"j">>

MCNpmIds   == (Json5 :> "json5") @@ (Json :> "json") @@ (Expr :> "expr")
MCCrateIds == ("tabnas-json5" :> "json5") @@ ("tabnas-json" :> "json") @@ ("tabnas-expr" :> "expr")

Own == "github.com/tabnas/json5/go"
MCElements ==
  [p \in {Own} |-> <<"github.com", "tabnas", "json5", "go">>]
  @@ ("github.com/tabnas/json5/go/sub" :> <<"github.com", "tabnas", "json5", "go", "sub">>)
  @@ ("github.com/tabnas/json/go"      :> <<"github.com", "tabnas", "json", "go">>)
  @@ ("github.com/tabnas/expr/go/x"    :> <<"github.com", "tabnas", "expr", "go", "x">>)
  @@ ("github.com/tabnas/json"         :> <<"github.com", "tabnas", "json">>)
  @@ ("golang.org/x/a"                 :> <<"golang.org", "x", "a">>)
  @@ ("golang.org/x"                   :> <<"golang.org", "x">>)
  @@ ("golang.org/x/a/b"               :> <<"golang.org", "x", "a", "b">>)
  @@ ("fmt"                            :> <<"fmt">>)
MCDotted == {"github.com", "golang.org"}

NoRegister == [exists |-> FALSE]
Written(value) == [exists |-> TRUE, readable |-> TRUE, value |-> value]

-----------------------------------------------------------------------------
(* ts/package.json: two keys, one of them an alias of the other's package, *)
(* in any of the four sections, the peers marked or not.                   *)
Spec1(key) == IF key = Alias THEN <<"npm:", "@", "tabnas/json", "@", "^1">> ELSE <<"^1">>
Asks(keys) == [k \in keys |-> Spec1(k)]
Package(name, deps, peer, opt, dev, meta) ==
  [json |-> TRUE, object |-> TRUE, name |-> name, meta |-> meta,
   sections |-> ("dependencies" :> deps) @@ ("peerDependencies" :> peer)
                @@ ("optionalDependencies" :> opt) @@ ("devDependencies" :> dev)]
NoKeys == Asks({})
Plain  == Package(Json5, Asks({Json}), NoKeys, NoKeys, Asks({Expr}), NoKeys)

Metas == {NoKeys} \cup [{Json} -> {None, "true", "false", "other"}]
                  \cup [{Alias} -> {"true"}] \cup [{Json, Alias} -> {"true", "false"}]
Packages ==
  {Package(Json5, Asks(d), Asks(p), Asks(o), Asks(v), m) :
     d \in SUBSET {Json, Alias}, p \in SUBSET {Json, Alias}, o \in SUBSET {Json, Alias},
     v \in SUBSET {Json, Expr}, m \in Metas}
  \cup {[Plain EXCEPT !.name = n] : n \in {None, <<>>, Pad, Json}}
  \cup {[Plain EXCEPT !.json = FALSE], [Plain EXCEPT !.object = FALSE],
        [Plain EXCEPT !.meta = NotAnObject]}
  \cup {[Plain EXCEPT !.sections[s] = v] :
          s \in Sections,
          v \in {NotAnObject, Json :> NotAString, Asks({Json5, Pad}),
                 Alias :> <<"npm:", "@", "tabnas/expr">>,
                 Alias :> <<"npm:", "left-pad", "@", "2">>}}

(* What the keys stand for, as labels.                                     *)
Resolves(pkg, s, k) ==
  CASE k = Alias -> (CASE pkg.sections[s][k] = <<"npm:", "@", "tabnas/expr">>     -> "expr"
                       [] pkg.sections[s][k] = <<"npm:", "left-pad", "@", "2">> -> None
                       [] OTHER                                                 -> "json")
    [] k = Json  -> "json"
    [] k = Expr  -> "expr"
    [] OTHER     -> None
NpmKeys(pkg, id) ==
  {k \in {Json, Alias, Expr} : \E s \in RuntimeSections :
      k \in DOMAIN pkg.sections[s] /\ Resolves(pkg, s, k) = id}
NpmPromise(pkg) ==
  LET own == CASE pkg.name = Json5 -> "json5" [] pkg.name = Json -> "json"
               [] pkg.name = Expr -> "expr" [] OTHER -> None
  IN  [refused |-> FALSE, id |-> own,
       runtime |-> {id \in {"json", "expr"} : NpmKeys(pkg, id) # {}} \ {own}]
NpmReadable(pkg) ==
  /\ pkg.json /\ pkg.object /\ pkg.name # None /\ pkg.name # <<>>
  /\ pkg.meta # NotAnObject
  /\ \A s \in Sections :
        /\ pkg.sections[s] # NotAnObject
        /\ \A k \in DOMAIN pkg.sections[s] : pkg.sections[s][k] # NotAString
  /\ \A k \in DOMAIN pkg.meta : pkg.meta[k] # "other"

-----------------------------------------------------------------------------
(* rs/Cargo.toml.  A value carries the facts it states, beside the value   *)
(* the reader makes of it.                                                 *)
Fact(at, t, v) == [at |-> at, t |-> t, v |-> v]
Val(t, v)      == [value |-> Toml!Leaf(t, v), says |-> {Fact(<<>>, t, v)}, ok |-> TRUE]

(* Inline tables: of one entry, and of the same entry twice.               *)
Inline(times, key, t, v) ==
  [value |-> Toml!InlineTable([n \in 1..times |-> [parts |-> key, value |-> Toml!Leaf(t, v)]]),
   says |-> {Fact(<<>>, "table", "")} \cup {Fact(key, t, v)}
            \cup {Fact(SubSeq(key, 1, n), "table", "") : n \in 1..(Len(key) - 1)},
   ok |-> times = 1]

H(parts)    == [kind |-> "header", parts |-> parts]
HH(parts)   == [kind |-> "array header", parts |-> parts]
KV(parts, v) == [kind |-> "key", parts |-> parts, value |-> v.value, says |-> v.says, ok |-> v.ok]
Keys(S)     == {KV(k[1], Val(k[2], k[3])) : k \in S}
Tables(S)   == {KV(k[1], Inline(k[2], k[3], k[4], k[5])) : k \in S}

Head1 == <<H(<<"package">>), KV(<<"name">>, Val("string", "tabnas-json5"))>>
Edition(t, v) == KV(<<"edition">>, Val(t, v))

Statements ==
  {H(p) : p \in {<<"dependencies">>, <<"dependencies", "tabnas-json">>, <<"build_dependencies">>,
                 <<"build-dependencies">>, <<"dev-dependencies">>, <<"target", "u">>,
                 <<"target", "u", "dependencies">>, <<"bin", "dependencies">>}}
  \cup {HH(p) : p \in {<<"dependencies">>, <<"bin">>}}
  \cup Keys({<<<<"tabnas-json">>, "string", "1">>,
             <<<<"tabnas-json">>, "other", "1">>,
             <<<<"tabnas-json", "optional">>, "bool", "false">>,
             <<<<"tabnas-json", "workspace">>, "bool", "true">>,
             <<<<"optional">>, "string", "yes">>,
             <<<<"optional">>, "bool", "true">>,
             <<<<"tabnas-expr">>, "string", "1">>})
  \cup Tables({<<<<"tabnas-json">>, 1, <<"package">>, "string", "tabnas-expr">>,
               <<<<"tabnas-json">>, 1, <<"optional">>, "bool", "true">>,
               <<<<"tabnas-json">>, 1, <<"package", "x">>, "string", "1">>,
               <<<<"tabnas-json">>, 2, <<"version">>, "string", "1">>,
               <<<<"dependencies">>, 1, <<"tabnas-expr">>, "string", "1">>})
  \cup {[kind |-> "other"]}

FewOf(S) ==
  S \ ({HH(<<"dependencies">>), [kind |-> "other"]} \cup {s \in S : s.kind = "key" /\ ~s.ok})
RootFirst ==
  {<<s>> : s \in
     Keys({<<<<"dependencies">>, "string", "x">>,
           <<<<"target">>, "string", "x">>,
           <<<<"target", "u">>, "string", "x">>,
           <<<<"dependencies", "tabnas-json", "optional">>, "bool", "true">>})
     \cup Tables({<<<<"dependencies">>, 1, <<"tabnas-json">>, "string", "1">>,
                  <<<<"package">>, 1, <<"name">>, "string", "tabnas-expr">>})}

CONSTANTS CargoLength, HeaderLength, ImportLength   \* how long a sample is at most
CargosOf(S, few, rootFirst, head1) ==
  {head1 \o b : b \in Upto(S, CargoLength)}
  \cup {head1 \o <<Edition("string", "2024")>> \o b : b \in Upto(few, CargoLength - 1)}
  \cup {head1 \o <<Edition("string", "2021")>> \o b : b \in Upto(few, 1)}
  \cup {r \o h \o b : r \in rootFirst, h \in {head1, <<>>}, b \in Upto(few, 1)}
  \cup {<<H(<<"package">>)>> \o b : b \in
          Upto(Keys({<<<<"name">>, "string", "">>, <<<<"name">>, "other", "1">>,
                      <<<<"name">>, "string", "serde">>})
               \cup {HH(<<"package">>)}, 1)}
Cargos == CargosOf(Statements, FewOf(Statements), RootFirst, Head1)

(* Where a statement stands: under the last header before it, and under    *)
(* the last item of an array of tables its path goes through.              *)
IsHeader(s) == s.kind \in {"header", "array header"}
Item(file, i, path) ==
  ToString(Cardinality({k \in 1..i : file[k].kind = "array header" /\ file[k].parts = path}))
ThroughArrays(file, i, path) ==
  LET arrays == {n \in 1..(Len(path) - 1) : \E k \in 1..i :
                   file[k].kind = "array header" /\ file[k].parts = SubSeq(path, 1, n)}
  IN  IF arrays = {} THEN path
      ELSE LET n == Max(arrays)
           IN  Append(SubSeq(path, 1, n), Item(file, i, SubSeq(path, 1, n)))
               \o SubSeq(path, n + 1, Len(path))
Place(file, i) ==
  LET above == {k \in 1..i : IsHeader(file[k])}
      h     == Max(above)
      table == IF above = {} THEN <<>>
               ELSE IF file[h].kind = "header" THEN ThroughArrays(file, h, file[h].parts)
               ELSE Append(file[h].parts, Item(file, h, file[h].parts))
  IN  IF file[i].kind = "key" THEN table \o file[i].parts ELSE table

(* Two statements that cannot both stand: the i-th at p before the j-th at *)
(* q, whose own path from the root is r.  In one case TOML, and Cargo with *)
(* it, is stricter: a dotted key may not extend a table that a header of   *)
(* its own has opened ([dependencies.tabnas-json], then [dependencies] and *)
(* tabnas-json.optional = false).  parseToml's assign (port-deps.cjs:367)  *)
(* goes down into that table, and so here the two may stand.               *)
Clash(file, i, j, p, q, r) ==
  LET a == file[i]
      b == file[j]
  IN  \/ a.kind = "key" /\ b.kind = "key" /\ (IsPrefix(p, q) \/ IsPrefix(q, p))
      \/ /\ a.kind = "key" /\ IsHeader(b)
         /\ \/ IsPrefix(p, r)
            \/ IsPrefix(r, p) /\ Len(r) > Len(p) - Len(a.parts)
      \/ IsHeader(a) /\ b.kind = "key" /\ IsPrefix(q, p)
      \/ a.kind = "header" /\ b.kind = "header" /\ p = q
      \/ /\ a.kind = "header" /\ b.kind = "array header" /\ IsPrefix(b.parts, p)
         /\ ~\E k \in 1..i : file[k].kind = "array header" /\ file[k].parts = b.parts
      \/ a.kind = "array header" /\ b.kind = "header" /\ a.parts = b.parts

Clashes(file, place) ==
  \E j \in DOMAIN file : \E i \in 1..(j - 1) :
    /\ file[j].kind # "other" /\ file[i].kind # "other"
    /\ Clash(file, i, j, place[i], place[j], ThroughArrays(file, j, file[j].parts))

Prefixed(at) == {SubSeq(at, 1, n) : n \in 1..Len(at)}
FactsAt(statement, at) ==
  CASE IsHeader(statement) -> {Fact(p, "table", "") : p \in Prefixed(at)}
    [] statement.kind = "key" ->
         {Fact(p, "table", "") : p \in Prefixed(Front(at))}
         \cup {[f EXCEPT !.at = at \o f.at] : f \in statement.says}
    [] OTHER -> {}
Facts(file, place) == UNION {FactsAt(file[i], place[i]) : i \in DOMAIN file}
ArrayPaths(file) == {file[i].parts : i \in {k \in DOMAIN file : file[k].kind = "array header"}}

(* The five spellings, as patterns over the facts: a table of dependencies *)
(* at scope.kind, a dependency at scope.kind.name, its attributes below.   *)
At(F, p)    == {f \in F : f.at = p}
Below(F, T) == {f.at : f \in {g \in F : \E t \in T : Len(g.at) = Len(t) + 1 /\ IsPrefix(t, g.at)}}
Scopes1     == {<<>>, <<"target", "u">>}
SpelledOut(F, key, old) ==
  {IF At(F, Append(s, key)) # {} THEN Append(s, key) ELSE Append(s, old) : s \in Scopes1}
CrateId(names) ==
  IF \E n \in names : n \in DOMAIN MCCrateIds THEN MCCrateIds[CHOOSE n \in names : TRUE] ELSE None
Crate(F, d)  == LET real == {f.v : f \in At(F, Append(d, "package"))}
                IN  CrateId(IF real = {} THEN {Last(d)} ELSE real)
OptionalAt(F, d) == \E f \in At(F, Append(d, "optional")) : f.v = "true"

CargoRefused(file, place, F, T, D) ==
  \/ \E i \in DOMAIN file : file[i].kind = "other" \/ (file[i].kind = "key" /\ ~file[i].ok)
  \/ Clashes(file, place)
  \/ ~\E f \in At(F, <<"package", "name">>) : f.t = "string" /\ f.v # ""
  \/ ArrayPaths(file) \cap (T \cup D \cup {<<"target">>, <<"target", "u">>}) # {}
  \/ \E p \in T \cup {<<"target">>, <<"target", "u">>} : \E f \in At(F, p) : f.t # "table"
  \/ /\ \E f \in At(F, <<"package", "edition">>) : f.v = "2024"
     /\ \E s \in Scopes1 : At(F, Append(s, "build_dependencies")) # {}
  \/ \E d \in D :
       \/ \E f \in At(F, d) : f.t \notin {"table", "string"}
       \/ At(F, Append(d, "workspace")) # {}
       \/ \E f \in At(F, Append(d, "package")) : f.t # "string"
       \/ \E f \in At(F, Append(d, "optional")) : f.t # "bool"

CargoLists(F, own, run, dev) ==
  LET needed == {Crate(F, d) : d \in run} \ {None, own}
  IN  [refused |-> FALSE, id |-> own, runtime |-> needed,
       optional |-> {i \in needed : \A d \in run : Crate(F, d) = i => OptionalAt(F, d)},
       dev |-> {Crate(F, d) : d \in dev} \ (needed \cup {None, own})]

CargoTaken(file, place, F, run, dev) ==
  IF CargoRefused(file, place, F, run \cup dev, Below(F, run \cup dev)) THEN [refused |-> TRUE]
  ELSE CargoLists(F, CrateId({f.v : f \in At(F, <<"package", "name">>)}),
                  Below(F, run), Below(F, dev))

CargoOf(file, place, F) ==
  CargoTaken(file, place, F,
             {Append(s, "dependencies") : s \in Scopes1}
               \cup SpelledOut(F, "build-dependencies", "build_dependencies"),
             SpelledOut(F, "dev-dependencies", "dev_dependencies"))

CargoPlaced(file, place) == CargoOf(file, place, Facts(file, place))
CargoPromise(file)       == CargoPlaced(file, [i \in DOMAIN file |-> Place(file, i)])

-----------------------------------------------------------------------------
(* go/go.mod: a directive is the lines that state it.                      *)
Tokens(t)   == [lexed |-> TRUE, tokens |-> t, indirect |-> FALSE]
Indirect(t) == [lexed |-> TRUE, tokens |-> t, indirect |-> TRUE]
States(lines, modules, requires, bad) ==
  [lines |-> lines, modules |-> modules, requires |-> requires, bad |-> bad]
Req(path, indirect) == [path |-> path, indirect |-> indirect]

Directives ==
  {States(<<Tokens(<<"module", Own>>)>>, {Own}, <<>>, FALSE),
   States(<<Tokens(<<"module", "(">>), Tokens(<<Own>>), Tokens(<<")">>)>>, {Own}, <<>>, FALSE),
   States(<<Tokens(<<"module">>)>>, {}, <<>>, TRUE),
   States(<<Tokens(<<>>), Tokens(<<"go", "1.24">>), Tokens(<<")">>)>>, {}, <<>>, FALSE),
   States(<<Tokens(<<"replace", "(">>), Tokens(<<"golang.org/x", "=>", "../x">>), Tokens(<<")">>)>>,
          {}, <<>>, FALSE),
   States(<<Tokens(<<"require", "golang.org/x", "v1">>)>>, {}, <<Req("golang.org/x", FALSE)>>, FALSE),
   States(<<Tokens(<<"require", "(">>), Indirect(<<"golang.org/x/a", "v1">>), Tokens(<<")">>)>>,
          {}, <<Req("golang.org/x/a", TRUE)>>, FALSE),
   States(<<Tokens(<<"require", "golang.org/x">>)>>, {}, <<>>, TRUE),
   States(<<Tokens(<<"require", "(", "golang.org/x", "v1", ")">>)>>, {}, <<>>, TRUE),
   States(<<Tokens(<<"require", "(">>), Tokens(<<")", "x">>)>>, {}, <<>>, TRUE),
   States(<<Tokens(<<"require", "(">>)>>, {}, <<>>, TRUE),
   States(<<[Tokens(<<"go">>) EXCEPT !.lexed = FALSE]>>, {}, <<>>, TRUE)}

(* A broken piece is the last: what follows it could mend it.              *)
UptoBroken(S, n) ==
  {q \in Upto(S, n) : \A i \in DOMAIN q : q[i].bad => i = Len(q)}

Module(directives, sources) ==
  [mod |-> FlattenSeq([i \in DOMAIN directives |-> directives[i].lines]),
   files |-> sources, directives |-> directives]

(* The path a directive names is its own; what the whole file requires.    *)
ModPromise(ds) ==
  [refused  |-> \/ \E i \in DOMAIN ds : ds[i].bad
                \/ Cardinality({i \in DOMAIN ds : ds[i].modules # {}}) # 1,
   requires |-> UNION {ToSet(ds[i].requires) : i \in DOMAIN ds}]

-----------------------------------------------------------------------------
(* Go files: a header of comments, then a package clause, imports and the  *)
(* rest.  A header item says what it is beside the lines it is written in. *)
L(k, v) == [k |-> k, v |-> v]
LineComment(v) == <<L("//", v)>>
HeaderItem(lines, plain, build, plus) ==
  [lines |-> lines, plain |-> plain, build |-> build, plus |-> plus]

HeaderItems ==
  {HeaderItem(<< <<>> >>, TRUE, "", FALSE),
   HeaderItem(<<LineComment("")>>, TRUE, "", FALSE),
   HeaderItem(<<LineComment("go:build ignore")>>, TRUE, "ignore", FALSE),
   HeaderItem(<<LineComment("go:build other")>>, TRUE, "other", FALSE),
   HeaderItem(<<LineComment("+build ignore")>>, TRUE, "", TRUE),
   HeaderItem(<<LineComment("+build other")>>, TRUE, "", FALSE),
   (* block comments: on one line, over lines that look like constraints,  *)
   (* and with a constraint after them on their last line                  *)
   HeaderItem(<< <<L("/*", ""), L("*/", "")>> >>, FALSE, "", FALSE),
   HeaderItem(<< <<L("/*", "")>>, LineComment("go:build ignore"), <<L("*/", "")>> >>, FALSE, "", FALSE),
   HeaderItem(<< <<L("/*", "")>>, <<L("*/", ""), L("//", "go:build ignore")>> >>, FALSE, "", FALSE)}

Headers == Upto(HeaderItems, HeaderLength)
BlankItem(item) == item.lines = << <<>> >>

(* go/build's rule, over the items: the one //go:build line that starts a  *)
(* line of its own decides; without one, a +build line among the plain     *)
(* comments that a blank line still separates from what follows them.      *)
HeaderPromise(items) ==
  LET builds == {i \in DOMAIN items : items[i].build # ""}
      run    == {i \in DOMAIN items : \A j \in 1..i : items[j].plain}
  IN  [refused |-> Cardinality(builds) > 1,
       ignored |-> IF builds # {} THEN \E i \in builds : items[i].build = "ignore"
                   ELSE \E i, j \in run : i < j /\ items[i].plus /\ BlankItem(items[j])]

Imports(tokens, paths, bad) == [tokens |-> tokens, paths |-> paths, bad |-> bad]
Word(v)  == L("word", v)
Punct(v) == L("punct", v)
Str(v)   == L("string", v)
JsonGo   == "github.com/tabnas/json/go"
ExprGo   == "github.com/tabnas/expr/go/x"
Block    == <<L("/*", ""), Word("import"), L("*/", "")>>

ImportDecls ==
  {Imports(<<Word("import"), Str("fmt")>>, {"fmt"}, FALSE),
   Imports(<<Word("import"), Word("_"), Str(JsonGo), Punct(";")>>, {JsonGo}, FALSE),
   Imports(<<Word("import"), Punct("(")>> \o Block \o <<Punct("."), Str(ExprGo), Punct(";"), Str(JsonGo), Punct(")")>>,
           {ExprGo, JsonGo}, FALSE),
   Imports(<<Word("import"), Punct("("), Word("e"), Str("golang.org/x/a/b"), L("//", ""), Punct(")")>>,
           {"golang.org/x/a/b"}, FALSE),
   Imports(<<Word("import"), Punct("("), Punct(")")>>, {}, FALSE),
   Imports(<<Word("import"), Str("github.com/tabnas/json5/go/sub")>>, {"github.com/tabnas/json5/go/sub"}, FALSE),
   Imports(<<Word("import"), Str("github.com/tabnas/json")>>, {"github.com/tabnas/json"}, FALSE),
   Imports(<<Word("import"), Punct("="), Str("fmt")>>, {}, TRUE),
   Imports(<<Word("import"), Word("a"), Word("b")>>, {}, TRUE),
   Imports(<<Word("import"), Punct("("), Str(JsonGo)>>, {}, TRUE),
   Imports(<<L("/*", ""), Word("import")>>, {}, TRUE),
   Imports(<<L("broken", "")>>, {}, TRUE)}

(* What follows the imports is not read, whatever it looks like.           *)
Rests == {<<>>, <<Word("var"), Word("import"), Str(ExprGo), L("/*", "")>>}
Clauses == {Imports(<<Word("package"), Word("p")>>, {}, FALSE), Imports(<<Word("func")>>, {}, TRUE),
            Imports(<<Word("package"), Punct("(")>>, {}, TRUE), Imports(<<>>, {}, TRUE)}

GoFile(dirs, name, items, clause, decls, rest) ==
  [dirs |-> dirs, name |-> name, items |-> items, parts |-> <<clause>> \o decls,
   text |-> FlattenSeq([i \in DOMAIN items |-> items[i].lines])
            \o <<clause.tokens>> \o [i \in DOMAIN decls |-> decls[i].tokens] \o <<rest>>]

Package1   == Imports(<<Word("package"), Word("p")>>, {}, FALSE)
Simple(name, dirs, decls) == GoFile(dirs, name, <<>>, Package1, decls, <<>>)
ImportsOf(p) == Imports(<<Word("import"), Str(p)>>, {p}, FALSE)

Kinds == {"plain", "hidden", "vendor", "link", "module"}
ModuleLine == States(<<Tokens(<<"module", Own>>)>>, {Own}, <<>>, FALSE)
Requires   == Directives \ {d \in Directives : d.requires = <<>>}

Modules ==
  {Module(ds, <<Simple("go", <<>>, <<ImportsOf("golang.org/x/a/b"), ImportsOf(JsonGo)>>)>>) :
     ds \in UptoBroken(Directives, 3)}
  \cup {Module(<<ModuleLine>>, <<GoFile(<<>>, "go", h, Package1, <<ImportsOf(JsonGo)>>, <<>>)>>) :
           h \in Headers}
  \cup {Module(<<ModuleLine, d>>, <<GoFile(<<>>, name, <<>>, c, ds, r)>>) :
           c \in Clauses, ds \in UptoBroken(ImportDecls, ImportLength), r \in Rests, d \in Requires,
           name \in {"go", "test"}}
  \cup {Module(<<ModuleLine>>, <<Simple(n1, d, <<ImportsOf(JsonGo)>>),
                                 Simple(n2, <<>>, <<ImportsOf(p)>>)>>) :
           n1 \in {"go", "test", "other", "link"}, n2 \in {"go", "test"},
           d \in Upto(Kinds, 2), p \in {JsonGo, ExprGo}}

FilePromise(file) ==
  LET h   == HeaderPromise(file.items)
      bad == {i \in DOMAIN file.parts : file.parts[i].bad}
      all == UNION {file.parts[i].paths : i \in DOMAIN file.parts}
  IN  [refused |-> h.refused \/ (~h.ignored /\ (bad # {} \/ "github.com/tabnas/json" \in all)),
       paths   |-> IF h.ignored THEN {} ELSE all,
       name    |-> file.name]

RepoNamed(p) == CASE p = JsonGo -> "json" [] p = ExprGo -> "expr" [] OTHER -> None

Named(paths) == {RepoNamed(p) : p \in paths} \ {None}
Served(requires) ==     \* what serves golang.org/x/a/b: the longest path wins
  IF requires = {} THEN None
  ELSE IF \E r \in requires : r.path = "golang.org/x/a" THEN "golang.org/x/a"
  ELSE "golang.org/x"

GoOf1(mod, read, run, tests) ==
  IF mod.refused \/ \E f \in read : f.refused THEN [refused |-> TRUE]
  ELSE [refused |-> FALSE, id |-> "json5", runtime |-> Named(run), optional |-> {},
        dev |-> Named(tests) \ Named(run),
        external |-> IF "golang.org/x/a/b" \in run /\ Served(mod.requires) = "golang.org/x"
                     THEN {"golang.org/x"} ELSE {}]
GoRead(mod, read) ==
  GoOf1(mod, read, UNION {f.paths : f \in {g \in read : g.name = "go"}},
        UNION {f.paths : f \in {g \in read : g.name = "test"}})
GoPromise(module) ==
  GoRead(ModPromise(module.directives),
         {FilePromise(f) : f \in {g \in ToSet(module.files) :
            ToSet(g.dirs) \subseteq {"plain"} /\ g.name \in {"go", "test"}}})

-----------------------------------------------------------------------------
(* The comparison: up to three small manifests, and a register.            *)
Deps == {{}, {"json"}, {"json", "expr"}}
NpmOf(id)   == CASE id = "json" -> Json [] id = "expr" -> Expr
CrateOf(id) == CASE id = "json" -> "tabnas-json" [] id = "expr" -> "tabnas-expr"
GoOf(id)    == CASE id = "json" -> JsonGo [] id = "expr" -> ExprGo
SmallTs(D) == Package(Json5, Asks({NpmOf(i) : i \in D}), NoKeys, NoKeys, NoKeys, NoKeys)
SmallRs(D) == Head1 \o <<H(<<"dependencies">>)>>
              \o SetToSeq(Keys({<<<<CrateOf(i)>>, "string", "1">> : i \in D}))
SmallGo(D) == Module(<<ModuleLine>>, <<Simple("go", <<>>, SetToSeq({ImportsOf(GoOf(i)) : i \in D}))>>)

Entry1 == [object |-> TRUE, extra |-> FALSE, ports |-> <<"ts">>, reason |-> "given", repair |-> "given"]
Entries1 == {[Entry1 EXCEPT !.ports = p] : p \in {<<"ts">>, <<"rs", "ts">>, <<"ts", "rs">>, <<"go", "rs">>, <<>>}}
            \cup {[Entry1 EXCEPT !.object = FALSE], [Entry1 EXCEPT !.extra = TRUE],
                  [Entry1 EXCEPT !.reason = "blank"], [Entry1 EXCEPT !.repair = "blank"]}
Value(differ) == [object |-> TRUE, extra |-> FALSE, note |-> "string", differ |-> differ]
Differing == {NoEntries} \cup [{"json"} -> Entries1] \cup [{"json", "expr"} -> {Entry1}]
             \cup {"gone" :> Entry1}
Registers ==
  {Written(Value(d)) : d \in Differing}
  \cup {[exists |-> TRUE, readable |-> FALSE], Written(Value(NotAnObject))}
  \cup {Written(v) : v \in
          {[Value("json" :> Entry1) EXCEPT !.object = FALSE], [Value(NoEntries) EXCEPT !.extra = TRUE],
           [Value(NoEntries) EXCEPT !.note = "other"]}}

Manifests ==
  {[ts |-> SmallTs(a)] : a \in Deps}
  \cup {[ts |-> SmallTs(a), rs |-> SmallRs(b)] : a \in Deps, b \in Deps}
  \cup {[ts |-> SmallTs(a), go |-> SmallGo(c), rs |-> SmallRs(b)] : a \in Deps, b \in Deps, c \in Deps}
  \cup {[ts |-> [SmallTs({}) EXCEPT !.name = n], rs |-> SmallRs({"json"})] : n \in {Pad, Expr}}

(* What is expected of the manifests of a repository: of those that are to *)
(* be read, their dependencies.                                            *)
Promise(p, manifest) ==
  CASE p = "ts" -> IF NpmReadable(manifest) THEN NpmPromise(manifest) ELSE [refused |-> TRUE]
    [] p = "go" -> GoPromise(manifest)
    [] p = "rs" -> CargoPromise(manifest)

RepoOf1(directory, manifests, register, promise) ==
  [directory |-> directory, manifests |-> manifests, register |-> register,
   promise |-> [p \in {q \in DOMAIN manifests : ~promise[q].refused} |-> promise[p]]]
Repo(sample) ==
  RepoOf1(sample[1], sample[2], sample[3], [p \in DOMAIN sample[2] |-> Promise(p, sample[2][p])])

MCRepos ==
  {Repo(sample) : sample \in
     {TRUE} \X ({[ts |-> p] : p \in Packages} \cup {[rs |-> f] : f \in Cargos}
                \cup {[go |-> m] : m \in Modules}) \X {NoRegister}
     \cup {TRUE} \X Manifests \X (Registers \cup {NoRegister})
     \cup BOOLEAN \X {NoEntries} \X {NoRegister}}

-----------------------------------------------------------------------------
(* Of the manifest called name: it is taken exactly when its samples are   *)
(* to be read, and what is made of it is what the labels declare.          *)
Expected(name) ==
  /\ name \in DOMAIN ports =>
       /\ name \in DOMAIN repo.promise
       /\ ports[name].id = repo.promise[name].id
       /\ ports[name].runtime = repo.promise[name].runtime
       /\ ports[name].optional = repo.promise[name].optional
       /\ ports[name].dev = repo.promise[name].dev
  /\ (running = "end" /\ DOMAIN repo.manifests = {name} /\ name \in DOMAIN repo.promise) =>
       name \in DOMAIN ports

(* The dependencies of rs/Cargo.toml are found in all their spellings: in  *)
(* a table or a dotted or inline one, under a target, hyphenated or not,   *)
(* renamed.  A manifest is refused that gives one key or one table twice,  *)
(* takes a value for a table, or says of a dependency what is not          *)
(* understood (parseToml and readRs).  That Cargo would take what is read  *)
(* is not claimed: a dotted key that extends a table with a header of its  *)
(* own is read as the key of that table, where TOML refuses it (Clash).    *)
CargoDependenciesAreTheDeclared == Expected("rs")

(* The imports of the Go files that Go would compile are the go port's     *)
(* dependencies, those of its tests its dev ones, and the longest require  *)
(* that serves an import is the one needed (parseGoMod, goIgnored,         *)
(* goImports and readGo).                                                  *)
GoDependenciesAreTheDeclared ==
  /\ Expected("go")
  /\ "go" \in DOMAIN ports => ports.go.external = repo.promise.go.external

(* What the program promises by its exit code (ADR-24): 2 exactly when     *)
(* there is no such directory or something in it is not understood, by the *)
(* labels above (which are the program's, not Cargo's, in Clash), else 0   *)
(* exactly when the ports are named alike and the register, in its proper  *)
(* shape, records each difference between them, with the ports that have   *)
(* the dependency, and nothing that is not one.                            *)
Sound ==
  LET P        == DOMAIN repo.manifests
      With1(id) == {p \in P : id \in repo.promise[p].runtime}
      differ   == {id \in {"json", "expr", "gone"} : With1(id) \notin {{}, P}}
      value    == IF repo.register.exists THEN repo.register.value ELSE Value(NoEntries)
  IN  /\ \E id \in {"json5", "json", "expr"} : \A p \in P : repo.promise[p].id = id
      /\ value.object /\ ~value.extra /\ value.note = "string" /\ value.differ # NotAnObject
      /\ DOMAIN value.differ = differ
      /\ \A id \in differ :
           \E s \in {<<"go">>, <<"rs">>, <<"ts">>, <<"go", "rs">>, <<"go", "ts">>, <<"rs", "ts">>} :
             ToSet(s) = With1(id) /\ value.differ[id] = [Entry1 EXCEPT !.ports = s]

ExitTellsTheTruth ==
  running = "end" =>
    exit = CASE \/ ~repo.directory \/ DOMAIN repo.promise # DOMAIN repo.manifests
                \/ repo.register.exists /\ ~repo.register.readable -> 2
             [] OTHER -> IF Sound THEN 0 ELSE 1
=============================================================================
