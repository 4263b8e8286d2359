------------------------------ MODULE GoModule ------------------------------
(***************************************************************************)
(* goFiles and the import loop of readGo in tools/port-deps.cjs: which Go  *)
(* files the module at go/ has, and what their imports make of the port.   *)
(***************************************************************************)
EXTENDS PortFold, Integers, SequencesExt

CONSTANTS
  Elements,   \* the function from import paths to their "/"-separated elements
  Dotted      \* the first elements with a dot in them, which no standard import has

(* The walk enters a directory of the module unless the go tool would not: *)
(* a name starting with "." or "_", vendor, testdata, node_modules, a      *)
(* directory with a go.mod of its own, a symbolic link.  Of the files it   *)
(* takes the .go files.                                                    *)
Walked(entry) ==
  /\ \A i \in DOMAIN entry.dirs : entry.dirs[i] = "plain"
  /\ entry.name \in {"go", "test"}

GoFiles(entries) == SelectSeq(entries, Walked)

Under(path, prefix) == IsPrefix(Elements[prefix], Elements[path])
InOrg(path)         == Len(Elements[path]) > 2 /\ SubSeq(Elements[path], 1, 2) = <<"github.com", "tabnas">>
RepoOf(path)        == IF InOrg(path) /\ Len(Elements[path]) > 3 /\ Elements[path][4] = "go"
                       THEN Elements[path][3] ELSE None
GoIdOf(module)      == IF Len(Elements[module]) = 4 THEN RepoOf(module) ELSE None

(* The standard library has no dot in its first element.                   *)
Standard(path) == Elements[path][1] \notin Dotted

(* The require an import is served by: the longest that holds it.          *)
Best(requires, path) ==
  {i \in DOMAIN requires :
     /\ Under(path, requires[i].path)
     /\ \A j \in DOMAIN requires :
          /\ Under(path, requires[j].path)
          /\ Len(Elements[requires[j].path]) >= Len(Elements[requires[i].path])
          => requires[j].path = requires[i].path /\ i <= j}

StartGo(mod) == [mod |-> mod, runtime |-> {}, tests |-> {}, external |-> {}, ok |-> TRUE]

(* The imports of one file join what the files before it gave.             *)
TakeImports(go, entry, imports) ==
  LET paths   == {p \in ToSet(imports) : ~Under(p, go.mod.module)}
      repos   == {RepoOf(p) : p \in {q \in paths : InOrg(q)}}
      others  == {p \in paths : ~InOrg(p) /\ ~Standard(p)}
      served  == UNION {Best(go.mod.requires, p) : p \in others}
      direct  == {i \in served : ~go.mod.requires[i].indirect}
  IN  [go EXCEPT
         !.ok       = None \notin repos,
         !.tests    = @ \cup (IF entry.name = "test" THEN repos ELSE {}),
         !.runtime  = @ \cup (IF entry.name = "go" THEN repos ELSE {}),
         !.external = @ \cup (IF entry.name = "go"
                              THEN {go.mod.requires[i].path : i \in direct} ELSE {})]

GoPort(go) ==
  [manifest |-> "go/go.mod", name |-> go.mod.module, id |-> GoIdOf(go.mod.module),
   runtime |-> go.runtime, optional |-> {}, dev |-> go.tests \ go.runtime,
   external |-> go.external]
=============================================================================
