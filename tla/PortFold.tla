------------------------------ MODULE PortFold ------------------------------
(***************************************************************************)
(* What the three manifest readers of tools/port-deps.cjs share: naming a  *)
(* repository by a package name, and folding a port's declarations into    *)
(* its dependency lists.                                                   *)
(***************************************************************************)
EXTENDS Sequences, FiniteSets

(* The match of a name against an ecosystem's pattern is a function from   *)
(* the names of the org's namespace to the <id> they carry.                *)
CONSTANTS NpmIds, CrateIds, None

IdOf(ids, name) == IF name \in DOMAIN ids THEN ids[name] ELSE None

(* runtime: a set of [name, optional, at]; dev: a set of names.  A         *)
(* dependency is optional only when every runtime declaration of it is.    *)
Fold(manifest, name, ids, runtime, dev) ==
  LET own     == IdOf(ids, name)
      Id(n)   == IdOf(ids, n)
      foreign == {d \in runtime : Id(d.name) = None}
      listed  == {d \in runtime : Id(d.name) \notin {None, own}}
      needed  == {Id(d.name) : d \in listed}
  IN  [manifest |-> manifest, name |-> name, id |-> own,
       runtime  |-> needed,
       optional |-> {i \in needed : \A d \in listed : Id(d.name) = i => d.optional},
       dev      |-> {Id(n) : n \in dev} \ (needed \cup {None, own}),
       external |-> {d.name : d \in foreign}]
=============================================================================
