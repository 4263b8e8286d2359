----------------------------- MODULE NpmManifest -----------------------------
(***************************************************************************)
(* readTs of tools/port-deps.cjs: what ts/package.json depends on.  A      *)
(* manifest is a record of what JSON.parse gave: whether it was JSON, an   *)
(* object, its name (None when it has none), its four dependency sections  *)
(* (functions from keys to what they ask for; one that is absent is empty) *)
(* and peerDependenciesMeta.  NotAnObject stands for any value of a wrong  *)
(* shape, NotAString for any specifier of one.                             *)
(***************************************************************************)
EXTENDS PortFold, Integers, FiniteSetsExt

CONSTANTS NotAnObject, NotAString

Sections        == {"dependencies", "peerDependencies", "optionalDependencies", "devDependencies"}
RuntimeSections == Sections \ {"devDependencies"}

(* "alias": "npm:real@^1" is the package real.  Names and specifiers are   *)
(* sequences of pieces, an "@" being a piece of its own: the version after *)
(* the last "@" is cut, unless that "@" is the one a scope starts with.    *)
NpmName(key, spec) ==
  LET rest == Tail(spec)
      ats  == {i \in 2..Len(rest) : rest[i] = "@"}
  IN  IF spec = <<>> \/ Head(spec) # "npm:" THEN key
      ELSE IF ats = {} THEN rest ELSE SubSeq(rest, 1, Max(ats) - 1)

SectionUnderstood(section) ==
  section # NotAnObject /\ \A key \in DOMAIN section : section[key] # NotAString

(* The value of "optional" in each entry: None where there is none.        *)
MetaUnderstood(meta) ==
  meta # NotAnObject /\ \A key \in DOMAIN meta : meta[key] \in {None, "true", "false"}

TsUnderstood(pkg) ==
  /\ pkg.json /\ pkg.object
  /\ pkg.name \notin {None, <<>>}
  /\ \A s \in Sections : SectionUnderstood(pkg.sections[s])
  /\ MetaUnderstood(pkg.meta)

(* Mutant: a peer marked optional counts as one even where "dependencies"  *)
(* installs it regardless.                                                 *)
OptionalMarked(pkg, name) ==
  \/ name \in DOMAIN pkg.sections["optionalDependencies"]
  \/ /\ name \in DOMAIN pkg.sections["peerDependencies"]
     /\ name \in DOMAIN pkg.meta /\ pkg.meta[name] = "true"

OptionalIn(pkg, name) ==
  LET In(s) == name \in DOMAIN pkg.sections[s]
  IN  \/ In("optionalDependencies")
      \/ /\ In("peerDependencies")
         /\ name \in DOMAIN pkg.meta /\ pkg.meta[name] = "true"
         /\ ~In("dependencies")

ReadTs(pkg) ==
  LET Keys(s)   == DOMAIN pkg.sections[s]
      Real(s,k) == NpmName(k, pkg.sections[s][k])
      runtime   == UNION {{[name |-> Real(s, k), optional |-> OptionalIn(pkg, k), at |-> <<s, k>>] :
                             k \in Keys(s)} : s \in RuntimeSections}
  IN  Fold("ts/package.json", pkg.name, NpmIds, runtime,
           {Real("devDependencies", k) : k \in Keys("devDependencies")})

-----------------------------------------------------------------------------
(* What npm makes of a manifest, for comparison with the reader.           *)

(* The package an entry stands for: its key, or what an npm: specifier     *)
(* names, up to the "@" of its version, which is the last one and not the  *)
(* one a scope starts with.                                                *)
StandsFor(key, spec, real) ==
  IF spec = <<>> \/ Head(spec) # "npm:" THEN real = key
  ELSE LET rest == Tail(spec)
       IN  \/ real = rest /\ \A i \in 2 .. Len(rest) : rest[i] # "@"
           \/ \E n \in 1 .. Len(rest) - 1 :
                /\ real = SubSeq(rest, 1, n) /\ rest[n + 1] = "@"
                /\ \A i \in n + 2 .. Len(rest) : rest[i] # "@"

(* Key k of section s stands for a package of the repository id.           *)
Declares(pkg, s, k, id) ==
  /\ k \in DOMAIN pkg.sections[s]
  /\ \E real \in DOMAIN NpmIds : StandsFor(k, pkg.sections[s][k], real) /\ NpmIds[real] = id

KeysOf(pkg, id) ==
  {k \in UNION {DOMAIN pkg.sections[s] : s \in RuntimeSections} :
     \E s \in RuntimeSections : Declares(pkg, s, k, id)}

(* npm installs what a key asks for, or fails: not where it is among the   *)
(* optional ones, and a peer that is marked only where it is a dependency. *)
Required(pkg, k) ==
  LET In(s) == k \in DOMAIN pkg.sections[s]
  IN  /\ ~In("optionalDependencies")
      /\ \/ In("dependencies")
         \/ In("peerDependencies") /\ ~(k \in DOMAIN pkg.meta /\ pkg.meta[k] = "true")

Repositories == {NpmIds[n] : n \in DOMAIN NpmIds}

NpmNeeds(port, pkg) ==
  LET own     == IdOf(NpmIds, pkg.name)
      others  == Repositories \ {None, own}
      runtime == {id \in others : KeysOf(pkg, id) # {}}
  IN  /\ port.id = own
      /\ port.runtime = runtime
      /\ port.optional = {id \in runtime : \A k \in KeysOf(pkg, id) : ~Required(pkg, k)}
      /\ port.dev = {id \in others \ runtime :
                       \E k \in DOMAIN pkg.sections["devDependencies"] :
                         Declares(pkg, "devDependencies", k, id)}
==============================================================================
