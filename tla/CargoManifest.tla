---------------------------- MODULE CargoManifest ----------------------------
(***************************************************************************)
(* readRs of tools/port-deps.cjs: what rs/Cargo.toml depends on, read from *)
(* the tree the TOML reader built.                                         *)
(***************************************************************************)
EXTENDS PortFold, SequencesExt

LOCAL Has(doc, path) == path \in DOMAIN doc

Children(doc, path) == {p \in DOMAIN doc : Len(p) = Len(path) + 1 /\ IsPrefix(path, p)}

CargoTables ==
  {[key |-> "dependencies",       old |-> None,                 dev |-> FALSE],
   [key |-> "build-dependencies", old |-> "build_dependencies", dev |-> FALSE],
   [key |-> "dev-dependencies",   old |-> "dev_dependencies",   dev |-> TRUE]}

(* Cargo refuses the underscore spellings from the 2024 edition on; the    *)
(* editions of a manifest are compared as strings.                         *)
Modern(doc) ==
  LET edition == <<"package", "edition">>
  IN  Has(doc, edition) /\ doc[edition].t = "string" /\ doc[edition].v \in {"2024", "2027"}

(* The scopes dependency tables are looked for in: the manifest itself and *)
(* every [target.<cfg>].                                                   *)
Scopes(doc) == {<<>>} \cup Children(doc, <<"target">>)

(* The dependency tables of the manifest: a kind of table in a scope, by   *)
(* one of its two spellings.                                               *)
Spelled(doc, key(_)) ==
  {[path |-> Append(u[1], key(u[2])), dev |-> u[2].dev] :
      u \in {v \in Scopes(doc) \X CargoTables :
               key(v[2]) # None /\ Has(doc, Append(v[1], key(v[2])))}}

Hyphened(table) == table.key
Underscored(table) == table.old

(* Mutant: only the hyphen spellings are looked for.                       *)
TablesHyphened(doc) == Spelled(doc, Hyphened)

(* The tables read: by the hyphen spelling, or by the underscore spelling  *)
(* where the same scope has no hyphen one.                                 *)
TablesRead(doc) ==
  Spelled(doc, Hyphened)
  \cup {t \in Spelled(doc, Underscored) :
          \A k \in CargoTables :
             k.old = Last(t.path) => ~Has(doc, Append(Front(t.path), k.key))}

(* One entry of a dependency table: a version string, or a table that may  *)
(* rename the crate and make it optional.                                  *)
EntryUnderstood(doc, dep) ==
  LET Is(key, t) == Has(doc, Append(dep, key)) => doc[Append(dep, key)].t = t
  IN  \/ doc[dep].t = "string"
      \/ /\ doc[dep].t = "table"
         /\ ~Has(doc, Append(dep, "workspace"))
         /\ Is("package", "string")
         /\ Is("optional", "bool")

Entry(doc, dep) ==
  LET Set(key) == Has(doc, Append(dep, key))
  IN  [name     |-> IF Set("package") THEN doc[Append(dep, "package")].v ELSE Last(dep),
       optional |-> Set("optional") /\ doc[Append(dep, "optional")].v = "true",
       at       |-> dep]

Understood(doc) ==
  /\ Has(doc, <<"package">>) /\ doc[<<"package">>].t = "table"
  /\ Has(doc, <<"package", "name">>)
  /\ doc[<<"package", "name">>].t = "string" /\ doc[<<"package", "name">>].v # ""
  /\ Has(doc, <<"target">>) => doc[<<"target">>].t = "table"
  /\ \A s \in Scopes(doc) :
        /\ doc[s].t = "table"
        /\ Modern(doc) => \A t \in CargoTables : t.old # None => ~Has(doc, Append(s, t.old))
  /\ \A table \in TablesRead(doc) :
        /\ doc[table.path].t = "table"
        /\ \A dep \in Children(doc, table.path) : EntryUnderstood(doc, dep)

ReadRs(doc) ==
  LET Entries(dev) == UNION {{Entry(doc, dep) : dep \in Children(doc, table.path)} :
                               table \in {t \in TablesRead(doc) : t.dev = dev}}
  IN  Fold("rs/Cargo.toml", doc[<<"package", "name">>].v, CrateIds,
           Entries(FALSE), {e.name : e \in Entries(TRUE)})
==============================================================================
