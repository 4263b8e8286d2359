-------------------------------- MODULE Embed --------------------------------
(* The generated parts of the repository as its maintainers keep them:       *)
(* `npm run embed` writes the grammar into the three ports                   *)
(* (ts/embed-grammar.js, whose texts are EmbedGrammar's) and the translation *)
(* parts of tabnas.plugin.json into ts/src/translate.ts and the translate/   *)
(* directories of Go and Rust (ts/embed-translate.js); between two runs      *)
(* people edit what it reads, and merges leave what it writes as it was.     *)
(* rs/ is checked out.  The suites are the only check that the generated     *)
(* files were kept up.                                                       *)
EXTENDS EmbedGrammar

CONSTANTS Grammars,    \* the texts the grammar may be
          Texts,       \* the texts an alchemy file may be, "empty" among them
          MaxEdits     \* bound: edits and merges in one behaviour

FirstGrammar == <<"x">>

\* A grammar is a text without a marker, and "eof" is no lexeme.
ASSUME GrammarsAssumption ==
    /\ FirstGrammar \in Grammars
    /\ \A g \in Grammars :
           g \in Seq(ToSet(g)) /\ ToSet(g) \cap {"BEGIN", "END", "eof"} = {}

VARIABLES grammar,     \* json5-grammar.jsonic
          files,       \* port -> src/json5.ts, go/json5.go, rs/src/lib.rs
          spec,        \* tabnas.plugin.json's translate: kind -> its value
          alchemy,     \* file of alchemy/ -> its text, "absent" where it is not
          translation, \* what ts/src/translate.ts returns
          copies,      \* "go", "rs" -> its translate/: the manifest and files
          pc,          \* the next step of the embed, "idle" outside one
          kept,        \* whether the last embed ended well, with no edit since
          edits

inputs == <<grammar, spec, alchemy>>
vars == <<inputs, files, translation, copies, pc, kept, edits>>

Kinds == {"lift", "embed", "render", "transduce"}
Files == {"render.alc", "writer.alc", "transduce.alc"}

none == [entry |-> "none", source |-> "none"]

EntryOf == [lift |-> "json5-lift", embed |-> "json5-embed",
            render |-> "json5-render", transduce |-> "json5-transduce"]

-----------------------------------------------------------------------------
(* ts/embed-grammar.js                                                       *)

Stop == pc' = "idle" /\ kept' = FALSE /\ UNCHANGED <<files, translation, copies>>

EmbedInto(port, next) ==
    /\ pc = port
    /\ IF MarkersFound(files[port])
         THEN /\ files' = [files EXCEPT ![port] = embed(@, Declaration(port, grammar))]
              /\ pc' = next
              /\ UNCHANGED <<translation, copies, kept>>
         ELSE Stop
    /\ UNCHANGED <<inputs, edits>>

Start ==
    /\ pc = "idle"
    /\ pc' = "ts" /\ kept' = FALSE
    /\ UNCHANGED <<inputs, files, translation, copies, edits>>

EmbedTs == EmbedInto("ts", "go")
EmbedGo == EmbedInto("go", "rs")

\* The raw string is refused after the other two files have been written.
EmbedRs ==
    \/ FitsRaw(grammar) /\ EmbedInto("rs", "translate")
    \/ pc = "rs" /\ ~ FitsRaw(grammar) /\ Stop /\ UNCHANGED <<inputs, edits>>

-----------------------------------------------------------------------------
(* ts/embed-translate.js                                                     *)

Named(k) == spec[k] \in Files

part(k) ==
    IF spec[k] = "none" THEN none
    ELSE [entry |-> IF Named(k) THEN EntryOf[k] ELSE spec[k],
          source |-> IF Named(k) THEN alchemy[spec[k]] ELSE "none"]

\* ts/src/translate.ts as it is written.
Generated == [manifest |-> spec, parts |-> [k \in Kinds |-> part(k)]]

EmbedTranslation ==
    /\ pc = "translate"
    /\ IF \E k \in Kinds : Named(k) /\ alchemy[spec[k]] = "absent"
         THEN Stop
         ELSE /\ translation' = Generated
              /\ pc' = "copies"
              /\ UNCHANGED <<files, copies, kept>>
    /\ UNCHANGED <<inputs, edits>>

\* The files the copy writes: an empty one is none.
Copied == {spec[k] : k \in {l \in Kinds : Named(l) /\ alchemy[spec[l]] # "empty"}}

CopyParts ==
    /\ pc = "copies"
    /\ copies' = [r \in {"go", "rs"} |->
           [manifest |-> spec,
            files |-> [f \in Files |->
                IF f \in Copied THEN alchemy[f] ELSE copies[r].files[f]]]]
    /\ pc' = "idle" /\ kept' = TRUE
    /\ UNCHANGED <<inputs, files, translation, edits>>

-----------------------------------------------------------------------------
(* External: what people and merges do between two runs.                     *)

Edit ==
    /\ pc = "idle" /\ edits < MaxEdits
    /\ edits' = edits + 1 /\ kept' = FALSE
    /\ UNCHANGED pc

EditGrammar ==
    /\ Edit
    /\ grammar' \in Grammars \ {grammar}
    /\ UNCHANGED <<spec, alchemy, files, translation, copies>>

EditManifest ==
    /\ Edit
    /\ \E k \in Kinds, v \in Files \cup {"none", "alchemy-entry"} :
           v # spec[k] /\ spec' = [spec EXCEPT ![k] = v]
    /\ UNCHANGED <<grammar, alchemy, files, translation, copies>>

EditAlchemy ==
    /\ Edit
    /\ \E f \in Files, t \in Texts \cup {"absent"} :
           t # alchemy[f] /\ alchemy' = [alchemy EXCEPT ![f] = t]
    /\ UNCHANGED <<grammar, spec, files, translation, copies>>

\* An edit of a port's source that loses a marker.
LoseMarker ==
    /\ Edit
    /\ \E p \in Ports : MarkersFound(files[p])
           /\ files' = [files EXCEPT ![p] = Before(@) \o <<"BEGIN">> \o After(@)]
    /\ UNCHANGED <<inputs, translation, copies>>

\* A merge that keeps another commit's copy of a file.
Merge ==
    /\ Edit
    /\ \E r \in {"go", "rs"}, f \in Files, t \in Texts :
           /\ copies[r].files[f] # t
           /\ copies' = [copies EXCEPT ![r].files[f] = t]
    /\ UNCHANGED <<inputs, files, translation>>

-----------------------------------------------------------------------------
(* What each port's translate() returns, and the suites.                     *)

\* Go's and Rust's lists of parts, written by hand.
OwnParts == [render |-> "render.alc", transduce |-> "transduce.alc"]

TranslateCopied(r) ==
    [manifest |-> copies[r].manifest,
     parts |-> [k \in Kinds |->
         IF k \in DOMAIN OwnParts
           THEN [entry |-> EntryOf[k], source |-> copies[r].files[OwnParts[k]]]
           ELSE none]]

Translate(port) == IF port = "ts" THEN translation ELSE TranslateCopied(port)

\* The part is that file of alchemy/, under its own entry.
IsFile(t, k, f) == t = [entry |-> EntryOf[k], source |-> alchemy[f]] /\ t.source # "absent"

\* A mistake in RenderHeld: the render is held to its entry alone.
RenderNamed(port, t) == t.entry = EntryOf["render"]

\* Rust holds the render to the file the manifest names, the others to render.alc.
RenderHeld(port, t) ==
    IF port = "rs" THEN Named("render") /\ IsFile(t, "render", spec["render"])
    ELSE IsFile(t, "render", "render.alc")

\* translate.test.ts, translate_test.go and translate_test.rs; npm test embeds
\* before it runs the first.
Suite(port) ==
    LET t == Translate(port)
    IN  /\ t.manifest = spec
        /\ t.parts["lift"] = none
        /\ IF spec["embed"] = "none" THEN t.parts["embed"] = none
           ELSE Named("embed") /\ IsFile(t.parts["embed"], "embed", spec["embed"])
        /\ RenderHeld(port, t.parts["render"])
        /\ spec["transduce"] = "transduce.alc"
        /\ IsFile(t.parts["transduce"], "transduce", "transduce.alc")
        /\ alchemy["transduce.alc"] # "empty"

-----------------------------------------------------------------------------
Init ==
    /\ grammar = FirstGrammar
    /\ files = [p \in Ports |-> embed(<<"head", "BEGIN", "END", "tail">>,
                                      Declaration(p, FirstGrammar))]
    /\ spec = [lift |-> "none", embed |-> "none",
               render |-> "render.alc", transduce |-> "transduce.alc"]
    /\ alchemy = [f \in Files |-> IF f = "writer.alc" THEN "absent" ELSE "v1"]
    /\ translation = Generated
    /\ copies = [r \in {"go", "rs"} |-> [manifest |-> spec, files |-> alchemy]]
    /\ pc = "idle" /\ kept = TRUE /\ edits = 0

Next ==
    \/ Start \/ EmbedTs \/ EmbedGo \/ EmbedRs \/ EmbedTranslation \/ CopyParts
    \/ EditGrammar \/ EditManifest \/ EditAlchemy \/ LoseMarker \/ Merge

Spec == Init /\ [][Next]_vars

-----------------------------------------------------------------------------
\* Each port's compiler reads a whole grammar, one that was in the file when
\* an embed ran, whatever it holds of escapes, backticks and quotes, and
\* also after an embed that was refused half way; once one has ended well and
\* nothing was edited since, it is the grammar, in all the ports at once
\* (README.md: "so the three ports stay in sync").
PortsReadTheGrammar ==
    /\ \A p \in Ports : MarkersFound(files[p]) =>
           \E g \in Grammars : Constant(p, files[p]) = Meant(p, g)
    /\ kept => \A p \in Ports : Constant(p, files[p]) = Meant(p, grammar)

\* An embed changes a source only between its markers, and writes nothing a
\* second embed of the same grammar would change.
OnlyBetweenTheMarkers ==
    [][\A p \in Ports : pc # "idle" /\ files'[p] # files[p] =>
           /\ Before(files'[p]) = Before(files[p])
           /\ After(files'[p]) = After(files[p])
           /\ embed(files'[p], Declaration(p, grammar)) = files'[p]]_vars

\* When the suites of all three ports are green, TypeScript's after the embed
\* it begins with, their translate() return the same parts, those that the
\* manifest names, whatever edits and merges went before: the lists of parts
\* that Go and Rust write out by hand and the files that no embed takes away
\* never pass for the manifest's.
SuitesHoldTheTranslations ==
    kept /\ (\A p \in Ports : Suite(p)) =>
        \A p \in Ports : Translate(p) = Generated
=============================================================================
