# Verification of tabnas/json5

tabnas/json5 is a JSON5 grammar plugin for the tabnas parser engine, written three times
(`ts/src/json5.ts`, `go/json5.go`, `rs/src/lib.rs`), with a writer of JSON5
(`alchemy/render.alc`), a C ABI over the Go port (`go/clib`) and a release pipeline
(`.github/workflows`). This directory holds TLA+ models of the parts with state, TLC
configurations that check them on small instances, and TLAPS proofs for every instance.
`src/` in PROJECT.json is the root of the repository.

## 1. Inventory

| part | state | operations | what is hard |
|---|---|---|---|
| json5-render (`alchemy/render.alc`) | a stack of markers, one per open container; the host holds the outputs of an unfinished record | one step per tree event, `json5-finish` | long event sequences, failure part way |
| C ABI registry (`go/clib/core.go`, `tabnas_c.go`) | the map `loaded`, `nextID`, the RWMutex `reg`, a mutex per instance | `tabnas_grammar`, `tabnas_parse`, `tabnas_grammar_free` from any thread | interleavings, frees that cross parses, panics, lock waiting |
| continued strings (`fixedCheck`, `stringCheck`, `scanString`, `readContinuedString`; Go and Rust alike) | the cursor (offset, row, column), the value, a pending surrogate | one turn of the loop per element of the literal | two walks of one string that must agree, surrogates across continuations, positions |
| requireValue and `hasValue` | the scan's index | the guard, one turn per character or comment | a second reader of trivia that must agree with the lexer, in two option settings and three ports |
| install (plugin body, `json5`, `plugin`) | the engine's rule alternates, after-open actions, the wrapped `start` or the decoration | one install | a second install on one instance |
| C ABI accept reply (`acceptDoc`, `jsonUnsafe`, `unsafeWalk`; `go/clib/core.go`) | the walk's `onPath` and its recursion | one step per item of a container | shared and cyclic values, slices that share an address, what encoding/json would emit falsely |
| identifier names (`textCheck`, pair's after-open action, `decodeIdentifierName`) | the decoder's cursor and output, the token, the rule's key | check, decode, write back | a key judged in two places, escapes, three ports' characters |
| number literals (`parseUppercaseHex`, `radix_literal_value`, `digits_to_f64`) | the digits taken | convert | one rounding, ties decided by digits out of sight, saturation |
| grammar text, option defaults | data | - | meaning lies in the external engine |
| release (`release.yml`, `crates-release.yml`; by hand `make publish-go`, `make publish-ts`, `npm run repo-tag`) | npm, the `ts/v` and `go/v` tags, crates.io, main | a run's steps; dispatch, re-run; the tools run by hand | concurrent runs without a lock, other writers of the same tags, failure between publish and tag, immutable registries |
| C artifacts (`clib-release.yml`) | the GitHub Release of a tag, its assets, the Latest mark | draft, attach, strip, check, publish | runs that cross on one draft, queries that go unanswered, failure part way |
| port dependency check (`tools/port-deps.cjs`) | the locals of its readers, the ports read, the problems found | read three manifests, a register; compare; exit | every way a manifest can declare a dependency, three hand-written readers, a register that must match exactly |
| embedding and translation (`ts/embed-grammar.js`, `ts/embed-translate.js`, the ports' `translate`) | the generated parts of five files and two directories | embed; edits and merges between embeds | refusals half way, escapes of three languages, files that are not taken away, lists kept by hand |
| docs tooling, other workflows | none | - | - |

How they interact. The engine (`@tabnas/parser`, external) owns the lexer, the rules and the
cursor. The plugin hangs on it by checks (`fixedCheck` ahead of every matcher, `stringCheck`
ahead of the string matcher, `textCheck` ahead of the text matcher), by rule patches and by
a guard in front of `start`/`parse`. `go/clib` builds one engine per handle and calls the Go
port's `Parse` under the instance's mutex. `json5-render` is fed by alchemy's `scan-emit`
(external). A release run publishes npm, then tags, then hands the Go tag to the C and
crates jobs. `npm run embed` writes the grammar and the translation parts into the three
ports; the port dependency check reads the ports' manifests and neither writes anything nor
meets another component. The release has more writers than the workflow's runs: the
orchestrator (admin/publish.sh, external) and the release targets of the Makefiles and of
`ts/package.json` push the same tags and publish to the same registries.

## 2. Modules and their correspondence to the code

**TreeEvents, Json5Render** (`alchemy/render.alc`). `stack` is the render's whole state with
the code's markers; the operators `Top`, `Mark`, `Done`, `Lead`, `Opened`, `Ended` are the
functions `json5-top`, `-mark`, ... one for one (`Tail5` is `json5-tail`). Each event of
`json5-event` is an action (`ArrayStart`, `ObjectStart`, `Member`, `Scalar`, `ObjectEnd`,
`ArrayEnd`), a failing arm is `Refuse`, the end of the events is `Finish`. `WriteOut` is the
external host: text is `held` until a step answers `:record-end`, then `written`. Text is a
sequence of tokens; the spelling of a scalar or key (`json5-number`, `quoted`) is one token.
A key and a string scalar that are spelled alike are the same token, so a reader has to tell
them apart by place, as it does in JSON5.

**TreeText** is the abstract specification: the text of a sequence of events, which events a
tree may hold next and what a failed run leaves, each defined by counting earlier events,
without a stack. **RenderPromise** is the refinement mapping: the text is what is written
and what is held. **JsonReader** reads a text by JSON's syntax, a token at a time, into
events; it knows nothing of the render.

**Clib** (`go/clib`). One process per host thread; `pc[t]` stands at the statement the
thread executes next, and each access to the map, to `nextID` or to a lock is an action of
its own. `Lock`/`Locked` split `RWMutex.Lock` into its announcement, which holds new readers
back, and its wait for the readers inside. `found[t]` is the `*instance` a parse holds after
it gave the read lock back, named by the handle it was stored under. `SafeParse` ends with a
value, a rejection or a recovered panic. A C buffer is "valid" or "bad" and an options text
is one of six classes that `loadGrammar` tells apart. `issued`, `retired` and `knew` are
history variables, read by no guard.

**ParserRegistry** is the abstract specification: calls that take effect at one instant.
**ClibPromise** is the refinement mapping: where a call stands and what it has answered, as
its caller sees it.

**StringLiteral** is the reference: how a literal is cut into elements, which are legal, the
code units they spell and the characters those make; it is stated over the whole literal at
once. **ContinuedString** is the program: `ScanString`, `FixedCheck`, `StringCheck` and the
turns of the reader's loop (`Close`, `Continuation`, `MappedEscape`, `HexEscape`,
`UnicodeEscape`, `UnknownEscape`, `LineInBody`, `RefuseControl`, `Ordinary`, `Unterminated`)
for a port and its string options. Where the ports differ the action says so: TypeScript
appends code units, Go and Rust hold a high surrogate (`EmitCodeUnit`); Rust moves the
cursor with the engine's `advance` at the end; TypeScript's raw line terminators are body in
a multi-line string whatever they are, Go's only below a space. PS is treated as LS
everywhere and stands for nothing of its own. `RowsEnded`, `SourceRow` and `SourceCol` of
StringLiteral are one rule for every port, that of `test/spec/strings.tsv:44-46`; where the
ports depart from it is named (`MissesRow`, `RestartsAtCR`) and shown by a run.

**RequireValue**. `Guard` and `ShortCircuit` are the wrapped `parser.start` (TypeScript),
`Parse` (Go) and `parse_with` (Rust); `Space`, `LineComment`, `InLine`, `BlockComment`,
`Unterminated`, `HasValue` and `NoValue` are `hasValue`. `Start` is what a guard wraps: the
engine's start, or, in TypeScript, where each install wraps what it finds, the guard of an
earlier install with the same options. `EngineAnswer` is the external engine, which lexes
trivia by itself (`FirstToken`).

**Release** (`release.yml` and the crates job). A run's `pc` names the workflow's next step;
`commit` is its checkout, `seen` the tags of its version at that time, `missing` and
`anchor` the outputs of the step that decides. `Stop` is a step that fails, refused or not;
`Rerun` starts the failed job over at the run's commit. npm, the tags and crates.io are
functions from versions to the commit they were built from. Beside the runs stand `Merge`
(external) and what a maintainer runs by hand: `PublishGo` (`Makefile:61-68`,
`ts/Makefile:40-46`), which tags any version as Go's at a new commit and pushes the tag
even where main refuses the commit (`stray`), `PublishTs` (`Makefile:32-33`), and a dispatch
of the crates job alone (`DispatchCrates`). `PushTag`, which starts a run, is the
orchestrator's (external) and `npm run repo-tag`'s. `byHand` is a history variable: the
versions `publish-go` has tagged, of which nothing is claimed but of their crates, since it
asks neither npm nor `package.json` nor ts/v.

**ClibRelease** (`clib-release.yml`). A run's `pc` names the step it executes next: `View`
and `Create` are the release job, `Attach` the shared build, `List`, `Delete`,
`CheckManifest`, `State`, `Highest` and `Publish` the lines of the publish job's script in
their order. A query that goes unanswered does what the shell makes of it: a view in an `if`
is false, a loop over nothing ends, an assignment ends the step, and the pipeline that ends
in `tail` answers nothing. `Stop` is a step that fails of itself, `Dispatch` a call, a
dispatch or a re-dispatch, `PublishByHand` the event of a Release that a maintainer
published. The Release of a version is one cell, as `gh` names it by its tag. External: the
shared build, which attaches in an order of its own, and the tags. The unsuffixed libraries
are one asset, the headers another. `byHand`, `heard` and `behind` are history variables.

**UnsafeWalk** (`acceptDoc`, `jsonUnsafe`, `unsafeWalk`). A parsed value is a heap of cells
with addresses, kinds and items, and a root. `stack` is the recursion of `container`,
`onPath` the field of that name, keyed as `pathKey` keys it. `Skip`, `BadKey`, `BadLeaf`,
`Cycle` and `Enter` are what the loops of `container`, `entries` and `structFields` do with
an item, `Leave` the return with its deferred delete, `Decide` the way out with a reason or
the recovered panic, `Reply` the choice in `acceptDoc`. encoding/json is external:
`SafeCells`, `SaidTruly` and `FirstReason` say what it would do with the value, without a
walk.

**Identifier**. `TextCheck` is the lexer's `textCheck`, `DecodeEscape`, `DecodeChar` and
`RefuseName` the turns of `decodeIdentifierName`, `WriteBack` the after-open action. The
engine's text matcher is external (`MatchText`): a run that is a value is a `#VL` token, and
the grammar's KEY set takes both kinds. Where the ports differ the action says so: Go and
Rust ask for six bytes before an escape. `IdentifierNames` is the reference: every reading
of the source as characters and escapes, kept when it is a name.

**RadixNumber**. `RoundTs`, `RoundGo` and `RoundRs` are the three conversions of an
uppercase hexadecimal literal, `TakeSign` and `TakeDigit` Rust's collection of the digits,
`LongToDouble` the long branch of `digits_to_f64`, with its head, sticky tail and carry. The
machine's widths are constants, so that every rounding case lies within a few digits;
`parseInt` and `ParseInt` are the external conversions. `Nearest` is the reference: round
half to even by the definition.

**Scanners** joins RequireValue, Identifier, RadixNumber and ContinuedString, the readers
the plugin brings beside the engine's lexer: a behaviour is one of them at work while the
variables of the others rest, so one run holds all four.

**PortFold, NpmManifest, TomlReader, CargoManifest, GoModReader, GoSourceReader, GoModule,
PortDeps** (`tools/port-deps.cjs`). `PortDeps` is the program: `running` is the function
that runs, `reader` its locals. The three readers that loop are modules of their own,
instanced with `reader` for their state: `TomlReader` is `parseToml`, a statement at a time
into a tree of tables, `GoModReader` is `parseGoMod`, a line at a time, `GoSourceReader` is
`goIgnored`, a line at a time, and then `goImports`, a token at a time. `NpmManifest` is
`readTs` and, as a reference, what npm makes of the manifest (`NpmNeeds`), `CargoManifest`
what `readRs` makes of the tree, `GoModule` the walk over the files and the imports of
`readGo`, `PortFold` the fold they share. `ReadRegister`, `Compare` and `Verdict` are
`readRegister`, `compare` and the end of `main`. A text is a sequence of statements, of
lines of tokens or of lexemes, where a piece the lexer refuses is one piece. The patterns
that take a repository's id from a name are functions on the few names used. `Compare` may
look at the dependencies in any order, since the code's order decides only that of the
report.

**EmbedGrammar, Embed**. `EmbedGrammar` holds the texts of `ts/embed-grammar.js` (`embed`,
`tsContent`, `goEscape`, ...) and, external, what the compiler of each port reads back
(`CompiledTs`, `CompiledGo`, `CompiledRs`). A text is a sequence of lexemes: each character
with a meaning in one of the languages, and the markers. `Embed` is `npm run embed` step by
step: an action per file that takes the grammar or the parts, one (`CopyParts`) for the
copies of all parts into Go and Rust, and `Stop` where it ends early with what it has
written; `part`, `Generated` and `CopyParts` are those of `ts/embed-translate.js`. Between
two runs people edit the grammar, the manifest and `alchemy/`, lose a marker, and merge
(external). `TranslateCopied` is what Go and Rust return: their parts are lists written by
hand over the files copied. `Suite` is the test of each port that holds the parts to the
repository. Assumed: the grammar holds neither a marker nor a lone CR, and `rs/` is checked
out.

The MC modules hold bounds, the finite sets of inputs and the properties that need a second
module.

## 3. Runs

| run | instance | what it shows |
|---|---|---|
| `render` (MCJson5Render.cfg) | all sequences of at most 8 events, 2 scalars, 1 key, the key spelled like a scalar | `WritesTheTree`: the render with its host implements TreeText. `ReadsBack`: a reader built from JSON's syntax alone reads the text back into the events. `WholeRecords`: whatever a failed run has written is cut between two values of the root. These and `NothingHeldBetweenRecords`: proved as well. |
| `clib` (MCClib.cfg) | 3 threads (symmetric), 2 handles | `CallsAreAtomic`: Clib implements ParserRegistry. This, `NoMapRace`, `OneParsePerEngine`, `FreedHandleAnswersNothing`, `HandlesAreFresh`: proved as well. |
| `clib_returns` (MCClibReturns.cfg) | 3 threads, 1 handle, fairness | `EveryCallReturns`. |
| `scanners` (MCScanners.cfg) | one of four readers at a time, each in three ports: keys of 1 to 4 pieces of 14; literals of 1 to 5 digits of 4, every sign, on a double of 5 bits, a head of 3 digits and an int64 of 8 bits; sources of 0 to 5 characters of 6, four option settings, one guard or two; every string of 1 to 3 pieces of 17, two quotes, three endings, two option sets; fairness | `NamesAndOnlyNames`, `KeyIsTheName` (Identifier). `RoundsOnce` (RadixNumber). `AnswersAreTheSpecified` (RequireValue): a source without a value is answered as `test/spec/options.tsv` says, in every port, and where the lexer finds a value or an error, that is the answer. `ReadsExactlyTheLiterals`, `ValueIsTheLiterals`, `ClosesAtTheClosingQuote`, `PositionIsTheSources` (ContinuedString): the row and column are the source's by one rule for all ports, wherever no raw LS or PS has been missed. All eight proved as well. `EveryStringIsDecided`. |
| `continued_rows` (MCContinuedString.cfg) | the strings of `scanners`, 1 to 2 pieces | `RowsAreTheSources`, which makes no exception: expected violation, finding 3 |
| `radix_wide` (MCRadixNumberWide.cfg) | the literals of `scanners`, 1 to 3 digits | expected violation, finding 2 |
| `unsafe_walk` (MCUnsafeWalk.cfg) | two containers, the first a pointer, ordered map or slice, the second a map, up to two items each, referring to each other, themselves and leaves of every sort; three slices of which two share an address | `ValueIffSaidTruly`, `WalkClears`, `PathIsTheStack`, `ReasonIsTheFirst`: proved as well. `WalkEnds`. |
| `clib_release` (MCClibRelease.cfg) | 2 runs, 2 versions, fairness | `PublishedHasManifest`, `NoStraysLeft`, `BackfillIsNeverLatest`: proved as well. `DraftsAreFinished`. |
| `release` (MCRelease.cfg) | 2 runs (symmetric), 3 commits, 2 versions, with the orchestrator and the tools run by hand | `TagsNameOneCommit`, `TagsNameTheirVersion`, `GoTagsAreOnNpm`, `CratesAreTheTags`: proved as well. |
| `release_repair` (MCReleaseRepair.cfg) | 2 runs, 2 commits, 1 version, the runs alone | expected violation, finding 1 |
| `port_deps` (MCPortDeps.cfg) | one manifest at a time, over every one the samples make up: every package.json of two keys in four sections, every Cargo.toml of up to 3 statements after its head, every Go header of up to 3 items and import part of up to 2; or three small manifests against every register of a few entries | `CargoDependenciesAreTheDeclared`, `GoDependenciesAreTheDeclared`: what each reader finds is what the text declares, said in labels beside the samples and read without a walk. `ExitTellsTheTruth`: the code is 0, 1 or 2 as the repository is, by the labels too. `NpmDependenciesAreTheDeclared`, by what npm makes of any package.json, and `VerdictIsAgreement`: proved as well. |
| `embed` (MCEmbed.cfg) | 12 grammars with every escape beside every other, three alchemy files, up to 3 edits, merges and lost markers, any number of embeds | `PortsReadTheGrammar`, `OnlyBetweenTheMarkers`, `SuitesHoldTheTranslations`: proved as well. |

The type invariants (`TypeOK` of Json5Render, Clib, Release, UnsafeWalk, ClibRelease) and
`StackShape` are proved, and no run checks them again.

Why the bounds are enough. Eight events reach three nested containers, two records each with
a container in it, and every marker under every other. Two handles are what a reuse needs
(load, free, load), and three threads what a crowd needs: one parsing, one waiting, one
freeing. `MaxHandles` bounds loads only; frees and parses are unbounded. A piece is an
escape, half an escape, a continuation or half a surrogate pair, so three pieces hold a pair
split by a continuation, an escape cut by one, and an escape between the halves of a pair.
Five characters hold the overlapping comment `/*/`, a comment followed by a value, and a
terminator inside a line comment. Three commits are the commit of a release, the later main
that a repair sees, and one that `publish-go` makes between them or beside main; two runs
race, and each may fail and re-enter after the other has gone on. Five digits over a head of
three hold a tie, a tail that decides it, a carry, saturation and the overflow to Infinity.
Two containers hold a cycle through both and sharing without one; the third slice tells a
container from a shorter slice of it. Four pieces hold a whole escape spelled as two halves
with a character on either side, or two escapes. Three statements hold a header, a key
under it and a second statement that reopens, extends or contradicts it; three header items
hold a comment, what follows it and a blank line; two imports a group and its neighbour. The
samples vary one manifest while the others are plain, since no reader knows of another.
Three edits hold a part that is changed, and one that is emptied or renamed, before and
after an embed, together with a merge. Two runs hold every crossing of a pair, two
versions a backfill.

Deadlock checking is off where the system ends by design: a document finished or failed, a
string decided, a source answered, a value replied to, every run of a release done. The
registry never stops and is checked for deadlock, as are the port dependency check, whose
end is a step of its own, and the embed.

### Fairness

- Clib: `WF` on a thread's own steps (a thread inside a call is scheduled, an engine's parse
  ends) and `SF` on acquiring a lock: Go's `sync.Mutex` hands over to a waiter that starves,
  and `RWMutex.Lock` and `RLock` alternate. No fairness on making a call: a host need never
  call. `EveryCallReturns` is stated for one thread, since nothing tells them apart.
- Scanners (on `ReadString` alone) and UnsafeWalk: `WF` on the loop of a sequential
  function, which runs until it returns.
- ClibRelease: `WF` on a run's steps (a started job proceeds) and on the dispatch of a
  failed run again, as the workflow's comment asks, and `SF` on attaching the manifest: the
  build attaches it in the end, however often a run is started over. `DraftsAreFinished` is
  stated under the premise that steps stop failing of themselves.
- The other modules have no liveness property: the host may stop feeding events, a release
  run may fail for ever, the port dependency check is a handful of loops over finite texts.

### Findings

1. `release_repair`: with no tag seen, `ANCHOR` is `HEAD` although npm may have the version,
   published by a run that has not tagged yet or failed before it (`release.yml:163-165`).
   After main moves on, a new dispatch tags a commit that npm's package was not built from,
   and the crate follows the tag. `release.yml:158` says a repair must name the commit the
   release happened at, `crates-release.yml:31` that the crate is built from the commit npm
   serves. A re-run of the failed job, which keeps its commit, does not do this.
2. `radix_wide`: Go's `parseUppercaseHex` drops the error of `ParseInt` (`go/json5.go:757`),
   so a literal of 2^63 or more becomes 2^63-1, rounded, where `test/spec/numbers.tsv:28`
   says it is rounded once from the exact integer, as TypeScript and Rust do.
3. `continued_rows`: a raw LS or PS in a string that also holds a continuation ends no row
   in TypeScript (except in a multi-line string) nor in Go (in none), so every later row is
   one less than the source's. `test/spec/strings.tsv:44-46` says a row is counted at LF, LS
   and PS, inside a string or out, `ts/src/json5.ts:295-297` and `go/json5.go:129-130` that
   the rows after the string are the source's own. Rust's reader counts it.

Seen while modelling, without a run of its own:

- In a multi-line string TypeScript and Go count columns anew at a raw CR, though it ends no
  row; `PositionIsTheSources` claims no column from there to the row's end (`RestartsAtCR`).
- `make publish-go` tags `go/v` at a commit that ts/v need not name, of any version, with
  nothing on npm (`Makefile:61-68`, `ts/Makefile:40-46`), and the tag stands where the push
  to main is refused. What `release.yml` promises of Go tags holds of those its runs write.
  The crates job still refuses such a tag where its commit names another version.
- `parseToml` is looser than TOML in one thing: a dotted key may go down into a table
  that a header of its own has opened (`tools/port-deps.cjs:367-382`): `[dependencies.x]`,
  then `[dependencies]` and `x.optional = false` is read, where Cargo refuses the manifest.
  The labels of MCPortDeps have it as the code does, and claim nothing of Cargo there.
- An unquoted key that is a value (`-Infinity`, `0X1F`) is taken as it stands, since the KEY
  set holds `#VL` and the after-open action decodes text alone; `ts/doc/concepts.md:67` has
  keys be identifier names. `NamesAndOnlyNames` is stated of the runs that are no value.
- The reason `jsonUnsafe` gives depends on iteration order where a map's keys are not
  strings, though the comment at `core.go:436` says it never does. `ReasonIsTheFirst` says
  what is left for such a map: the reason is that of some place in the value, and there is
  none only where no place has one.
- `clib-release.yml` reads the highest tag and edits the Release in two steps: a tag pushed
  in between leaves Latest to the older one for the time being. `BackfillIsNeverLatest` is
  stated of what was ahead when the run started.
- Its query of `isDraft`, unanswered, ends the step well and leaves a draft
  (`clib-release.yml:119`), and two runs that cross on a tag can each fail over a stray that
  the other removed. `DraftsAreFinished` excepts both.

## 4. Proofs

Checked by TLAPS for every value of the constants, from the modules' named assumptions only:

- the spellings are not punctuation; `MaxEvents` and `MaxHandles` are natural numbers;
  `NoThread` is not a thread;
- a value has finitely many cells, its root and items are cells or leaves, no cell is a
  leaf or `absent`, items are numbered, and no two containers share address, length and
  type: they would be one;
- a source begins with its opening quote (`IsSource`), and a reader is one of the three
  ports with its options;
- versions are natural numbers, 1 among them;
- a grammar is a finite text that holds neither of the markers, and the first grammar is
  one of them;
- a run the lexer judges as a key is not empty, and a source handed to the guard is made of
  the six classes of characters that `hasValue` and the lexer tell apart;
- a literal is a run of digits, and the head that `digits_to_f64` takes is wide enough for
  the mantissa and two more digits: `Precision + 2 * Bits < HeadWidth + 2` (in the code,
  53 + 8 < 130);
- a repository has no manifests but those of the three ports, and a specifier of a
  package.json that `readTs` understands is a sequence of strings, the pieces it is cut
  into.

TLC evaluates each on the instance of its run.

**Json5RenderProofs.** `StackKeepsItsShape` (`[](TypeOK /\ StackShape)`) and
`RecordsAreWrittenOut` (`[]NothingHeldBetweenRecords`). The invariant is `TypeOK /\
StackShape /\ NothingHeldBetweenRecords`. The record property alone is not inductive: when a
container closes, what decides whether the host may hold text is the marker below, and only
the stack's shape says that this one is suspended inside a value. The lemmas follow the
code's helpers (what popping, marking, opening and completing do to a stack of the right
shape), and there is one case per event.

`TextReadsBack` and `FailuresLeaveWholeRecords` hold the text against JSON's syntax. Their
invariant, `RInv`, says where a reader of the text so far would stand: inside the same
containers as the stack names, having read the events taken, and wanting next what the top
marker says. That the reader is a fold over the tokens is what lets a step go on from where
the last one stopped. A failed run has left what the host wrote at the last record's end, so
the failure needs the record property above and what the reader wanted at that moment.

`TextIsTheTrees` is the refinement, `WritesTheTree`. The stack forgets the events, and
TreeText counts them without a stack, so the invariant `TInv` ties the two: for each open
container the stack says what the events say of it, the event that began it, and whether a
key or a value has begun in it since (`Nested`). From it follow, event by event, that the
arm that takes an event is the one TreeText has for it, that an event fails exactly when no
tree may hold it, and that a record ends exactly when the events say so.

**ClibProofs.** `MapIsNeverRaced`, `EnginesRunOneParse`, `FreedHandlesStayFreed`,
`LoadsIssueFreshHandles`, for any number of threads and handles. The invariant joins four
parts that each name who owns what: the lock's discipline (the readers are exactly the
threads reading, a thread writing is the announced writer and alone), the engine's (a thread
on an engine found an instance whose mutex is locked, and no other thread has the same), the
handles' (those issued are those counted, save the one being stored) and the retired
handles' (issued, no longer loaded, so never loaded again, since a load stores a fresh one).
`FreedHandleAnswersNothing` needs the last two together: that a freed handle stays dead
follows from freshness, not from the free.

`CallsTakeEffectAtOnce` is the refinement, `CallsAreAtomic`. A load takes effect where it
stores its parser, a parse where it looks the handle up, a free where it deletes it; the
steps between, the locks' and the counting, are stutters of the registry. `IssueInv` makes
the handle stored a fresh one, and `BoundInv`, that the loads on their way and the handles
issued together stay within `MaxHandles`, makes it one that the registry may still give out.
A parse that has found its instance answers whatever becomes of the handle since, in the
code as in the registry.

**UnsafeWalkProofs.** `WalkIsTyped`, `WalkKeepsItsPath`, `WalkClearsOnlyTheSafe` and
`RepliesSayTheValueTruly`, for any heap. The third is a statement about every path through a
heap of any shape, and the walk never looks at a path twice: the invariant `Progress` says
that an item the walk has passed is safe or leads to a container that is finished and safe,
or to one still on the stack, and finishing a container turns it into the first kind,
because the set of safe containers is closed. `PathIsTheStack` comes first: it is what tells
that leaving one container unmarks that one alone. `RepliesSayTheValueTruly` adds the other
half, that no value is refused without cause: `Blame` says that each container on the stack
is one emission reaches, inside those below it, and that a reason given is one emission
would meet, a leaf, a key or a cycle through the container it leads back to. So the reply
has the value exactly when the value can be said as it is.

`ReasonsComeFirst` is about which reason is given. The reference, `FirstReason`, is the
least of all paths through the value in the order encoding/json emits them; the walk has
only its calls. `Route` ties the two: there is a path whose steps lead through the
containers of the open calls, in each call the items left are those behind the path's step,
and no place emitted before has a reason. The order of paths is total (`BeforeIsTotal`), so
the place the walk stops at is the first with a reason, and when it returns from the root
there was none. Where a map's keys are not strings the walk takes its items in any order,
and only what holds in every order is claimed.

**ContinuedStringProofs.** `TokensAreTheLiterals`, `ClosedAtTheQuote`,
`PositionsAreTheSources` and `ValuesAreTheLiterals`, for strings of any length. The string
is cut three times: by the program's scan (`Found`), by the reader's loop, and by the
reference (`StartsFrom`). Three invariants build on each other. `ReaderInv`: the loop stands
where the reference and the scan go on from, every element before it was legal and none the
closing quote, and the scan has found nothing forbidden ahead. `PositionInv`: the row and
column are those of the source up to the cursor, by the rule that is the same for all ports,
unless the port has passed a raw LS or PS without counting it (`MissesRow`); the column,
unless it has also been counted anew at a raw CR (`RestartsAtCR`). `ValueInv`: what has
been said, with the half that is held back, is what the elements before the cursor spell.
The lemmas say what the recursive functions compute for strings of every length, by the
least place at which the claim would fail. Together the three are `StringInv`, and
`ScannersProofs` carries the four theorems over to `ScannersSpec`, where TLC checks their
properties: `Scanners` takes the reader from this module, so that they can be cited.

**ReleaseProofs.** `TagsAgree`, `TagsNameVersions`, `GoTagsFollowNpm`,
`CratesFollowTheTags`, for any number of runs, commits and versions, with or without the
orchestrator and the tools run by hand. No run holds a lock, so the invariant rests on what
is never undone: tags are written once, so what a run saw of them at its checkout still
stands (`SeenInv`), its decision is a function of what it saw (`DecidedInv`), it tags only
what npm has (`TagInv`), and the tag the crates job accepted still names its version
(`AcceptedInv`). `GoHasTs`, that no Go tag stands without its ts/v tag, is the strengthening
that covers a run asked for ts/v alone and the orchestrator and repo-tag, which push ts/v
without looking at go/v. `publish-go` breaks it for the version it tags, so the first three
theorems leave its versions out: they say what the workflow's own tags keep to, whatever
else is tagged; the fourth holds of every version. `TagsChange` sums up the ways a version's
tags are written, and the properties follow from it.

**ClibReleaseProofs.** `PublishedReleasesLoad`, `SucceededRunsLeaveNoStray`,
`BackfillsNeverTakeLatest` and `ReleaseIsTyped`, for any number of runs and tags. The
invariant says who owes what: a stray on a Release is owed by a run at its tag that has
still to list or to remove it, has failed or was not answered (`StrayInv`), a run that has
seen the manifest relies on its staying (`ManifestInv`), and what was ahead of a run still
is (`BehindInv`).

**ScannersProofs.** The four readers, each with the invariant of the one at work; the
string's is `StringInv`, and its four theorems have the names they have in
ContinuedStringProofs.

`AnswersSpecified` (`GInv`): from the place where the scan stands the lexer's first token is
the one it finds from the front, so an answer from there is the answer of the whole source.
A comment is skipped by both to the same place, a `#` only where both take it for a comment.
An earlier installation's guard is handed the source as it was, or an empty one in its
place when nothing was found. Taking less for a comment can only find more: where no value
is found without hash comments, none is found with them (`HashOnly`).

`OnlyNames` and `KeysAreNames` (`NInv`): the reference is the set of all readings of the run
as characters and escapes, in three ports' characters; the decoder keeps one. `SpeltAs` says
that every reading starts with the name so far and goes on with one of what is left, and
that the name so far is allowed. A piece that cannot go on, or a character that is not
allowed, leaves no name at all (`NoNameBehind`), which is what refusing says.

`LiteralsAreRoundedOnce` (`DInv`): Rust collects digits, drops leading zeros, takes those
that fit the head and folds the rest into one sticky bit, and rounds by the bit below the
mantissa. The number is cut at the head (`PackOfBoth`, `Cut`) and at the mantissa: it is
`M * 2^k` and a rest, the doubles next to it are `M * 2^k` and `(M + 1) * 2^k`, no double
lies between (`NoDoubleBetween`), and half a step decides (`RoundedByHalf`). A head wider
than the mantissa and two digits is what makes the sticky bit lie below the half
(`LongRounds`). The products and powers are handled by lemmas of their own (`Powers`,
`PowersGrow`), since the SMT solver decides linear arithmetic alone. What TypeScript's
`parseInt` and Go's `ParseInt` do is external and correct by definition of the model; the
theorem is about what the ports make of it, and, for Go, of integers that fit.

The reference definitions are recursive functions that look ahead of themselves;
`AheadExists` and `ChainsExist` prove that such functions exist, so that their equations may
be used for sources of every length.

**PortToolsProofs.** `GreenSuitesAgree`, `PortsReadWholeGrammars` and
`EmbedsBetweenTheMarkers`, for any grammars, texts and number of edits. What an embed wrote
goes stale with the next edit and a copy is never taken away, so the suites alone do not say
that the ports agree: `KeptInv` says what the last embed that ended well has made of the
inputs, and how far the one under way has come; the suites decide the rest, that the lists
written by hand are the manifest's and the files copied those it names.

`FilesInv` does the same for the grammar: a source has lost its END marker, or is the
declaration of one grammar between its markers, one that was there when an embed ran; the
embed under way has put the current grammar into the ports it is past, one that ended well
into all. That such a source is read back as that grammar is a fact about texts: what the
replaces of `embed-grammar.js` make of a grammar of any length, and what a compiler that
goes through it character by character makes of that. Both are proved by the first place at
which they would differ (`TsReads`, `GoReads`, `RsReads`). Rust's raw string needs that the
grammar holds no `"#`, which the code checks before it writes.

`VerdictsTellAgreement`, for any repositories, manifests and registers.
`VerdictIsAgreement` is a statement of the last state about all that was compared, and the
program forgets each dependency once it is looked at: `FoundInv` says that the problems
found are those of the names, of the register's shape and of every dependency no longer to
do, in whatever order they were taken. `PortsInv` says that no port is passed over: each
manifest there is was read, is being read or lies ahead of the function that runs. The rest
is `FaultlessAgrees` and `AgreementIsFaultless`: that a repository without faults agrees,
and one that agrees has none, by the register's entries and the ports' lists, not by a walk.

`NpmNeedsAreRead`, of every package.json (`NpmDependenciesAreTheDeclared`): the ts port is
said to need what npm would install. `NpmNeeds` says so a repository at a time, by the keys
that stand for it, an alias by the package before its last `@`; `readTs` folds over lists of
names. `TsInv` says that the ts port is what `readTs` made of the manifest, whatever is read
after it, `TakenInv` that it is read wherever its manifest can be.

### Only model-checked

- Liveness (`EveryCallReturns`, `EveryStringIsDecided`, `WalkEnds`, `DraftsAreFinished`):
  fairness and ENABLED are beyond the prover.
- `CargoDependenciesAreTheDeclared`, `GoDependenciesAreTheDeclared`, `ExitTellsTheTruth`:
  they are stated over samples, each beside a label of what it declares, and say nothing of
  a text that has no label. For the verdict `VerdictsTellAgreement` is the general
  statement; the readers of Cargo.toml and of Go's files have none yet.

## 5. What is not modelled, and why

- The engine and the grammar it is given: not in this repository.
- Install: a single installation edits the engine's rule objects once; what a second one
  finds there is decided by the engine's merge of options and alternates. Only the guards
  that a second install with the same options stacks are modelled.
- The error replies of `go/clib`, and whether marshalling after the mutex is given back
  (`core.go:246`) is safe: it is listed as a hazard, and hangs on whether the engine keeps
  what it returned.
- The spelling of numbers and strings in the render: alchemy's `scalar-text` and `quoted`.
- The crates job's manifest rewrite and sibling lookup, and the late attachment of darwin
  artifacts, which is another repository's workflow.
- The command line and the report's wording of the port dependency check, and how
  characters make up the tokens of its readers.
- The syntax of `tabnas.plugin.json`, and what `alchemy/transduce.alc` does: the ports only
  carry its text.
- Documentation tooling, the generator of expected values and the checking workflows, which
  keep no state and decide nothing the program relies on.

## 6. Plan

In order; the first group is what this directory holds.

1. Done: Json5Render with TreeText, Clib with ParserRegistry, both refinements proved;
   ContinuedString with StringLiteral and proofs; RequireValue; Release with proofs;
   UnsafeWalk with proofs; Identifier and RadixNumber, with RequireValue proved in
   ScannersProofs; ClibRelease with proofs; PortDeps with its readers and the proofs about
   its verdict and the ts port; Embed with proofs.
2. The crates job in full: the manifest rewrite and the wait for sibling crates, as an
   extension of Release.
3. `Install`: the plugin's patches on an engine instance, if the engine's merge can be
   pinned down from how the code in `src/` uses it.
4. Proofs: references for the readers of Cargo.toml, go.mod and Go's imports that are
   stated of every text rather than of labelled samples, and the readers held against them.
