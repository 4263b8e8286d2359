------------------------------- MODULE PortDeps -------------------------------
(***************************************************************************)
(* tools/port-deps.cjs run as a program: the three manifests are read, one *)
(* statement, line or token at a time, then the register, and the ports'   *)
(* runtime dependencies are compared, one dependency at a time.            *)
(* Exit 0: the ports agree or every difference is registered; 1: there is  *)
(* a problem; 2: something could not be read.                              *)
(***************************************************************************)
EXTENDS NpmManifest, CargoManifest, GoModule, TLC

CONSTANT Repos      \* the repositories the program is pointed at

ASSUME ReposAssumption ==
  \A r \in Repos :
    /\ DOMAIN r.manifests \subseteq {"ts", "go", "rs"}
    /\ "ts" \in DOMAIN r.manifests /\ TsUnderstood(r.manifests.ts) =>
         \A s \in Sections : \A key \in DOMAIN r.manifests.ts.sections[s] :
           r.manifests.ts.sections[s][key] \in Seq(STRING)

VARIABLES
  repo,             \* the one of this run
  running,          \* the function that is running
  reader,           \* its locals, while it is one of the line or token readers
  go,               \* what readGo has gathered: go.mod and the imports so far
  goFiles,          \* the Go files still to be read
  ports,            \* what readRepo has so far: ports by name
  todo,             \* the dependencies compare has still to look at
  problems,         \* what compare has found wrong
  exit              \* the exit code, None while the program runs

depsVars == <<repo, running, reader, go, goFiles, ports, todo, problems, exit>>

Toml  == INSTANCE TomlReader
GoMod == INSTANCE GoModReader
GoSrc == INSTANCE GoSourceReader

Idle == [ok |-> TRUE]

DepsInit ==
  /\ repo \in Repos
  /\ running = "main"
  /\ reader = Idle /\ go = Idle /\ goFiles = <<>>
  /\ ports = [p \in {} |-> Idle]
  /\ todo = {} /\ problems = {} /\ exit = None

-----------------------------------------------------------------------------
(* Any throw ends the program with exit code 2.                            *)
Exit(code) ==
  /\ running' = "end" /\ exit' = code
  /\ UNCHANGED <<repo, reader, go, goFiles, ports, todo, problems>>

Has(port) == port \in DOMAIN repo.manifests

(* The reader of the next port starts, or the register's when there is     *)
(* none: readRepo takes the ports in the order ts, go, rs.                 *)
Enter(port) ==
  /\ running' = port
  /\ reader' = CASE port = "go" -> GoMod!StartGoMod(repo.manifests.go.mod)
                 [] port = "rs" -> Toml!StartToml(repo.manifests.rs)
                 [] OTHER       -> Idle

Later == [none |-> {"ts", "go", "rs"}, ts |-> {"go", "rs"}, go |-> {"rs"}, rs |-> {}]

EnterAfter(port) ==
  LET next == {p \in Later[port] : Has(p)}
  IN  \/ next = {} /\ running' = "register" /\ reader' = Idle
      \/ \E p \in next : (\A q \in next \ {p} : q \in Later[p]) /\ Enter(p)

ReadPort(name, port) ==
  /\ ports' = [p \in DOMAIN ports \cup {name} |-> IF p = name THEN port ELSE ports[p]]
  /\ EnterAfter(name)
  /\ UNCHANGED <<repo, todo, problems, exit>>

-----------------------------------------------------------------------------
(* main: a DIR that is not a directory would otherwise pass as "no port".  *)
Main ==
  /\ running = "main"
  /\ \/ ~repo.directory /\ Exit(2)
     \/ /\ repo.directory /\ EnterAfter("none")
        /\ UNCHANGED <<repo, go, goFiles, ports, todo, problems, exit>>

PackageJson ==
  /\ running = "ts"
  /\ LET pkg == repo.manifests.ts
     IN  \/ ~TsUnderstood(pkg) /\ Exit(2)
         \/ TsUnderstood(pkg) /\ ReadPort("ts", ReadTs(pkg)) /\ UNCHANGED <<go, goFiles>>

(* A step of the reader that is running: of its locals and nothing else.   *)
Reading == UNCHANGED <<repo, running, go, goFiles, ports, todo, problems, exit>>

GoModLine == running = "go" /\ GoMod!GoModStep /\ Reading

GoModEnd ==
  /\ running = "go" /\ reader.ok /\ reader.rest = <<>>
  /\ \/ ~GoMod!GoModComplete /\ Exit(2)
     \/ /\ GoMod!GoModComplete
        /\ go' = StartGo([module |-> reader.module, requires |-> reader.requires])
        /\ goFiles' = GoFiles(repo.manifests.go.files)
        /\ running' = "goFiles" /\ reader' = Idle
        /\ UNCHANGED <<repo, ports, todo, problems, exit>>

NextFile ==
  /\ running = "goFiles" /\ goFiles # <<>>
  /\ running' = "goSource" /\ reader' = GoSrc!StartHeader(Head(goFiles).text)
  /\ UNCHANGED <<repo, go, goFiles, ports, todo, problems, exit>>

GoHeaderLine == running = "goSource" /\ GoSrc!HeaderStep /\ Reading

GoHeaderEnd ==
  /\ running = "goSource" /\ GoSrc!HeaderRead
  /\ IF GoSrc!Ignored(reader)
     THEN /\ goFiles' = Tail(goFiles) /\ running' = "goFiles" /\ reader' = Idle
     ELSE /\ reader' = GoSrc!StartImports(Head(goFiles).text)
          /\ UNCHANGED <<goFiles, running>>
  /\ UNCHANGED <<repo, go, ports, todo, problems, exit>>

GoToken == running = "goSource" /\ GoSrc!ImportStep /\ Reading

GoFileEnd ==
  /\ running = "goSource" /\ reader.proc = "goImports" /\ reader.ok /\ reader.want = "done"
  /\ LET after == TakeImports(go, Head(goFiles), reader.out)
     IN  \/ ~after.ok /\ Exit(2)
         \/ /\ after.ok
            /\ go' = after /\ goFiles' = Tail(goFiles)
            /\ running' = "goFiles" /\ reader' = Idle
            /\ UNCHANGED <<repo, ports, todo, problems, exit>>

GoEnd ==
  /\ running = "goFiles" /\ goFiles = <<>>
  /\ ReadPort("go", GoPort(go))
  /\ UNCHANGED <<go, goFiles>>

CargoStatement == running = "rs" /\ Toml!TomlStep /\ Reading

CargoEnd ==
  /\ running = "rs" /\ reader.ok /\ reader.rest = <<>>
  /\ \/ ~Understood(reader.doc) /\ Exit(2)
     \/ Understood(reader.doc) /\ ReadPort("rs", ReadRs(reader.doc)) /\ UNCHANGED <<go, goFiles>>

Unreadable == running # "end" /\ ~reader.ok /\ Exit(2)

Ended == running = "end" /\ UNCHANGED depsVars

-----------------------------------------------------------------------------
(* The register.  One that does not exist records nothing.                 *)
NoEntries == [i \in {} |-> Idle]
Absent    == [object |-> TRUE, extra |-> FALSE, note |-> "string", differ |-> NoEntries]
Register  == IF ~repo.register.exists THEN Absent ELSE repo.register.value
Trusted   == Register.object /\ Register.differ # NotAnObject
Differ    == IF Trusted THEN Register.differ ELSE NoEntries

Present   == DOMAIN ports
Sorted(P) == SelectSeq(<<"go", "rs", "ts">>, LAMBDA p : p \in P)
With(id)  == {p \in Present : id \in ports[p].runtime}
Needed    == UNION {ports[p].runtime : p \in Present}
Differs(id) == id \in Needed /\ With(id) # Present

Problem(about, what) == [about |-> about, what |-> what]

(* Mutant: a port that names no repo is only left out of the comparison.   *)
NameProblemsOfNamed ==
  LET named == {p \in Present : ports[p].id # None}
  IN  {Problem("ports", "disagree on the repo id") : p \in
         {q \in named : \E r \in named : ports[q].id # ports[r].id}}

(* The names: each port names a repo, and the same one.                    *)
NameProblems ==
  LET named == {p \in Present : ports[p].id # None}
  IN  {Problem(p, "names no repo") : p \in Present \ named}
      \cup {Problem("ports", "disagree on the repo id") : p \in
              {q \in named : \E r \in named : ports[q].id # ports[r].id}}

ShapeProblems ==
  {Problem("register", what) : what \in
     {w \in {"not an object", "unknown key", "note is not a string", "differ is not an object"} :
        \/ w = "not an object" /\ ~Register.object
        \/ w = "unknown key" /\ Register.object /\ Register.extra
        \/ w = "note is not a string" /\ Register.object /\ Register.note = "other"
        \/ w = "differ is not an object" /\ Register.object /\ Register.differ = NotAnObject}}

(* readRegister, and the start of compare: the names, the register's shape *)
(* and the dependencies to look at.                                        *)
ReadRegister ==
  /\ running = "register"
  /\ \/ repo.register.exists /\ ~repo.register.readable /\ Exit(2)
     \/ /\ repo.register.exists => repo.register.readable
        /\ running' = "compare"
        /\ problems' = NameProblems \cup ShapeProblems
        /\ todo' = Needed \cup DOMAIN Differ
        /\ UNCHANGED <<repo, reader, go, goFiles, ports, exit>>

EntryProblems(id) ==
  LET entry == Differ[id]
  IN  IF ~entry.object THEN {Problem(id, "the entry is not an object")}
      ELSE {Problem(id, what) : what \in
              {w \in {"unknown key", "ports", "no reason", "no repair"} :
                 \/ w = "unknown key" /\ entry.extra
                 \/ w = "ports" /\ entry.ports # Sorted(With(id))
                 \/ w = "no reason" /\ entry.reason = "blank"
                 \/ w = "no repair" /\ entry.repair = "blank"}}

(* Mutant: an entry of the register is looked at only where there is a     *)
(* difference.                                                             *)
ProblemsOfDifferences(id) ==
  CASE id \notin DOMAIN Differ /\ Differs(id) -> {Problem(id, "not registered")}
    [] ~Differs(id)                          -> {}
    [] OTHER                                 -> EntryProblems(id)

(* The body of compare's loop: a difference needs a sound entry, an entry  *)
(* needs a difference.  The code takes the names in their order, on which  *)
(* nothing depends.                                                        *)
ProblemsOf(id) ==
  CASE id \notin DOMAIN Differ /\ Differs(id)  -> {Problem(id, "not registered")}
    [] id \notin DOMAIN Differ /\ ~Differs(id) -> {}
    [] id \in DOMAIN Differ /\ ~Differs(id)    -> {Problem(id, "no longer differs")}
    [] id \in DOMAIN Differ /\ Differs(id)     -> EntryProblems(id)

Compare ==
  /\ running = "compare"
  /\ \E id \in todo :
       /\ problems' = problems \cup ProblemsOf(id)
       /\ todo' = todo \ {id}
  /\ UNCHANGED <<repo, running, reader, go, goFiles, ports, exit>>

Verdict == running = "compare" /\ todo = {} /\ Exit(IF problems = {} THEN 0 ELSE 1)

-----------------------------------------------------------------------------
(* What the code's loop looks for, wherever it is in it.                   *)
Looked == Needed \cup DOMAIN Differ
Faults == NameProblems \cup ShapeProblems \cup UNION {ProblemsOf(id) : id \in Looked}

(* The ports name one repo, the register has its proper shape, and a       *)
(* dependency that not all of them have is in it, by an entry that names   *)
(* the ports that have it, with a reason and a repair; no other is.        *)
Agreement ==
  /\ \A p, q \in Present : ports[p].id = ports[q].id /\ ports[p].id # None
  /\ Register.object /\ ~Register.extra /\ Register.note # "other"
  /\ Register.differ # NotAnObject
  /\ DOMAIN Differ = {id \in Needed : With(id) # Present}
  /\ \A id \in DOMAIN Differ :
       /\ Differ[id].object /\ ~Differ[id].extra /\ Differ[id].ports = Sorted(With(id))
       /\ Differ[id].reason # "blank" /\ Differ[id].repair # "blank"

-----------------------------------------------------------------------------
DepsNext ==
  \/ Main \/ PackageJson
  \/ GoModLine \/ GoModEnd \/ NextFile \/ GoHeaderLine \/ GoHeaderEnd \/ GoToken \/ GoFileEnd
  \/ GoEnd
  \/ CargoStatement \/ CargoEnd \/ Unreadable
  \/ ReadRegister \/ Compare \/ Verdict \/ Ended

DepsSpec == DepsInit /\ [][DepsNext]_depsVars

-----------------------------------------------------------------------------
(* Where everything could be read, every port was, and exit 0 is their     *)
(* agreement: a register that records a difference wrongly, or one that is *)
(* no longer there, passes as little as one that misses one, and one that  *)
(* is right is never blamed.                                               *)
VerdictIsAgreement ==
  running = "end" /\ exit # 2 =>
    Present = DOMAIN repo.manifests /\ (exit = 0 <=> Agreement)

(* What npm would install is what the ts port is said to need, aliases     *)
(* resolved: optional what no key that stands for it requires, dev what    *)
(* only development asks for.  And a manifest is taken, or is refused for  *)
(* its shape, never passed over (readTs).                                  *)
NpmDependenciesAreTheDeclared ==
  /\ "ts" \in Present => /\ Has("ts") /\ TsUnderstood(repo.manifests.ts)
                         /\ NpmNeeds(ports["ts"], repo.manifests.ts)
  /\ repo.directory /\ Has("ts") /\ running \notin {"main", "ts"}
       /\ TsUnderstood(repo.manifests.ts)
     => "ts" \in Present
=============================================================================
