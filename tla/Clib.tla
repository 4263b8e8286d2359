--------------------------------- MODULE Clib ---------------------------------
(***************************************************************************)
(* go/clib: the handle registry behind the C ABI, called from any number   *)
(* of host threads at once.  The registry is a map guarded by a read-write *)
(* lock; each instance carries a mutex, because the engine in it is not    *)
(* safe for concurrent Parse; an instance stays in use by a parse that     *)
(* found it even when its handle is freed meanwhile.                       *)
(*                                                                         *)
(* External, modelled from their use here: Go's sync.RWMutex (a waiting    *)
(* writer holds back new readers) and sync.Mutex, and the engine, whose    *)
(* parse accepts, rejects or panics.                                       *)
(***************************************************************************)
EXTENDS Integers, FiniteSets

CONSTANTS
  Threads,      (* the host's threads                                      *)
  NoThread,     (* nobody                                                  *)
  MaxHandles    (* bound: the loads that get as far as a handle            *)

ASSUME ThreadsAssumption == NoThread \notin Threads
ASSUME MaxHandlesAssumption == MaxHandles \in Nat

VARIABLES
  pc,           (* pc[t]: where thread t is                                *)
  arg,          (* arg[t]: the call's handle: parse's and free's argument, *)
                (* load's result                                           *)
  found,        (* found[t]: the instance a parse found; 0 for nil         *)
  reply,        (* reply[t]: the document's outcome                        *)
  readers,      (* reg: the threads that hold it for reading               *)
  writer,       (* reg: the thread that holds it for writing or has        *)
                (* announced that it will                                  *)
  nextID,
  loaded,       (* the handles in the map; an instance is named by the     *)
                (* handle it was stored under                              *)
  mu,           (* the instances whose mutex is locked                     *)
  issued,       (* history: the handles ever stored                        *)
  retired,      (* history: the handles some free has returned for         *)
  knew          (* history: knew[t]: t's parse was called with a handle    *)
                (* already retired, or its free with one already issued    *)

registry == <<readers, writer, nextID, loaded, issued>>
local    == <<arg, found, reply>>
history  == <<retired, knew>>
vars     == <<pc, local, registry, mu, history>>

Goto(t, from, to) == pc[t] = from /\ pc' = [pc EXCEPT ![t] = to]

Reply(t, r) == reply' = [reply EXCEPT ![t] = r]

-------------------------------------------------------------------------------
LockNothing(t, from, to) ==
  /\ Goto(t, from, to)
  /\ UNCHANGED <<local, registry, mu, history>>

(* sync.RWMutex.  Lock first announces the writer, which holds back every  *)
(* other writer and every new reader, then waits for the readers to leave. *)
Lock(t, from, to) ==
  /\ writer = NoThread
  /\ Goto(t, from, to)
  /\ writer' = t
  /\ UNCHANGED <<local, readers, nextID, loaded, issued, mu, history>>

(* Lock's second half: the readers that were in have left. *)
Locked(t, from, to) ==
  /\ readers = {}
  /\ Goto(t, from, to)
  /\ UNCHANGED <<local, registry, mu, history>>

Unlock(t, from, to) ==
  /\ Goto(t, from, to)
  /\ writer' = NoThread
  /\ UNCHANGED <<local, readers, nextID, loaded, issued, mu, history>>

RLock(t, from, to) ==
  /\ writer = NoThread
  /\ Goto(t, from, to)
  /\ readers' = readers \cup {t}
  /\ UNCHANGED <<local, writer, nextID, loaded, issued, mu, history>>

-------------------------------------------------------------------------------
(* tabnas_grammar, loadGrammar to safeNew: the buffer and the options are  *)
(* checked; anything but no options is refused.                            *)
TabnasGrammar(t, opts) ==
  /\ Goto(t, "idle", IF opts \in {"absent", "empty-object"} THEN "build" ELSE "return")
  /\ nextID + Cardinality({u \in Threads : pc[u] \in
       {"build", "load-lock", "load-wait", "load-count"}}) < MaxHandles
  /\ arg' = [arg EXCEPT ![t] = 0]
  /\ Reply(t, IF opts \in {"absent", "empty-object"} THEN "none" ELSE "usage")
  /\ UNCHANGED <<found, registry, mu, history>>

(* safeNew: the engine is built, or its panic is an error. *)
SafeNew(t) ==
  \/ /\ Goto(t, "build", "load-lock")
     /\ UNCHANGED <<local, registry, mu, history>>
  \/ /\ Goto(t, "build", "return")
     /\ Reply(t, "grammar")
     /\ UNCHANGED <<arg, found, registry, mu, history>>

LoadCountReusing(t) ==
  /\ Goto(t, "load-count", "load-store")
  /\ nextID' = Cardinality(loaded) + 1
  /\ UNCHANGED <<local, readers, writer, loaded, issued, mu, history>>

(* nextID++ *)
LoadCount(t) ==
  /\ Goto(t, "load-count", "load-store")
  /\ nextID' = nextID + 1
  /\ UNCHANGED <<local, readers, writer, loaded, issued, mu, history>>

(* id := nextID; loaded[id] = &instance{parse: p} *)
LoadStore(t) ==
  /\ Goto(t, "load-store", "load-unlock")
  /\ loaded' = loaded \cup {nextID}
  /\ issued' = issued \cup {nextID}
  /\ arg' = [arg EXCEPT ![t] = nextID]
  /\ Reply(t, "loaded")
  /\ UNCHANGED <<found, readers, writer, nextID, mu, history>>

-------------------------------------------------------------------------------
(* tabnas_parse: the buffer is checked, then parseWith begins. *)
TabnasParse(t, handle, buffer) ==
  /\ Goto(t, "idle", IF buffer = "valid" THEN "parse-rlock" ELSE "return")
  /\ arg' = [arg EXCEPT ![t] = IF buffer = "valid" THEN handle ELSE 0]
  /\ Reply(t, IF buffer = "valid" THEN "none" ELSE "usage")
  /\ knew' = [knew EXCEPT ![t] = buffer = "valid" /\ handle \in retired]
  /\ UNCHANGED <<found, registry, mu, retired>>

LookupOfIssued(t) ==
  /\ Goto(t, "parse-lookup", "parse-runlock")
  /\ found' = [found EXCEPT ![t] = IF arg[t] \in issued THEN arg[t] ELSE 0]
  /\ UNCHANGED <<arg, reply, registry, mu, history>>

(* g := loaded[handle] *)
Lookup(t) ==
  /\ Goto(t, "parse-lookup", "parse-runlock")
  /\ found' = [found EXCEPT ![t] = IF arg[t] \in loaded THEN arg[t] ELSE 0]
  /\ UNCHANGED <<arg, reply, registry, mu, history>>

(* reg.RUnlock(); an unknown handle ends the call. *)
RUnlock(t) ==
  /\ Goto(t, "parse-runlock", IF found[t] = 0 THEN "return" ELSE "parse-lock")
  /\ readers' = readers \ {t}
  /\ reply' = [reply EXCEPT ![t] = IF found[t] = 0 THEN "handle" ELSE @]
  /\ UNCHANGED <<arg, found, writer, nextID, loaded, issued, mu, history>>

EngineLockUnchecked(t) ==
  /\ Goto(t, "parse-lock", "parse-run")
  /\ mu' = mu \cup {found[t]}
  /\ UNCHANGED <<local, registry, history>>

(* g.mu.Lock() *)
EngineLock(t) ==
  /\ Goto(t, "parse-lock", "parse-run")
  /\ found[t] \notin mu
  /\ mu' = mu \cup {found[t]}
  /\ UNCHANGED <<local, registry, history>>

SafeParseEscaping(t) ==
  /\ \/ Goto(t, "parse-run", "parse-unlock") /\ \E r \in {"accept", "reject"} : Reply(t, r)
     \/ Goto(t, "parse-run", "return") /\ Reply(t, "internal")
  /\ UNCHANGED <<arg, found, registry, mu, history>>

SafeParseRechecked(t) ==
  /\ Goto(t, "parse-run", "parse-unlock")
  /\ \E r \in {"accept", "reject", "internal"} :
       Reply(t, IF found[t] \in loaded THEN r ELSE "handle")
  /\ UNCHANGED <<arg, found, registry, mu, history>>

(* safeParse ends: a value, a rejection, or a panic, which is an error. *)
SafeParse(t) ==
  /\ Goto(t, "parse-run", "parse-unlock")
  /\ \E r \in {"accept", "reject", "internal"} : Reply(t, r)
  /\ UNCHANGED <<arg, found, registry, mu, history>>

(* g.mu.Unlock() *)
EngineUnlock(t) ==
  /\ Goto(t, "parse-unlock", "return")
  /\ mu' = mu \ {found[t]}
  /\ UNCHANGED <<local, registry, history>>

-------------------------------------------------------------------------------
(* tabnas_grammar_free *)
TabnasGrammarFree(t, handle) ==
  /\ Goto(t, "idle", "free-lock")
  /\ arg' = [arg EXCEPT ![t] = handle]
  /\ Reply(t, "none")
  /\ knew' = [knew EXCEPT ![t] = handle \in issued]
  /\ UNCHANGED <<found, registry, mu, retired>>

(* delete(loaded, handle) *)
Delete(t) ==
  /\ Goto(t, "free-delete", "free-unlock")
  /\ loaded' = loaded \ {arg[t]}
  /\ Reply(t, "freed")
  /\ UNCHANGED <<arg, found, readers, writer, nextID, issued, mu, history>>

(* A call returns to the host, and forgets what it was about. *)
Return(t) ==
  /\ Goto(t, "return", "idle")
  /\ retired' = IF reply[t] = "freed" /\ knew[t] THEN retired \cup {arg[t]} ELSE retired
  /\ arg' = [arg EXCEPT ![t] = 0]
  /\ found' = [found EXCEPT ![t] = 0]
  /\ knew' = [knew EXCEPT ![t] = FALSE]
  /\ UNCHANGED <<reply, registry, mu>>

-------------------------------------------------------------------------------
Init ==
  /\ pc = [t \in Threads |-> "idle"]
  /\ arg = [t \in Threads |-> 0]
  /\ found = [t \in Threads |-> 0]
  /\ reply = [t \in Threads |-> "none"]
  /\ readers = {}
  /\ writer = NoThread
  /\ nextID = 0
  /\ loaded = {}
  /\ mu = {}
  /\ issued = {}
  /\ retired = {}
  /\ knew = [t \in Threads |-> FALSE]

OptsArgument == {"absent", "empty-object", "null", "members", "not-an-object", "bad-buffer"}

(* A new call; the host may make any, at any time, or none. *)
Call(t) ==
  \/ \E opts \in OptsArgument : TabnasGrammar(t, opts)
  \/ \E handle \in 0 .. MaxHandles, buffer \in {"valid", "bad"} : TabnasParse(t, handle, buffer)
  \/ \E handle \in 0 .. MaxHandles : TabnasGrammarFree(t, handle)

(* The steps that wait for a lock. *)
Acquire(t) ==
  \/ Lock(t, "load-lock", "load-wait")
  \/ Lock(t, "free-lock", "free-wait")
  \/ RLock(t, "parse-rlock", "parse-lookup")
  \/ EngineLock(t)

(* The steps of a call that is under way and need not wait for its turn. *)
Proceed(t) ==
  \/ SafeNew(t)
  \/ Locked(t, "load-wait", "load-count")
  \/ LoadCount(t)
  \/ LoadStore(t)
  \/ Unlock(t, "load-unlock", "return")
  \/ Lookup(t)
  \/ RUnlock(t)
  \/ SafeParse(t)
  \/ EngineUnlock(t)
  \/ Locked(t, "free-wait", "free-delete")
  \/ Delete(t)
  \/ Unlock(t, "free-unlock", "return")
  \/ Return(t)

Next == \E t \in Threads : Call(t) \/ Acquire(t) \/ Proceed(t)

(* A thread inside a call goes on; Go's locks starve nobody, so a lock     *)
(* that is free again and again is given in the end; an engine's parse     *)
(* ends.  A host need never make a call.                                   *)
Fairness == \A t \in Threads : WF_vars(Proceed(t)) /\ SF_vars(Acquire(t))

Spec == Init /\ [][Next]_vars

FairSpec == Spec /\ Fairness

-------------------------------------------------------------------------------
WaitsForReg == {"load-lock", "load-wait", "parse-rlock", "free-lock", "free-wait"}
Writing == {"load-count", "load-store", "load-unlock", "free-delete", "free-unlock"}
Reading == {"parse-lookup", "parse-runlock"}
OnEngine == {"parse-run", "parse-unlock"}
Elsewhere == {"idle", "build", "parse-lock", "return"}

(* Where a thread may be, and what its call and the registry may hold:     *)
(* handles count up from 1, and 0 is no handle (core.go 54-64).            *)
TypeOK ==
  /\ pc \in [Threads -> WaitsForReg \cup Writing \cup Reading \cup OnEngine \cup Elsewhere]
  /\ arg \in [Threads -> Nat]
  /\ found \in [Threads -> Nat]
  /\ reply \in [Threads -> {"none", "usage", "grammar", "loaded", "handle", "accept",
                            "reject", "internal", "freed"}]
  /\ readers \subseteq Threads
  /\ writer \in Threads \cup {NoThread}
  /\ nextID \in Nat
  /\ loaded \subseteq Nat
  /\ mu \subseteq Nat
  /\ issued \subseteq Nat
  /\ retired \subseteq Nat
  /\ knew \in [Threads -> BOOLEAN]

(* The map is never written while another thread reads or writes it, which *)
(* in Go ends the host process (core.go 61-64, 185-189, 226-228, 499-503). *)
NoMapRace ==
  \A t, u \in Threads :
    t # u /\ pc[t] \in Writing => pc[u] \notin Writing \cup Reading

(* At most one parse at a time runs on an engine, through every load, free *)
(* and panic: "Handles are safe to use from several threads; each carries  *)
(* a mutex" (tabnas.h 24-25, core.go 50-59).                               *)
OneParsePerEngine ==
  \A t, u \in Threads :
    t # u /\ pc[t] \in OnEngine /\ pc[u] \in OnEngine => found[t] # found[u]

(* A parse called after a free of its handle has returned finds no parser, *)
(* though other handles come and go meanwhile.  The handle must have been  *)
(* issued before the free was called: a free of a handle not issued yet    *)
(* retires nothing (core.go 225-231, 499-503).                             *)
FreedHandleAnswersNothing ==
  \A t \in Threads :
    knew[t] => reply[t] \in {"none", "handle", "freed"} /\ found[t] = 0

(* A load never stores a parser under a handle that was ever given out,    *)
(* freed or not, whoever else is loading (core.go 185-190).                *)
HandlesAreFresh ==
  [][\A t \in Threads :
       pc[t] = "load-store" /\ pc'[t] = "load-unlock" => arg'[t] \notin issued]_vars

(* Every call of a thread returns: a panic in the engine, a free that      *)
(* races a parse and a crowd of readers leave no lock held and nobody      *)
(* waiting for ever (core.go 185-189, 225-235, 490-503).                   *)
CallsReturn(t) == pc[t] # "idle" ~> pc[t] = "idle"
===============================================================================
