------------------------------ MODULE ClibProofs ------------------------------
(***************************************************************************)
(* Proofs about the handle registry: for any number of threads and         *)
(* handles, the map is not raced, an engine runs one parse at a time, a    *)
(* handle is issued once, a freed handle answers nothing, and every call   *)
(* takes effect at one instant, as the C ABI promises.                     *)
(***************************************************************************)
EXTENDS ClibPromise, FiniteSetTheorems, TLAPS

(* Who is where in the registry's lock: the readers are the threads        *)
(* reading, a thread that writes or is about to has announced itself, and  *)
(* a writer is alone.                                                      *)
RegInv ==
  /\ readers = {t \in Threads : pc[t] \in Reading}
  /\ \A t \in Threads : pc[t] \in Writing \cup {"load-wait", "free-wait"} => writer = t
  /\ \A t \in Threads : pc[t] \in Writing => readers = {}

(* A thread on an engine has found an instance and its mutex is locked. *)
EngineInv ==
  /\ \A t \in Threads : pc[t] \in OnEngine => found[t] \in mu
  /\ OneParsePerEngine

(* The handles issued are those counted, except the one being stored. *)
IssueInv ==
  /\ issued \subseteq 1 .. nextID
  /\ \A t \in Threads : pc[t] = "load-store" => nextID > 0 /\ nextID \notin issued
  /\ loaded \subseteq issued

(* A retired handle was issued and is not loaded, nor will it be again; a  *)
(* free that knew its handle has unloaded it by the time it returns.       *)
RetireInv ==
  /\ retired \subseteq issued \ loaded
  /\ \A t \in Threads :
       /\ pc[t] = "idle" => ~knew[t] /\ found[t] = 0
       /\ pc[t] \in {"free-lock", "free-wait", "free-delete", "free-unlock"} =>
            (knew[t] => arg[t] \in issued) /\ found[t] = 0
       /\ pc[t] \in {"free-unlock"} => (knew[t] => arg[t] \notin loaded) /\ reply[t] = "freed"
       /\ pc[t] = "return" /\ knew[t] /\ reply[t] = "freed" => arg[t] \in issued \ loaded
       /\ pc[t] \in {"parse-rlock", "parse-lookup", "parse-runlock"} =>
            (knew[t] => arg[t] \in retired) /\ reply[t] = "none"
       /\ pc[t] \in {"parse-rlock", "parse-lookup"} => found[t] = 0
       /\ pc[t] \in {"free-lock", "free-wait", "free-delete"} => reply[t] = "none"
       /\ pc[t] \in {"parse-lock", "parse-run", "parse-unlock", "build", "load-lock",
                     "load-wait", "load-count", "load-store", "load-unlock"} => ~knew[t]
  /\ FreedHandleAnswersNothing

(* The inductive invariant: what the properties say, and what makes it so: *)
(* who holds the registry's lock, which handles are issued, and what a     *)
(* call under way still knows of its handle.                               *)
IInv == TypeOK /\ RegInv /\ EngineInv /\ IssueInv /\ RetireInv

(* Every step keeps the types. *)
LEMMA TypeStep == TypeOK /\ [Next]_vars => TypeOK'
<1> SUFFICES ASSUME TypeOK, [Next]_vars PROVE TypeOK'
  OBVIOUS
<1> USE DEF Goto, Reply, local, registry, history,
      TypeOK, WaitsForReg, Writing, Reading, OnEngine, Elsewhere, OptsArgument
<1>1. ASSUME NEW t \in Threads, NEW opts \in OptsArgument, TabnasGrammar(t, opts)
      PROVE  TypeOK'
  BY <1>1 DEF TabnasGrammar
<1>2. ASSUME NEW t \in Threads, NEW handle \in 0 .. MaxHandles, NEW buffer \in {"valid", "bad"},
             TabnasParse(t, handle, buffer)
      PROVE  TypeOK'
  BY <1>2 DEF TabnasParse
<1>3. ASSUME NEW t \in Threads, NEW handle \in 0 .. MaxHandles, TabnasGrammarFree(t, handle)
      PROVE  TypeOK'
  BY <1>3 DEF TabnasGrammarFree
<1>4. ASSUME NEW t \in Threads, NEW from, NEW to,
             <<from, to>> \in {<<"load-lock", "load-wait">>, <<"free-lock", "free-wait">>},
             Lock(t, from, to)
      PROVE  TypeOK'
  BY <1>4 DEF Lock
<1>5. ASSUME NEW t \in Threads, RLock(t, "parse-rlock", "parse-lookup")
      PROVE  TypeOK'
  BY <1>5 DEF RLock
<1>6. ASSUME NEW t \in Threads, EngineLock(t)
      PROVE  TypeOK'
  BY <1>6 DEF EngineLock
<1>7. ASSUME NEW t \in Threads, SafeNew(t)
      PROVE  TypeOK'
  BY <1>7 DEF SafeNew
<1>8. ASSUME NEW t \in Threads, NEW from, NEW to,
             <<from, to>> \in {<<"load-wait", "load-count">>, <<"free-wait", "free-delete">>},
             Locked(t, from, to)
      PROVE  TypeOK'
  BY <1>8 DEF Locked
<1>9. ASSUME NEW t \in Threads, LoadCount(t)
      PROVE  TypeOK'
  BY <1>9 DEF LoadCount
<1>10. ASSUME NEW t \in Threads, LoadStore(t)
      PROVE  TypeOK'
  BY <1>10 DEF LoadStore
<1>11. ASSUME NEW t \in Threads, NEW from, NEW to,
             <<from, to>> \in {<<"load-unlock", "return">>, <<"free-unlock", "return">>},
             Unlock(t, from, to)
      PROVE  TypeOK'
  BY <1>11 DEF Unlock
<1>12. ASSUME NEW t \in Threads, Lookup(t)
      PROVE  TypeOK'
  BY <1>12 DEF Lookup
<1>13. ASSUME NEW t \in Threads, RUnlock(t)
      PROVE  TypeOK'
  BY <1>13 DEF RUnlock
<1>14. ASSUME NEW t \in Threads, SafeParse(t)
      PROVE  TypeOK'
  BY <1>14 DEF SafeParse
<1>15. ASSUME NEW t \in Threads, EngineUnlock(t)
      PROVE  TypeOK'
  BY <1>15 DEF EngineUnlock
<1>16. ASSUME NEW t \in Threads, Delete(t)
      PROVE  TypeOK'
  BY <1>16 DEF Delete
<1>17. ASSUME NEW t \in Threads, Return(t)
      PROVE  TypeOK'
  BY <1>17 DEF Return
<1>18. CASE UNCHANGED vars
  BY <1>18 DEF vars
<1>. QED
  BY <1>1, <1>2, <1>3, <1>4, <1>5, <1>6, <1>7, <1>8, <1>9, <1>10, <1>11, <1>12, <1>13, <1>14, <1>15, <1>16, <1>17, <1>18 DEF Next, Call, Acquire, Proceed

(* Every step keeps the registry lock's discipline. *)
LEMMA RegStep == TypeOK /\ RegInv /\ [Next]_vars => RegInv'
<1> SUFFICES ASSUME TypeOK /\ RegInv, [Next]_vars PROVE RegInv'
  OBVIOUS
<1> USE DEF Goto, Reply, local, registry, history,
      RegInv, TypeOK, WaitsForReg, Writing, Reading, OnEngine, Elsewhere, OptsArgument
<1>1. ASSUME NEW t \in Threads, NEW opts \in OptsArgument, TabnasGrammar(t, opts)
      PROVE  RegInv'
  BY <1>1 DEF TabnasGrammar
<1>2. ASSUME NEW t \in Threads, NEW handle \in 0 .. MaxHandles, NEW buffer \in {"valid", "bad"},
             TabnasParse(t, handle, buffer)
      PROVE  RegInv'
  BY <1>2 DEF TabnasParse
<1>3. ASSUME NEW t \in Threads, NEW handle \in 0 .. MaxHandles, TabnasGrammarFree(t, handle)
      PROVE  RegInv'
  BY <1>3 DEF TabnasGrammarFree
<1>4. ASSUME NEW t \in Threads, NEW from, NEW to,
             <<from, to>> \in {<<"load-lock", "load-wait">>, <<"free-lock", "free-wait">>},
             Lock(t, from, to)
      PROVE  RegInv'
  BY <1>4, ThreadsAssumption DEF Lock
<1>5. ASSUME NEW t \in Threads, RLock(t, "parse-rlock", "parse-lookup")
      PROVE  RegInv'
  BY <1>5, ThreadsAssumption DEF RLock
<1>6. ASSUME NEW t \in Threads, EngineLock(t)
      PROVE  RegInv'
  BY <1>6 DEF EngineLock
<1>7. ASSUME NEW t \in Threads, SafeNew(t)
      PROVE  RegInv'
  BY <1>7 DEF SafeNew
<1>8. ASSUME NEW t \in Threads, NEW from, NEW to,
             <<from, to>> \in {<<"load-wait", "load-count">>, <<"free-wait", "free-delete">>},
             Locked(t, from, to)
      PROVE  RegInv'
  BY <1>8 DEF Locked
<1>9. ASSUME NEW t \in Threads, LoadCount(t)
      PROVE  RegInv'
  BY <1>9 DEF LoadCount
<1>10. ASSUME NEW t \in Threads, LoadStore(t)
      PROVE  RegInv'
  BY <1>10 DEF LoadStore
<1>11. ASSUME NEW t \in Threads, NEW from, NEW to,
             <<from, to>> \in {<<"load-unlock", "return">>, <<"free-unlock", "return">>},
             Unlock(t, from, to)
      PROVE  RegInv'
  BY <1>11 DEF Unlock
<1>12. ASSUME NEW t \in Threads, Lookup(t)
      PROVE  RegInv'
  BY <1>12 DEF Lookup
<1>13. ASSUME NEW t \in Threads, RUnlock(t)
      PROVE  RegInv'
  BY <1>13 DEF RUnlock
<1>14. ASSUME NEW t \in Threads, SafeParse(t)
      PROVE  RegInv'
  BY <1>14 DEF SafeParse
<1>15. ASSUME NEW t \in Threads, EngineUnlock(t)
      PROVE  RegInv'
  BY <1>15 DEF EngineUnlock
<1>16. ASSUME NEW t \in Threads, Delete(t)
      PROVE  RegInv'
  BY <1>16 DEF Delete
<1>17. ASSUME NEW t \in Threads, Return(t)
      PROVE  RegInv'
  BY <1>17 DEF Return
<1>18. CASE UNCHANGED vars
  BY <1>18 DEF vars
<1>. QED
  BY <1>1, <1>2, <1>3, <1>4, <1>5, <1>6, <1>7, <1>8, <1>9, <1>10, <1>11, <1>12, <1>13, <1>14, <1>15, <1>16, <1>17, <1>18 DEF Next, Call, Acquire, Proceed

(* Every step keeps an engine to one parse. *)
LEMMA EngineStep == TypeOK /\ EngineInv /\ [Next]_vars => EngineInv'
<1> SUFFICES ASSUME TypeOK /\ EngineInv, [Next]_vars PROVE EngineInv'
  OBVIOUS
<1> USE DEF Goto, Reply, local, registry, history,
      EngineInv, OneParsePerEngine, TypeOK, WaitsForReg, Writing, Reading, OnEngine, Elsewhere, OptsArgument
<1>1. ASSUME NEW t \in Threads, NEW opts \in OptsArgument, TabnasGrammar(t, opts)
      PROVE  EngineInv'
  BY <1>1 DEF TabnasGrammar
<1>2. ASSUME NEW t \in Threads, NEW handle \in 0 .. MaxHandles, NEW buffer \in {"valid", "bad"},
             TabnasParse(t, handle, buffer)
      PROVE  EngineInv'
  BY <1>2 DEF TabnasParse
<1>3. ASSUME NEW t \in Threads, NEW handle \in 0 .. MaxHandles, TabnasGrammarFree(t, handle)
      PROVE  EngineInv'
  BY <1>3 DEF TabnasGrammarFree
<1>4. ASSUME NEW t \in Threads, NEW from, NEW to,
             <<from, to>> \in {<<"load-lock", "load-wait">>, <<"free-lock", "free-wait">>},
             Lock(t, from, to)
      PROVE  EngineInv'
  BY <1>4 DEF Lock
<1>5. ASSUME NEW t \in Threads, RLock(t, "parse-rlock", "parse-lookup")
      PROVE  EngineInv'
  BY <1>5 DEF RLock
<1>6. ASSUME NEW t \in Threads, EngineLock(t)
      PROVE  EngineInv'
  BY <1>6 DEF EngineLock
<1>7. ASSUME NEW t \in Threads, SafeNew(t)
      PROVE  EngineInv'
  BY <1>7 DEF SafeNew
<1>8. ASSUME NEW t \in Threads, NEW from, NEW to,
             <<from, to>> \in {<<"load-wait", "load-count">>, <<"free-wait", "free-delete">>},
             Locked(t, from, to)
      PROVE  EngineInv'
  BY <1>8 DEF Locked
<1>9. ASSUME NEW t \in Threads, LoadCount(t)
      PROVE  EngineInv'
  BY <1>9 DEF LoadCount
<1>10. ASSUME NEW t \in Threads, LoadStore(t)
      PROVE  EngineInv'
  BY <1>10 DEF LoadStore
<1>11. ASSUME NEW t \in Threads, NEW from, NEW to,
             <<from, to>> \in {<<"load-unlock", "return">>, <<"free-unlock", "return">>},
             Unlock(t, from, to)
      PROVE  EngineInv'
  BY <1>11 DEF Unlock
<1>12. ASSUME NEW t \in Threads, Lookup(t)
      PROVE  EngineInv'
  BY <1>12 DEF Lookup
<1>13. ASSUME NEW t \in Threads, RUnlock(t)
      PROVE  EngineInv'
  BY <1>13 DEF RUnlock
<1>14. ASSUME NEW t \in Threads, SafeParse(t)
      PROVE  EngineInv'
  BY <1>14 DEF SafeParse
<1>15. ASSUME NEW t \in Threads, EngineUnlock(t)
      PROVE  EngineInv'
  BY <1>15 DEF EngineUnlock
<1>16. ASSUME NEW t \in Threads, Delete(t)
      PROVE  EngineInv'
  BY <1>16 DEF Delete
<1>17. ASSUME NEW t \in Threads, Return(t)
      PROVE  EngineInv'
  BY <1>17 DEF Return
<1>18. CASE UNCHANGED vars
  BY <1>18 DEF vars
<1>. QED
  BY <1>1, <1>2, <1>3, <1>4, <1>5, <1>6, <1>7, <1>8, <1>9, <1>10, <1>11, <1>12, <1>13, <1>14, <1>15, <1>16, <1>17, <1>18 DEF Next, Call, Acquire, Proceed

(* Every step keeps the issued handles below the count. *)
LEMMA IssueStep == TypeOK /\ RegInv /\ IssueInv /\ [Next]_vars => IssueInv'
<1> SUFFICES ASSUME TypeOK /\ RegInv /\ IssueInv, [Next]_vars PROVE IssueInv'
  OBVIOUS
<1> USE DEF Goto, Reply, local, registry, history,
      IssueInv, RegInv, TypeOK, WaitsForReg, Writing, Reading, OnEngine, Elsewhere, OptsArgument
<1>1. ASSUME NEW t \in Threads, NEW opts \in OptsArgument, TabnasGrammar(t, opts)
      PROVE  IssueInv'
  BY <1>1 DEF TabnasGrammar
<1>2. ASSUME NEW t \in Threads, NEW handle \in 0 .. MaxHandles, NEW buffer \in {"valid", "bad"},
             TabnasParse(t, handle, buffer)
      PROVE  IssueInv'
  BY <1>2 DEF TabnasParse
<1>3. ASSUME NEW t \in Threads, NEW handle \in 0 .. MaxHandles, TabnasGrammarFree(t, handle)
      PROVE  IssueInv'
  BY <1>3 DEF TabnasGrammarFree
<1>4. ASSUME NEW t \in Threads, NEW from, NEW to,
             <<from, to>> \in {<<"load-lock", "load-wait">>, <<"free-lock", "free-wait">>},
             Lock(t, from, to)
      PROVE  IssueInv'
  BY <1>4 DEF Lock
<1>5. ASSUME NEW t \in Threads, RLock(t, "parse-rlock", "parse-lookup")
      PROVE  IssueInv'
  BY <1>5 DEF RLock
<1>6. ASSUME NEW t \in Threads, EngineLock(t)
      PROVE  IssueInv'
  BY <1>6 DEF EngineLock
<1>7. ASSUME NEW t \in Threads, SafeNew(t)
      PROVE  IssueInv'
  BY <1>7 DEF SafeNew
<1>8. ASSUME NEW t \in Threads, NEW from, NEW to,
             <<from, to>> \in {<<"load-wait", "load-count">>, <<"free-wait", "free-delete">>},
             Locked(t, from, to)
      PROVE  IssueInv'
  BY <1>8 DEF Locked
<1>9. ASSUME NEW t \in Threads, LoadCount(t)
      PROVE  IssueInv'
  BY <1>9 DEF LoadCount
<1>10. ASSUME NEW t \in Threads, LoadStore(t)
      PROVE  IssueInv'
  BY <1>10 DEF LoadStore
<1>11. ASSUME NEW t \in Threads, NEW from, NEW to,
             <<from, to>> \in {<<"load-unlock", "return">>, <<"free-unlock", "return">>},
             Unlock(t, from, to)
      PROVE  IssueInv'
  BY <1>11 DEF Unlock
<1>12. ASSUME NEW t \in Threads, Lookup(t)
      PROVE  IssueInv'
  BY <1>12 DEF Lookup
<1>13. ASSUME NEW t \in Threads, RUnlock(t)
      PROVE  IssueInv'
  BY <1>13 DEF RUnlock
<1>14. ASSUME NEW t \in Threads, SafeParse(t)
      PROVE  IssueInv'
  BY <1>14 DEF SafeParse
<1>15. ASSUME NEW t \in Threads, EngineUnlock(t)
      PROVE  IssueInv'
  BY <1>15 DEF EngineUnlock
<1>16. ASSUME NEW t \in Threads, Delete(t)
      PROVE  IssueInv'
  BY <1>16 DEF Delete
<1>17. ASSUME NEW t \in Threads, Return(t)
      PROVE  IssueInv'
  BY <1>17 DEF Return
<1>18. CASE UNCHANGED vars
  BY <1>18 DEF vars
<1>. QED
  BY <1>1, <1>2, <1>3, <1>4, <1>5, <1>6, <1>7, <1>8, <1>9, <1>10, <1>11, <1>12, <1>13, <1>14, <1>15, <1>16, <1>17, <1>18 DEF Next, Call, Acquire, Proceed

(* Every step keeps a retired handle unloaded. *)
LEMMA RetireStep == TypeOK /\ IssueInv /\ RetireInv /\ [Next]_vars => RetireInv'
<1> SUFFICES ASSUME TypeOK /\ IssueInv /\ RetireInv, [Next]_vars PROVE RetireInv'
  OBVIOUS
<1> USE DEF Goto, Reply, local, registry, history,
      RetireInv, FreedHandleAnswersNothing, IssueInv, TypeOK, WaitsForReg, Writing, Reading, OnEngine, Elsewhere, OptsArgument
<1>1. ASSUME NEW t \in Threads, NEW opts \in OptsArgument, TabnasGrammar(t, opts)
      PROVE  RetireInv'
  BY <1>1 DEF TabnasGrammar
<1>2. ASSUME NEW t \in Threads, NEW handle \in 0 .. MaxHandles, NEW buffer \in {"valid", "bad"},
             TabnasParse(t, handle, buffer)
      PROVE  RetireInv'
  BY <1>2 DEF TabnasParse
<1>3. ASSUME NEW t \in Threads, NEW handle \in 0 .. MaxHandles, TabnasGrammarFree(t, handle)
      PROVE  RetireInv'
  BY <1>3 DEF TabnasGrammarFree
<1>4. ASSUME NEW t \in Threads, NEW from, NEW to,
             <<from, to>> \in {<<"load-lock", "load-wait">>, <<"free-lock", "free-wait">>},
             Lock(t, from, to)
      PROVE  RetireInv'
  BY <1>4 DEF Lock
<1>5. ASSUME NEW t \in Threads, RLock(t, "parse-rlock", "parse-lookup")
      PROVE  RetireInv'
  BY <1>5 DEF RLock
<1>6. ASSUME NEW t \in Threads, EngineLock(t)
      PROVE  RetireInv'
  BY <1>6 DEF EngineLock
<1>7. ASSUME NEW t \in Threads, SafeNew(t)
      PROVE  RetireInv'
  <2>1. CASE Goto(t, "build", "load-lock") /\ UNCHANGED local
    BY <1>7, <2>1 DEF SafeNew
  <2>2. CASE Goto(t, "build", "return") /\ Reply(t, "grammar") /\ UNCHANGED <<arg, found>>
    BY <1>7, <2>2 DEF SafeNew
  <2>. QED
    BY <1>7, <2>1, <2>2 DEF SafeNew
<1>8. ASSUME NEW t \in Threads, NEW from, NEW to,
             <<from, to>> \in {<<"load-wait", "load-count">>, <<"free-wait", "free-delete">>},
             Locked(t, from, to)
      PROVE  RetireInv'
  BY <1>8 DEF Locked
<1>9. ASSUME NEW t \in Threads, LoadCount(t)
      PROVE  RetireInv'
  BY <1>9 DEF LoadCount
<1>10. ASSUME NEW t \in Threads, LoadStore(t)
      PROVE  RetireInv'
  BY <1>10 DEF LoadStore
<1>11. ASSUME NEW t \in Threads, NEW from, NEW to,
             <<from, to>> \in {<<"load-unlock", "return">>, <<"free-unlock", "return">>},
             Unlock(t, from, to)
      PROVE  RetireInv'
  BY <1>11 DEF Unlock
<1>12. ASSUME NEW t \in Threads, Lookup(t)
      PROVE  RetireInv'
  BY <1>12 DEF Lookup
<1>13. ASSUME NEW t \in Threads, RUnlock(t)
      PROVE  RetireInv'
  BY <1>13 DEF RUnlock
<1>14. ASSUME NEW t \in Threads, SafeParse(t)
      PROVE  RetireInv'
  BY <1>14 DEF SafeParse
<1>15. ASSUME NEW t \in Threads, EngineUnlock(t)
      PROVE  RetireInv'
  BY <1>15 DEF EngineUnlock
<1>16. ASSUME NEW t \in Threads, Delete(t)
      PROVE  RetireInv'
  BY <1>16 DEF Delete
<1>17. ASSUME NEW t \in Threads, Return(t)
      PROVE  RetireInv'
  BY <1>17 DEF Return
<1>18. CASE UNCHANGED vars
  BY <1>18 DEF vars
<1>. QED
  BY <1>1, <1>2, <1>3, <1>4, <1>5, <1>6, <1>7, <1>8, <1>9, <1>10, <1>11, <1>12, <1>13, <1>14, <1>15, <1>16, <1>17, <1>18 DEF Next, Call, Acquire, Proceed

(* The invariant holds of every run. *)
THEOREM Invariant == Spec => []IInv
<1>1. Init => IInv
  BY ThreadsAssumption DEF Init, IInv, TypeOK, RegInv, EngineInv, OneParsePerEngine, IssueInv,
     RetireInv, FreedHandleAnswersNothing, WaitsForReg, Writing, Reading, OnEngine, Elsewhere
<1>2. IInv /\ [Next]_vars => IInv'
  BY TypeStep, RegStep, EngineStep, IssueStep, RetireStep DEF IInv
<1>. QED
  BY <1>1, <1>2, PTL DEF Spec

(* The registry's map is never written while another thread reads or       *)
(* writes it, for any number of threads (core.go 61-64).                   *)
THEOREM MapIsNeverRaced == Spec => []NoMapRace
<1>1. IInv => NoMapRace
  <2> SUFFICES ASSUME IInv, NEW t \in Threads, NEW u \in Threads, t # u, pc[t] \in Writing
               PROVE  pc[u] \notin Writing \cup Reading
    BY DEF NoMapRace
  <2>1. writer = t /\ readers = {}
    BY DEF IInv, RegInv
  <2>2. pc[u] \notin Writing
    BY <2>1 DEF IInv, RegInv
  <2>3. pc[u] \notin Reading
    BY <2>1 DEF IInv, RegInv
  <2>. QED
    BY <2>2, <2>3
<1>. QED
  BY <1>1, Invariant, PTL

(* At most one parse at a time runs on an engine, for any number of        *)
(* threads and handles (tabnas.h 24-25, core.go 50-59).                    *)
THEOREM EnginesRunOneParse == Spec => []OneParsePerEngine
<1>1. IInv => OneParsePerEngine
  BY DEF IInv, EngineInv
<1>. QED
  BY <1>1, Invariant, PTL

(* A parse called after its handle was freed finds no parser, however many *)
(* loads, frees and parses the other threads make (core.go 225-231).       *)
THEOREM FreedHandlesStayFreed == Spec => []FreedHandleAnswersNothing
<1>1. IInv => FreedHandleAnswersNothing
  BY DEF IInv, RetireInv
<1>. QED
  BY <1>1, Invariant, PTL

(* A load never stores a parser under a handle ever given out, however     *)
(* many threads load at once (core.go 185-190).                            *)
THEOREM LoadsIssueFreshHandles == Spec => HandlesAreFresh
<1>1. IInv /\ [Next]_vars =>
        [\A t \in Threads :
           pc[t] = "load-store" /\ pc'[t] = "load-unlock" => arg'[t] \notin issued]_vars
  <2> SUFFICES ASSUME IInv, Next, NEW t \in Threads,
                      pc[t] = "load-store", pc'[t] = "load-unlock"
               PROVE  arg'[t] \notin issued
    BY DEF vars
  <2>1. LoadStore(t)
    <3>1. ASSUME NEW u \in Threads, u # t, pc'[u] # pc[u], pc' = [pc EXCEPT ![u] = pc'[u]]
          PROVE  FALSE
      BY <3>1 DEF IInv, TypeOK
    <3>. QED
      BY <3>1 DEF Next, Call, Acquire, Proceed, Goto, IInv, TypeOK, TabnasGrammar,
         TabnasParse, TabnasGrammarFree, Lock, RLock, EngineLock, SafeNew, Locked, LoadCount,
         LoadStore, Unlock, Lookup, RUnlock, SafeParse, EngineUnlock, Delete, Return, OptsArgument
  <2>2. nextID \notin issued
    BY DEF IInv, IssueInv
  <2>. QED
    BY <2>1, <2>2 DEF LoadStore, IInv, TypeOK
<1>. QED
  BY <1>1, Invariant, PTL DEF Spec, HandlesAreFresh

-------------------------------------------------------------------------------
(* Every call at one instant: Clib implements ParserRegistry.              *)

(* The loads on their way to a handle; the bound on the handles counts     *)
(* them with the handles issued.                                           *)
OnTheWay == {"build", "load-lock", "load-wait", "load-count"}
Loading  == {u \in Threads : pc[u] \in OnTheWay}

(* What a load's call knows before it has a handle, and how many handles   *)
(* there may still be.                                                     *)
BoundInv ==
  /\ IsFiniteSet(Loading)
  /\ nextID + Cardinality(Loading) <= MaxHandles
  /\ \A t \in Threads : pc[t] \in OnTheWay \cup {"load-store"} => arg[t] = 0 /\ reply[t] = "none"

(* One thread's step starts a load, ends one or leaves the loads alone.    *)
LEMMA LoadingMoves ==
  ASSUME BoundInv, NEW t \in Threads, \A u \in Threads \ {t} : pc'[u] = pc[u]
  PROVE  /\ IsFiniteSet(Loading')
         /\ Cardinality(Loading) \in Nat /\ Cardinality(Loading') \in Nat
         /\ pc'[t] \notin OnTheWay => Cardinality(Loading') =
              IF pc[t] \in OnTheWay THEN Cardinality(Loading) - 1 ELSE Cardinality(Loading)
         /\ pc'[t] \in OnTheWay => Cardinality(Loading') =
              IF pc[t] \in OnTheWay THEN Cardinality(Loading) ELSE Cardinality(Loading) + 1
<1>1. pc'[t] \notin OnTheWay => Loading' = Loading \ {t}
  BY DEF Loading
<1>2. pc'[t] \in OnTheWay => Loading' = Loading \cup {t}
  BY DEF Loading
<1>3. t \in Loading <=> pc[t] \in OnTheWay
  BY DEF Loading
<1>4. IsFiniteSet(Loading)
  BY DEF BoundInv
<1>5. IsFiniteSet(Loading')
  BY <1>1, <1>2, <1>4, FS_AddElement, FS_RemoveElement
<1>6. Cardinality(Loading) \in Nat /\ Cardinality(Loading') \in Nat
  BY <1>4, <1>5, FS_CardinalityType
<1>. QED
  BY <1>1, <1>2, <1>3, <1>4, <1>5, <1>6, FS_AddElement, FS_RemoveElement

(* What a step must respect for the bound: a load sets out only when a     *)
(* handle is left for it, and counts up only as it stops being on its way. *)
LEMMA BoundKept ==
  ASSUME TypeOK, BoundInv, NEW t \in Threads,
         \A u \in Threads \ {t} : pc'[u] = pc[u] /\ arg'[u] = arg[u] /\ reply'[u] = reply[u],
         pc'[t] \in OnTheWay /\ pc[t] \notin OnTheWay => nextID + Cardinality(Loading) < MaxHandles,
         \/ nextID' = nextID
         \/ nextID' = nextID + 1 /\ pc[t] \in OnTheWay /\ pc'[t] \notin OnTheWay,
         pc'[t] \in OnTheWay \cup {"load-store"} => arg'[t] = 0 /\ reply'[t] = "none"
  PROVE  BoundInv'
<1>1. nextID' + Cardinality(Loading') <= MaxHandles
  <2>1. nextID \in Nat /\ nextID + Cardinality(Loading) <= MaxHandles
    BY DEF TypeOK, BoundInv
  <2>2. /\ Cardinality(Loading) \in Nat /\ Cardinality(Loading') \in Nat
        /\ pc'[t] \notin OnTheWay => Cardinality(Loading') =
             IF pc[t] \in OnTheWay THEN Cardinality(Loading) - 1 ELSE Cardinality(Loading)
        /\ pc'[t] \in OnTheWay => Cardinality(Loading') =
             IF pc[t] \in OnTheWay THEN Cardinality(Loading) ELSE Cardinality(Loading) + 1
    BY LoadingMoves
  <2>. QED
    BY <2>1, <2>2, MaxHandlesAssumption
<1>2. \A u \in Threads : pc'[u] \in OnTheWay \cup {"load-store"} => arg'[u] = 0 /\ reply'[u] = "none"
  BY DEF BoundInv
<1>3. IsFiniteSet(Loading')
  BY LoadingMoves
<1>. QED
  BY <1>1, <1>2, <1>3 DEF BoundInv

(* Every step keeps the bound on the handles. *)
LEMMA BoundStep == TypeOK /\ BoundInv /\ [Next]_vars => BoundInv'
<1> SUFFICES ASSUME TypeOK, BoundInv, [Next]_vars PROVE BoundInv'
  OBVIOUS
<1>0. \A t \in Threads : pc[t] \in OnTheWay \cup {"load-store"} => arg[t] = 0 /\ reply[t] = "none"
  BY DEF BoundInv
<1>. USE DEF Goto, Reply, local, registry, history
<1>1. ASSUME NEW t \in Threads, NEW opts \in OptsArgument, TabnasGrammar(t, opts)
      PROVE  BoundInv'
  <2>1. Cardinality(Loading) = Cardinality({u \in Threads : pc[u] \in
          {"build", "load-lock", "load-wait", "load-count"}})
    BY DEF Loading, OnTheWay
  <2>2. nextID + Cardinality(Loading) < MaxHandles
    BY <1>1, <2>1 DEF TabnasGrammar
  <2>. QED
    BY <1>1, <2>2, <1>0, BoundKept DEF TabnasGrammar, TypeOK, OnTheWay
<1>2. ASSUME NEW t \in Threads, NEW handle \in 0 .. MaxHandles, NEW buffer \in {"valid", "bad"},
             TabnasParse(t, handle, buffer)
      PROVE  BoundInv'
  BY <1>2, <1>0, BoundKept DEF TabnasParse, TypeOK, OnTheWay
<1>3. ASSUME NEW t \in Threads, NEW handle \in 0 .. MaxHandles, TabnasGrammarFree(t, handle)
      PROVE  BoundInv'
  BY <1>3, <1>0, BoundKept DEF TabnasGrammarFree, TypeOK, OnTheWay
<1>4. ASSUME NEW t \in Threads, NEW from, NEW to,
             <<from, to>> \in {<<"load-lock", "load-wait">>, <<"free-lock", "free-wait">>},
             Lock(t, from, to)
      PROVE  BoundInv'
  BY <1>4, <1>0, BoundKept DEF Lock, TypeOK, OnTheWay
<1>5. ASSUME NEW t \in Threads, RLock(t, "parse-rlock", "parse-lookup")
      PROVE  BoundInv'
  BY <1>5, <1>0, BoundKept DEF RLock, TypeOK, OnTheWay
<1>6. ASSUME NEW t \in Threads, EngineLock(t)
      PROVE  BoundInv'
  BY <1>6, <1>0, BoundKept DEF EngineLock, TypeOK, OnTheWay
<1>7. ASSUME NEW t \in Threads, SafeNew(t)
      PROVE  BoundInv'
  BY <1>7, <1>0, BoundKept DEF SafeNew, TypeOK, OnTheWay
<1>8. ASSUME NEW t \in Threads, NEW from, NEW to,
             <<from, to>> \in {<<"load-wait", "load-count">>, <<"free-wait", "free-delete">>},
             Locked(t, from, to)
      PROVE  BoundInv'
  BY <1>8, <1>0, BoundKept DEF Locked, TypeOK, OnTheWay
<1>9. ASSUME NEW t \in Threads, LoadCount(t)
      PROVE  BoundInv'
  BY <1>9, <1>0, BoundKept DEF LoadCount, TypeOK, OnTheWay
<1>10. ASSUME NEW t \in Threads, LoadStore(t)
      PROVE  BoundInv'
  BY <1>10, <1>0, BoundKept DEF LoadStore, TypeOK, OnTheWay
<1>11. ASSUME NEW t \in Threads, NEW from, NEW to,
             <<from, to>> \in {<<"load-unlock", "return">>, <<"free-unlock", "return">>},
             Unlock(t, from, to)
      PROVE  BoundInv'
  BY <1>11, <1>0, BoundKept DEF Unlock, TypeOK, OnTheWay
<1>12. ASSUME NEW t \in Threads, Lookup(t)
      PROVE  BoundInv'
  BY <1>12, <1>0, BoundKept DEF Lookup, TypeOK, OnTheWay
<1>13. ASSUME NEW t \in Threads, RUnlock(t)
      PROVE  BoundInv'
  BY <1>13, <1>0, BoundKept DEF RUnlock, TypeOK, OnTheWay
<1>14. ASSUME NEW t \in Threads, SafeParse(t)
      PROVE  BoundInv'
  BY <1>14, <1>0, BoundKept DEF SafeParse, TypeOK, OnTheWay
<1>15. ASSUME NEW t \in Threads, EngineUnlock(t)
      PROVE  BoundInv'
  BY <1>15, <1>0, BoundKept DEF EngineUnlock, TypeOK, OnTheWay
<1>16. ASSUME NEW t \in Threads, Delete(t)
      PROVE  BoundInv'
  BY <1>16, <1>0, BoundKept DEF Delete, TypeOK, OnTheWay
<1>17. ASSUME NEW t \in Threads, Return(t)
      PROVE  BoundInv'
  BY <1>17, <1>0, BoundKept DEF Return, TypeOK, OnTheWay
<1>18. CASE UNCHANGED vars
  BY <1>18 DEF vars, Loading, BoundInv
<1>. QED
  BY <1>1, <1>2, <1>3, <1>4, <1>5, <1>6, <1>7, <1>8, <1>9, <1>10, <1>11, <1>12, <1>13, <1>14, <1>15, <1>16, <1>17, <1>18 DEF Next, Call, Acquire, Proceed

(* A step of one thread, seen by the callers: the others' calls stand      *)
(* where they stood, with the answers they had.                            *)
LEMMA OneMoves ==
  ASSUME TypeOK, NEW t \in Threads,
         \A u \in Threads \ {t} : pc'[u] = pc[u] /\ found'[u] = found[u] /\ reply'[u] = reply[u]
  PROVE  /\ Phases' = [Phases EXCEPT ![t] = Phase(t)']
         /\ Answers' = [Answers EXCEPT ![t] = Answered(t)']
<1>1. \A u \in Threads \ {t} : Phase(u)' = Phase(u) /\ Answered(u)' = Answered(u)
  BY DEF Phase, Answered
<1>. QED
  BY <1>1 DEF Phases, Answers

(* So it is the caller's call alone that becomes something else. *)
LEMMA Becomes ==
  ASSUME TypeOK, NEW t \in Threads, NEW phase, NEW handle, NEW answer,
         \A u \in Threads \ {t} : pc'[u] = pc[u] /\ found'[u] = found[u] /\ reply'[u] = reply[u],
         Phase(t)' = phase, Answered(t)' = answer, arg' = [arg EXCEPT ![t] = handle]
  PROVE  Promise!Become(t, phase, handle, answer)
BY OneMoves DEF Promise!Become

(* A step after which its own caller sees what it saw is no step at all.   *)
LEMMA CallersSeeNothing ==
  ASSUME TypeOK, NEW t \in Threads,
         \A u \in Threads \ {t} : pc'[u] = pc[u] /\ found'[u] = found[u] /\ reply'[u] = reply[u],
         Phase(t)' = Phase(t), Answered(t)' = Answered(t), UNCHANGED <<loaded, issued, arg>>
  PROVE  UNCHANGED Promise!vars
<1>1. Phases' = Phases /\ Answers' = Answers
  BY OneMoves DEF Phases, Answers
<1>. QED
  BY <1>1 DEF Promise!vars

(* Every step of the registry is a step its callers were promised, or one  *)
(* they cannot see.                                                        *)
LEMMA PromiseStep == IInv /\ BoundInv /\ [Next]_vars => [Promise!Next]_Promise!vars
<1> SUFFICES ASSUME IInv, BoundInv, [Next]_vars PROVE Promise!Next \/ UNCHANGED Promise!vars
  OBVIOUS
<1>0. TypeOK
  BY DEF IInv
<1>. USE <1>0 DEF Goto, Reply, local, registry, history
<1>1. ASSUME NEW t \in Threads, NEW opts \in OptsArgument, TabnasGrammar(t, opts)
      PROVE  Promise!Next \/ UNCHANGED Promise!vars
  <2>1. CASE opts \in {"absent", "empty-object"}
    <3>1. Promise!Become(t, "load", 0, "none")
      <4>1. Phase(t)' = "load" /\ Answered(t)' = "none" /\ arg' = [arg EXCEPT ![t] = 0]
        BY <1>1, <2>1 DEF TabnasGrammar, TypeOK, Phase, Answered
      <4>. QED
        BY <1>1, <2>1, <4>1, Becomes DEF TabnasGrammar, TypeOK
    <3>. QED
      BY <1>1, <3>1, MaxHandlesAssumption DEF TabnasGrammar, Promise!Call, Promise!Next, Phases, Phase
  <2>2. CASE opts \notin {"absent", "empty-object"}
    <3>1. Promise!Become(t, "return", 0, "usage")
      <4>1. Phase(t)' = "return" /\ Answered(t)' = "usage" /\ arg' = [arg EXCEPT ![t] = 0]
        BY <1>1, <2>2 DEF TabnasGrammar, TypeOK, Phase, Answered
      <4>. QED
        BY <1>1, <2>2, <4>1, Becomes DEF TabnasGrammar, TypeOK
    <3>. QED
      BY <1>1, <3>1 DEF TabnasGrammar, Promise!Refused, Promise!Refusals, Promise!Next, Phases, Phase
  <2>. QED
    BY <2>1, <2>2
<1>2. ASSUME NEW t \in Threads, NEW handle \in 0 .. MaxHandles, NEW buffer \in {"valid", "bad"},
             TabnasParse(t, handle, buffer)
      PROVE  Promise!Next \/ UNCHANGED Promise!vars
  <2>1. CASE buffer = "valid"
    <3>1. Promise!Become(t, "parse", handle, "none")
      <4>1. Phase(t)' = "parse" /\ Answered(t)' = "none" /\ arg' = [arg EXCEPT ![t] = handle]
        BY <1>2, <2>1 DEF TabnasParse, TypeOK, Phase, Answered
      <4>. QED
        BY <1>2, <2>1, <4>1, Becomes DEF TabnasParse, TypeOK
    <3>. QED
      BY <1>2, <3>1 DEF TabnasParse, Promise!Call, Promise!Next, Phases, Phase
  <2>2. CASE buffer # "valid"
    <3>1. Promise!Become(t, "return", 0, "usage")
      <4>1. Phase(t)' = "return" /\ Answered(t)' = "usage" /\ arg' = [arg EXCEPT ![t] = 0]
        BY <1>2, <2>2 DEF TabnasParse, TypeOK, Phase, Answered
      <4>. QED
        BY <1>2, <2>2, <4>1, Becomes DEF TabnasParse, TypeOK
    <3>. QED
      BY <1>2, <3>1 DEF TabnasParse, Promise!Refused, Promise!Refusals, Promise!Next, Phases, Phase
  <2>. QED
    BY <2>1, <2>2
<1>3. ASSUME NEW t \in Threads, NEW handle \in 0 .. MaxHandles, TabnasGrammarFree(t, handle)
      PROVE  Promise!Next \/ UNCHANGED Promise!vars
  <2>1. Promise!Become(t, "free", handle, "none")
    <3>1. Phase(t)' = "free" /\ Answered(t)' = "none" /\ arg' = [arg EXCEPT ![t] = handle]
      BY <1>3 DEF TabnasGrammarFree, TypeOK, Phase, Answered
    <3>. QED
      BY <1>3, <3>1, Becomes DEF TabnasGrammarFree, TypeOK
  <2>. QED
    BY <1>3, <2>1 DEF TabnasGrammarFree, Promise!Call, Promise!Next, Phases, Phase
<1>4. ASSUME NEW t \in Threads, NEW from, NEW to,
             <<from, to>> \in {<<"load-lock", "load-wait">>, <<"free-lock", "free-wait">>},
             Lock(t, from, to)
      PROVE  Promise!Next \/ UNCHANGED Promise!vars
  BY <1>4, CallersSeeNothing DEF Lock, TypeOK, Phase, Answered
<1>5. ASSUME NEW t \in Threads, RLock(t, "parse-rlock", "parse-lookup")
      PROVE  Promise!Next \/ UNCHANGED Promise!vars
  BY <1>5, CallersSeeNothing DEF RLock, TypeOK, Phase, Answered
<1>6. ASSUME NEW t \in Threads, EngineLock(t)
      PROVE  Promise!Next \/ UNCHANGED Promise!vars
  BY <1>6, CallersSeeNothing DEF EngineLock, TypeOK, Phase, Answered
<1>7. ASSUME NEW t \in Threads, SafeNew(t)
      PROVE  Promise!Next \/ UNCHANGED Promise!vars
  <2>1. CASE Goto(t, "build", "load-lock") /\ UNCHANGED <<local, registry>>
    BY <2>1, CallersSeeNothing DEF TypeOK, Phase, Answered
  <2>2. CASE Goto(t, "build", "return") /\ Reply(t, "grammar") /\ UNCHANGED <<arg, found, registry>>
    <3>1. Promise!Become(t, "return", 0, "grammar")
      <4>1. Phase(t)' = "return" /\ Answered(t)' = "grammar" /\ arg' = [arg EXCEPT ![t] = 0]
        BY <2>2 DEF BoundInv, OnTheWay, TypeOK, Phase, Answered
      <4>. QED
        BY <2>2, <4>1, Becomes DEF BoundInv, OnTheWay, TypeOK
    <3>. QED
      BY <2>2, <3>1 DEF Promise!Refused, Promise!Refusals, Promise!Next, Phases, Phase
  <2>. QED
    BY <1>7, <2>1, <2>2 DEF SafeNew
<1>8. ASSUME NEW t \in Threads, NEW from, NEW to,
             <<from, to>> \in {<<"load-wait", "load-count">>, <<"free-wait", "free-delete">>},
             Locked(t, from, to)
      PROVE  Promise!Next \/ UNCHANGED Promise!vars
  BY <1>8, CallersSeeNothing DEF Locked, TypeOK, Phase, Answered
<1>9. ASSUME NEW t \in Threads, LoadCount(t)
      PROVE  Promise!Next \/ UNCHANGED Promise!vars
  BY <1>9, CallersSeeNothing DEF LoadCount, TypeOK, Phase, Answered
<1>10. ASSUME NEW t \in Threads, LoadStore(t)
      PROVE  Promise!Next \/ UNCHANGED Promise!vars
  <2>1. nextID \in (1 .. MaxHandles) \ issued
    BY <1>10, FS_CardinalityType, MaxHandlesAssumption DEF LoadStore, IInv, IssueInv, BoundInv, TypeOK
  <2>2. Promise!Become(t, "return", nextID, "loaded")
    <3>1. Phase(t)' = "return" /\ Answered(t)' = "loaded" /\ arg' = [arg EXCEPT ![t] = nextID]
      BY <1>10 DEF LoadStore, TypeOK, Phase, Answered
    <3>. QED
      BY <1>10, <3>1, Becomes DEF LoadStore, TypeOK
  <2>. QED
    BY <1>10, <2>1, <2>2 DEF LoadStore, Promise!Load, Promise!Next, Phases, Phase
<1>11. ASSUME NEW t \in Threads, NEW from, NEW to,
             <<from, to>> \in {<<"load-unlock", "return">>, <<"free-unlock", "return">>},
             Unlock(t, from, to)
      PROVE  Promise!Next \/ UNCHANGED Promise!vars
  BY <1>11, CallersSeeNothing DEF Unlock, TypeOK, Phase, Answered
<1>12. ASSUME NEW t \in Threads, Lookup(t)
      PROVE  Promise!Next \/ UNCHANGED Promise!vars
  <2>1. reply[t] = "none" /\ 0 \notin loaded
    BY <1>12 DEF Lookup, IInv, RetireInv, IssueInv, TypeOK
  <2>2. CASE arg[t] \in loaded
    <3>1. Promise!Become(t, "found", arg[t], "none")
      <4>1. Phase(t)' = "found" /\ Answered(t)' = "none" /\ arg' = [arg EXCEPT ![t] = arg[t]]
        BY <1>12, <2>1, <2>2 DEF Lookup, TypeOK, Phase, Answered
      <4>. QED
        BY <1>12, <2>1, <2>2, <4>1, Becomes DEF Lookup, TypeOK
    <3>. QED
      BY <1>12, <2>2, <3>1 DEF Lookup, Promise!Resolve, Promise!Next, Phases, Phase
  <2>3. CASE arg[t] \notin loaded
    <3>1. Promise!Become(t, "return", arg[t], "handle")
      <4>1. Phase(t)' = "return" /\ Answered(t)' = "handle" /\ arg' = [arg EXCEPT ![t] = arg[t]]
        BY <1>12, <2>1, <2>3 DEF Lookup, TypeOK, Phase, Answered
      <4>. QED
        BY <1>12, <2>1, <2>3, <4>1, Becomes DEF Lookup, TypeOK
    <3>. QED
      BY <1>12, <2>3, <3>1 DEF Lookup, Promise!Resolve, Promise!Next, Phases, Phase
  <2>. QED
    BY <2>2, <2>3
<1>13. ASSUME NEW t \in Threads, RUnlock(t)
      PROVE  Promise!Next \/ UNCHANGED Promise!vars
  BY <1>13, CallersSeeNothing DEF RUnlock, TypeOK, Phase, Answered
<1>14. ASSUME NEW t \in Threads, SafeParse(t)
      PROVE  Promise!Next \/ UNCHANGED Promise!vars
  <2>1. PICK r \in {"accept", "reject", "internal"} : Reply(t, r)
    BY <1>14 DEF SafeParse
  <2>2. Promise!Become(t, "return", arg[t], r)
    <3>1. Phase(t)' = "return" /\ Answered(t)' = r /\ arg' = [arg EXCEPT ![t] = arg[t]]
      BY <1>14, <2>1 DEF SafeParse, TypeOK, Phase, Answered
    <3>. QED
      BY <1>14, <2>1, <3>1, Becomes DEF SafeParse, TypeOK
  <2>. QED
    BY <1>14, <2>2 DEF SafeParse, Promise!Answer, Promise!Answers, Promise!Next, Phases, Phase
<1>15. ASSUME NEW t \in Threads, EngineUnlock(t)
      PROVE  Promise!Next \/ UNCHANGED Promise!vars
  BY <1>15, CallersSeeNothing DEF EngineUnlock, TypeOK, Phase, Answered
<1>16. ASSUME NEW t \in Threads, Delete(t)
      PROVE  Promise!Next \/ UNCHANGED Promise!vars
  <2>1. Promise!Become(t, "return", arg[t], "freed")
    <3>1. Phase(t)' = "return" /\ Answered(t)' = "freed" /\ arg' = [arg EXCEPT ![t] = arg[t]]
      BY <1>16 DEF Delete, TypeOK, Phase, Answered
    <3>. QED
      BY <1>16, <3>1, Becomes DEF Delete, TypeOK
  <2>. QED
    BY <1>16, <2>1 DEF Delete, Promise!Free, Promise!Next, Phases, Phase
<1>17. ASSUME NEW t \in Threads, Return(t)
      PROVE  Promise!Next \/ UNCHANGED Promise!vars
  <2>1. Promise!Become(t, "idle", 0, Answered(t))
    <3>1. Phase(t)' = "idle" /\ Answered(t)' = Answered(t) /\ arg' = [arg EXCEPT ![t] = 0]
      BY <1>17 DEF Return, TypeOK, Phase, Answered
    <3>. QED
      BY <1>17, <3>1, Becomes DEF Return, TypeOK
  <2>2. Phases[t] = "return" /\ Answers[t] = Answered(t) /\ UNCHANGED <<loaded, issued>>
    BY <1>17 DEF Return, Phases, Phase, Answers
  <2>. QED
    BY <2>1, <2>2 DEF Promise!Return, Promise!Next
<1>18. CASE UNCHANGED vars
  BY <1>18 DEF vars, Promise!vars, Phases, Answers, Phase, Answered
<1>. QED
  BY <1>1, <1>2, <1>3, <1>4, <1>5, <1>6, <1>7, <1>8, <1>9, <1>10, <1>11, <1>12, <1>13, <1>14, <1>15, <1>16, <1>17, <1>18 DEF Next, Call, Acquire, Proceed

(* Every call takes effect at one instant between its call and its return, *)
(* whatever the other threads do meanwhile: the registry implements what   *)
(* the C ABI promises its callers (tabnas.h 11-25, 42-53).                 *)
THEOREM CallsTakeEffectAtOnce == Spec => CallsAreAtomic
<1>1. Init => BoundInv
  <2> SUFFICES ASSUME Init PROVE BoundInv
    OBVIOUS
  <2>1. Loading = {}
    BY DEF Init, Loading, OnTheWay
  <2>. QED
    BY <2>1, FS_EmptySet, MaxHandlesAssumption DEF Init, BoundInv, OnTheWay
<1>2. IInv /\ BoundInv /\ [Next]_vars => BoundInv'
  BY BoundStep DEF IInv
<1>3. Init => Promise!Init
  BY DEF Init, Promise!Init, Phases, Answers, Phase, Answered
<1>. QED
  BY <1>1, <1>2, <1>3, PromiseStep, Invariant, PTL DEF Spec, CallsAreAtomic, Promise!Spec
===============================================================================
