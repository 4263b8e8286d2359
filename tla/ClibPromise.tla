------------------------------ MODULE ClibPromise ------------------------------
(***************************************************************************)
(* The handle registry seen from its callers: where each call stands and   *)
(* what it has answered, by which the registry (Clib) is held to what the  *)
(* C ABI promises (ParserRegistry).                                        *)
(***************************************************************************)
EXTENDS Clib

(* Where a call stands, seen from its caller. *)
Phase(t) ==
  CASE pc[t] = "idle" -> "idle"
    [] pc[t] \in {"build", "load-lock", "load-wait", "load-count", "load-store"} -> "load"
    [] pc[t] \in {"parse-rlock", "parse-lookup"} -> "parse"
    [] pc[t] \in {"parse-lock", "parse-run"} -> "found"
    [] pc[t] = "parse-runlock" -> IF found[t] = 0 THEN "return" ELSE "found"
    [] pc[t] \in {"free-lock", "free-wait", "free-delete"} -> "free"
    [] OTHER -> "return"

Answered(t) ==
  IF pc[t] = "parse-runlock" /\ found[t] = 0 THEN "handle" ELSE reply[t]

Phases  == [t \in Threads |-> Phase(t)]
Answers == [t \in Threads |-> Answered(t)]

Promise == INSTANCE ParserRegistry WITH
             live <- loaded,
             phase <- Phases,
             reply <- Answers

(* Every call takes effect at one instant between its call and its return: *)
(* a load when its parser is stored, a free when it is deleted, a parse    *)
(* when its handle is looked up; and an answer depends on nothing else     *)
(* (tabnas.h 11-25, 42-53).                                                *)
CallsAreAtomic == Promise!Spec
===============================================================================
