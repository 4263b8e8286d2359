---------------------------- MODULE ParserRegistry ----------------------------
(***************************************************************************)
(* What the C ABI promises its callers (go/clib/include/tabnas.h): each    *)
(* call behaves as if it happened at one instant between the moment it is  *)
(* made and the moment it returns.  A load issues a handle never issued    *)
(* before, or fails; a parse under a handle that is not loaded answers     *)
(* "handle"; a free unloads its handle, and is a no-op when there is none. *)
(***************************************************************************)
EXTENDS Integers

CONSTANTS
  Threads,      (* the host's threads                                      *)
  MaxHandles    (* bound: the handles ever issued                          *)

VARIABLES
  live,         (* the handles under which a parser is loaded              *)
  issued,       (* the handles ever issued                                 *)
  phase,        (* phase[t]: where thread t's call stands                  *)
  arg,          (* arg[t]: the handle the call is about                    *)
  reply         (* reply[t]: the call's answer                             *)

vars == <<live, issued, phase, arg, reply>>

Answers == {"accept", "reject", "internal"}
Refusals == {"usage", "grammar"}

Become(t, p, h, r) ==
  /\ phase' = [phase EXCEPT ![t] = p]
  /\ arg' = [arg EXCEPT ![t] = h]
  /\ reply' = [reply EXCEPT ![t] = r]

Init ==
  /\ live = {}
  /\ issued = {}
  /\ phase = [t \in Threads |-> "idle"]
  /\ arg = [t \in Threads |-> 0]
  /\ reply = [t \in Threads |-> "none"]

(* A call is made. *)
Call(t) ==
  /\ phase[t] = "idle"
  /\ \E p \in {"load", "parse", "free"}, h \in 0 .. MaxHandles : Become(t, p, h, "none")
  /\ UNCHANGED <<live, issued>>

(* A call refused before it reaches the registry. *)
Refused(t) ==
  /\ phase[t] \in {"idle", "load"}
  /\ \E r \in Refusals : Become(t, "return", 0, r)
  /\ UNCHANGED <<live, issued>>

(* A load takes effect: the handle is one no load was ever given. *)
Load(t) ==
  /\ phase[t] = "load"
  /\ \E h \in (1 .. MaxHandles) \ issued :
       /\ live' = live \cup {h}
       /\ issued' = issued \cup {h}
       /\ Become(t, "return", h, "loaded")

(* A parse takes effect: its handle is resolved, once. *)
Resolve(t) ==
  /\ phase[t] = "parse"
  /\ IF arg[t] \in live
     THEN Become(t, "found", arg[t], "none")
     ELSE Become(t, "return", arg[t], "handle")
  /\ UNCHANGED <<live, issued>>

(* The parser found answers, whatever has become of its handle since. *)
Answer(t) ==
  /\ phase[t] = "found"
  /\ \E r \in Answers : Become(t, "return", arg[t], r)
  /\ UNCHANGED <<live, issued>>

Free(t) ==
  /\ phase[t] = "free"
  /\ live' = live \ {arg[t]}
  /\ Become(t, "return", arg[t], "freed")
  /\ UNCHANGED issued

Return(t) ==
  /\ phase[t] = "return"
  /\ Become(t, "idle", 0, reply[t])
  /\ UNCHANGED <<live, issued>>

Next ==
  \E t \in Threads :
    Call(t) \/ Refused(t) \/ Load(t) \/ Resolve(t) \/ Answer(t) \/ Free(t) \/ Return(t)

Spec == Init /\ [][Next]_vars
===============================================================================
