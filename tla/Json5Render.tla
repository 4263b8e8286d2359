----------------------------- MODULE Json5Render ------------------------------
(***************************************************************************)
(* alchemy/render.alc: a tree's events written as one JSON5 document, one  *)
(* event at a time, with nothing kept but a stack of markers.  The host    *)
(* that drives it (alchemy's scan-emit and its writer) is external: it     *)
(* calls the step once per event, holds the outputs of an unfinished       *)
(* record, writes them out when the step answers the end of a record, and  *)
(* drops what it holds when a step fails.                                  *)
(***************************************************************************)
EXTENDS JsonReader

CONSTANT MaxEvents   (* bound: the events one run may hold                 *)

ASSUME MaxEventsAssumption == MaxEvents \in Nat

VARIABLES
  stack,     (* the render's whole state: one marker per open container    *)
  written,   (* the text the host has written out                          *)
  held,      (* the text of a record that has not ended                    *)
  seen,      (* history: the events taken so far                           *)
  outcome    (* "running", "finished" or "failed"                          *)

vars == <<stack, written, held, seen, outcome>>

Marker == {"array-open", "array", "object-open", "object", "member", "root-done"}

Top(s) == IF Len(s) = 0 THEN "none" ELSE s[Len(s)]

Pop(s) == SubSeq(s, 1, Len(s) - 1)

(* The top container under another marker. *)
Mark(marker, s) == Append(Pop(s), marker)

(* A value completed under s. *)
Done(s) ==
  IF Len(s) = 0 THEN <<"root-done">>
  ELSE IF Top(s) = "member" THEN Mark("object", s) ELSE s

LeadOfFirst(s) == IF Top(s) = "array-open" THEN <<",">> ELSE << >>

(* What comes before a value whose parent is the top of s. *)
Lead(s) == IF Top(s) = "array" THEN <<",">> ELSE << >>

(* What comes after a value whose parent is the top of s. *)
Tail5(s) == IF Len(s) = 0 THEN <<"\n">> ELSE << >>

(* An array waiting for its first item has it. *)
Opened(s) == IF Top(s) = "array-open" THEN Mark("array", s) ELSE s

TakesValueAfterRoot(s) == Top(s) \notin {"object-open", "object"}

(* json5-value fails where a key is due, json5-step after the root. *)
TakesValue(s) == Top(s) \notin {"object-open", "object", "root-done"}

EndedOneDeeper(s, outputs) == IF Len(s) = 2 THEN Append(outputs, RecordEnd) ELSE outputs

(* The outputs of a step whose next state is s, the end of a record marked. *)
Ended(s, outputs) == IF Len(s) = 1 THEN Append(outputs, RecordEnd) ELSE outputs

-------------------------------------------------------------------------------
(* The host's writer: text is held until the step that ends its record. *)
EndsRecord(outputs) == outputs # << >> /\ outputs[Len(outputs)] = RecordEnd

WriteOut(outputs) ==
  IF EndsRecord(outputs)
  THEN /\ written' = written \o held \o Pop(outputs)
       /\ held' = << >>
  ELSE /\ held' = held \o outputs
       /\ UNCHANGED written

(* One step of the scan: the event is taken and the step's answer applied. *)
Transition(s, outputs, kind, text) ==
  /\ outcome = "running"
  /\ Len(seen) < MaxEvents
  /\ stack' = s
  /\ WriteOut(outputs)
  /\ seen' = Append(seen, [kind |-> kind, text |-> text])
  /\ UNCHANGED outcome

-------------------------------------------------------------------------------
(* json5-event's array-start and object-start: a container begins. *)
Begin(kind, marker, bracket) ==
  LET s == Append(Opened(stack), marker)
  IN  /\ TakesValue(stack)
      /\ Transition(s, Ended(s, Lead(stack) \o <<bracket>>), kind, "")

ArrayStart  == Begin("array-start", "array-open", "[")
ObjectStart == Begin("object-start", "object-open", "{")

(* json5-member: a key, after a comma when a member precedes it. *)
Member(name) ==
  /\ Top(stack) \in {"object-open", "object"}
  /\ Transition(Mark("member", stack),
                (IF Top(stack) = "object" THEN <<",">> ELSE << >>) \o <<name, ":">>,
                "key", name)

(* json5-event's scalar: a value that opens nothing. *)
Scalar(value) ==
  LET s == Done(Opened(stack))
  IN  /\ TakesValue(stack)
      /\ Transition(s, Ended(s, Lead(stack) \o <<value>> \o Tail5(stack)),
                    "scalar", value)

(* json5-closed: the container at the top ends, and is a value completed. *)
Close(kind, markers, bracket) ==
  LET s == Done(Pop(stack))
  IN  /\ Top(stack) \in markers
      /\ Transition(s, Ended(s, <<bracket>> \o Tail5(Pop(stack))), kind, "")

ObjectEnd == Close("object-end", {"object-open", "object"}, "}")
ArrayEnd  == Close("array-end", {"array-open", "array"}, "]")

(* The arms of json5-step, -value, -member and -event that fail. *)
Rejects(s, kind) ==
  \/ kind \in Begins \cup {"scalar"} /\ ~TakesValue(s)
  \/ kind = "key"        /\ Top(s) \notin {"object-open", "object"}
  \/ kind = "object-end" /\ Top(s) \notin {"object-open", "object"}
  \/ kind = "array-end"  /\ Top(s) \notin {"array-open", "array"}

RefuseAndFlush(event) ==
  /\ outcome = "running"
  /\ Len(seen) < MaxEvents
  /\ Rejects(stack, event.kind)
  /\ seen' = Append(seen, event)
  /\ outcome' = "failed"
  /\ written' = written \o held
  /\ held' = << >>
  /\ UNCHANGED stack

(* PROTOCOL_ORDER_ERROR: the run fails, and the host drops what it holds. *)
Refuse(event) ==
  /\ outcome = "running"
  /\ Len(seen) < MaxEvents
  /\ Rejects(stack, event.kind)
  /\ seen' = Append(seen, event)
  /\ outcome' = "failed"
  /\ held' = << >>
  /\ UNCHANGED <<stack, written>>

(* json5-finish: the events end, which is right only after the root value. *)
Finish ==
  /\ outcome = "running"
  /\ outcome' = IF Top(stack) = "root-done" THEN "finished" ELSE "failed"
  /\ held' = << >>
  /\ UNCHANGED <<stack, written, seen>>

-------------------------------------------------------------------------------
Init ==
  /\ stack = << >>
  /\ written = << >>
  /\ held = << >>
  /\ seen = << >>
  /\ outcome = "running"

Next ==
  \/ ArrayStart
  \/ ObjectStart
  \/ \E name \in Keys : Member(name)
  \/ \E value \in Scalars : Scalar(value)
  \/ ObjectEnd
  \/ ArrayEnd
  \/ \E event \in Event : Refuse(event)
  \/ Finish

Spec == Init /\ [][Next]_vars

-------------------------------------------------------------------------------
(* The render's state is a stack of markers, the texts are tokens. *)
TypeOK ==
  /\ stack \in Seq(Marker)
  /\ written \in Seq(Token)
  /\ held \in Seq(Token)
  /\ seen \in Seq(Event)
  /\ outcome \in {"running", "finished", "failed"}

(* Every container under the top one is suspended inside a value: an array *)
(* with an item begun or an object whose key is written.  No container is  *)
(* left waiting for its first item or its next key while another is open   *)
(* inside it, and the mark of a written document stands alone (render.alc  *)
(* 25-35).                                                                 *)
StackShape ==
  /\ \A i \in 1 .. Len(stack) - 1 : stack[i] \in {"array", "member"}
  /\ \A i \in 1 .. Len(stack) : stack[i] = "root-done" => Len(stack) = 1

(* Between two records nothing is held: whenever the render stands at the  *)
(* root, or directly inside the root container with no key waiting for its *)
(* value, the host has written everything out (render.alc 37-41).          *)
NothingHeldBetweenRecords ==
  (Len(stack) = 0 \/ (Len(stack) = 1 /\ stack[1] # "member")) => held = << >>

(* What has been written and is held reads, as JSON, into exactly the      *)
(* events taken: no separator is missing or doubled, a string in a key's   *)
(* place is a key, nothing is lost (render.alc 6-17).                      *)
ReadsBack ==
  outcome = "running" =>
    LET r == Read(written \o held) IN r.ok /\ r.found = seen

(* A run that fails, at whatever event, leaves whole records: the text     *)
(* written out is JSON cut between two values of the root container, never *)
(* inside one and never after a key (render.alc 37-41).                    *)
WholeRecords ==
  LET r == Read(written)
  IN  /\ r.ok
      /\ Len(r.open) <= 1
      /\ r.want \in {"value", "first-item", "first-key", "more", "end"}
      /\ r.want = "value" => written = << >>
===============================================================================
