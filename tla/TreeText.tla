------------------------------- MODULE TreeText -------------------------------
(***************************************************************************)
(* What json5-render promises, stated over the whole sequence of events    *)
(* and with no stack: which events a tree may hold next, what text a       *)
(* sequence of events is, and how much of it survives a run that fails.    *)
(* Each is defined by counting earlier events, so that no marker decides   *)
(* anything.                                                               *)
(***************************************************************************)
EXTENDS TreeEvents, Integers, FiniteSets, SequencesExt

CONSTANT MaxEvents

VARIABLES
  events,    (* the events offered so far                                  *)
  text,      (* the document's text so far                                 *)
  kept,      (* the part of it that is written out                         *)
  outcome

vars == <<events, text, kept, outcome>>

(* How many containers are open just before event i. *)
DepthBefore(es, i) ==
  Cardinality({j \in 1 .. i - 1 : es[j].kind \in Begins})
    - Cardinality({j \in 1 .. i - 1 : es[j].kind \in Ends})

(* The containers begun before event i, one level above it. *)
Around(es, i) ==
  {j \in 1 .. i - 1 : /\ es[j].kind \in Begins
                      /\ DepthBefore(es, j) = DepthBefore(es, i) - 1}

(* The event that began the container event i is directly inside; 0 at the root. *)
Parent(es, i) == IF Around(es, i) = {} THEN 0 ELSE Max(Around(es, i))

(* The keys and the values already begun in event i's container. *)
Earlier(es, i) ==
  {j \in Parent(es, i) + 1 .. i - 1 :
     DepthBefore(es, j) = DepthBefore(es, i) /\ es[j].kind \notin Ends}

Inside(es, i, kind) == Parent(es, i) # 0 /\ es[Parent(es, i)].kind = kind

KeyDue(es, i) ==
  Inside(es, i, "object-start") /\ Cardinality(Earlier(es, i)) % 2 = 0

(* Event i is one a tree may hold after the events before it. *)
OfATree(es, i) ==
  CASE es[i].kind = "key"        -> KeyDue(es, i)
    [] es[i].kind = "object-end" -> KeyDue(es, i)
    [] es[i].kind = "array-end"  -> Inside(es, i, "array-start")
    [] OTHER -> ~KeyDue(es, i) /\ (Parent(es, i) = 0 => i = 1)

(* The events so far are a whole tree. *)
Whole(es) == Len(es) > 0 /\ DepthBefore(es, Len(es) + 1) = 0

Spelling(e) ==
  CASE e.kind = "array-start"  -> <<"[">>
    [] e.kind = "array-end"    -> <<"]">>
    [] e.kind = "object-start" -> <<"{">>
    [] e.kind = "object-end"   -> <<"}">>
    [] e.kind = "key"          -> <<e.text, ":">>
    [] e.kind = "scalar"       -> <<e.text>>

(* A comma stands before a member or an item that follows one. *)
Follows(es, i) ==
  /\ es[i].kind \notin Ends
  /\ Earlier(es, i) # {}
  /\ es[i].kind = "key" \/ Inside(es, i, "array-start")

(* What event i adds to the text. *)
Piece(es, i) ==
  (IF Follows(es, i) THEN <<",">> ELSE << >>)
    \o Spelling(es[i])
    \o (IF Whole(SubSeq(es, 1, i)) THEN <<"\n">> ELSE << >>)

TextOf(es) == FlattenSeq([i \in 1 .. Len(es) |-> Piece(es, i)])

(* A record ends where the root opens, where a value directly inside it is *)
(* complete, and where the document is.                                    *)
RecordEnds(es) ==
  {i \in 1 .. Len(es) : DepthBefore(es, i + 1) \in {0, 1} /\ es[i].kind # "key"}

KeptOf(es) ==
  TextOf(SubSeq(es, 1, IF RecordEnds(es) = {} THEN 0 ELSE Max(RecordEnds(es))))

-------------------------------------------------------------------------------
Init ==
  /\ events = << >>
  /\ text = << >>
  /\ kept = << >>
  /\ outcome = "running"

(* The next event is one a tree may hold: the text so far is the text of   *)
(* the events so far.                                                      *)
Take(event) ==
  LET es == Append(events, event)
  IN  /\ outcome = "running"
      /\ Len(events) < MaxEvents
      /\ OfATree(es, Len(es))
      /\ events' = es
      /\ text' = TextOf(es)
      /\ kept' = KeptOf(es)
      /\ UNCHANGED outcome

(* The next event is one no tree holds: whole records are left behind. *)
Fail(event) ==
  LET es == Append(events, event)
  IN  /\ outcome = "running"
      /\ Len(events) < MaxEvents
      /\ ~OfATree(es, Len(es))
      /\ events' = es
      /\ outcome' = "failed"
      /\ text' = kept
      /\ UNCHANGED kept

End ==
  /\ outcome = "running"
  /\ outcome' = IF Whole(events) THEN "finished" ELSE "failed"
  /\ text' = kept
  /\ UNCHANGED <<events, kept>>

Next ==
  \/ \E event \in Event : Take(event) \/ Fail(event)
  \/ End

Spec == Init /\ [][Next]_vars
===============================================================================
