--------------------------- MODULE Json5RenderProofs --------------------------
(***************************************************************************)
(* Proofs about json5-render, for every set of spellings and every number  *)
(* of events: its stack keeps its shape and nothing is held between two    *)
(* records; a reader of JSON is, after every step, inside the containers   *)
(* of the stack, so the text reads back and failures leave whole records;  *)
(* and every step is the promised one (TreeText), because the stack says   *)
(* of each container still open what the events say of it.                 *)
(***************************************************************************)
EXTENDS RenderPromise, SequenceTheorems, FiniteSetTheorems, WellFoundedInduction,
        TLAPS

(* The inductive invariant: the record property needs the stack's shape to *)
(* know that ending a container one level down leaves one suspended in a   *)
(* value.                                                                  *)
IInv == TypeOK /\ StackShape /\ NothingHeldBetweenRecords

(* Popping a nonempty stack drops its top and keeps the rest. *)
LEMMA PopProperties ==
  ASSUME NEW S, NEW s \in Seq(S), Len(s) > 0
  PROVE  /\ Pop(s) \in Seq(S)
         /\ Len(Pop(s)) = Len(s) - 1
         /\ \A i \in 1 .. Len(s) - 1 : Pop(s)[i] = s[i]
<1> DEFINE n == Len(s) - 1
<1>1. n \in Nat /\ Len(s) = n + 1 /\ \A i \in 1 .. n : s[i] \in S
  BY LenProperties, ElementOfSeq
<1>2. Pop(s) = SubSeq(s, 1, n)
  BY DEF Pop
<1> HIDE DEF n
<1>3. /\ SubSeq(s, 1, n) \in Seq(S)
      /\ Len(SubSeq(s, 1, n)) = n
      /\ \A i \in 1 .. n : SubSeq(s, 1, n)[i] = s[i]
  BY <1>1, SubSeqProperties
<1>. QED
  BY <1>1, <1>2, <1>3

(* Punctuation and spellings are tokens, and a string of each is a text. *)
LEMMA TokenTexts ==
  /\ \A p \in Punctuation : p \in Token
  /\ << >> \in Seq(Token)
  /\ \A t \in Token : <<t>> \in Seq(Token)
  /\ \A t, u \in Token : <<t, u>> \in Seq(Token)
  /\ \A t, u \in Seq(Token) : t \o u \in Seq(Token)
  BY ConcatProperties DEF Token

(* What surrounds a value is a text. *)
LEMMA LeadAndTail == \A s : Lead(s) \in Seq(Token) /\ Tail5(s) \in Seq(Token)
  BY TokenTexts DEF Lead, Tail5, Punctuation

(* A stack has a top exactly when it is not empty. *)
LEMMA TopProperties ==
  ASSUME NEW s \in Seq(Marker)
  PROVE  /\ Len(s) \in Nat
         /\ Len(s) = 0 => Top(s) = "none"
         /\ Len(s) > 0 => Top(s) = s[Len(s)] /\ Top(s) \in Marker
         /\ Top(s) # "none" => Len(s) > 0
<1>1. Len(s) \in Nat
  BY LenProperties
<1>2. CASE Len(s) = 0
  BY <1>2 DEF Top
<1>3. CASE Len(s) > 0
  BY <1>3, <1>1, ElementOfSeq DEF Top, Marker
<1>. QED
  BY <1>1, <1>2, <1>3

(* Re-marking the top container changes the top and nothing else. *)
LEMMA MarkProperties ==
  ASSUME NEW s \in Seq(Marker), Len(s) > 0, NEW m \in Marker
  PROVE  /\ Mark(m, s) \in Seq(Marker)
         /\ Len(Mark(m, s)) = Len(s)
         /\ Mark(m, s)[Len(s)] = m
         /\ \A i \in 1 .. Len(s) - 1 : Mark(m, s)[i] = s[i]
  BY PopProperties, AppendProperties DEF Mark

(* A step's outputs are written out exactly when its state is one level    *)
(* deep, and only tokens reach the texts; either way they follow the text. *)
LEMMA EndedWritesOut ==
  ASSUME TypeOK, NEW s, Len(s) \in Nat, NEW outputs \in Seq(Token),
         WriteOut(Ended(s, outputs))
  PROVE  /\ written' \in Seq(Token)
         /\ held' \in Seq(Token)
         /\ Len(s) = 1 => held' = << >> /\ written' = (written \o held) \o outputs
         /\ Len(s) # 1 => written' = written /\ held' = held \o outputs
<1>1. RecordEnd \notin Token
  BY SpellingsAssumption DEF Token, RecordEnd, Punctuation
<1>2. CASE Len(s) = 1
  <2>1. Ended(s, outputs) = Append(outputs, RecordEnd)
    BY <1>2 DEF Ended
  <2>2. /\ Ended(s, outputs) \in Seq(Token \cup {RecordEnd})
        /\ Len(Ended(s, outputs)) = Len(outputs) + 1
        /\ Ended(s, outputs)[Len(outputs) + 1] = RecordEnd
        /\ \A i \in 1 .. Len(outputs) : Ended(s, outputs)[i] = outputs[i]
    BY <2>1, AppendProperties, SeqMonotonic
  <2>3. EndsRecord(Ended(s, outputs))
    BY <2>2, EmptySeq, LenProperties DEF EndsRecord
  <2>4. Pop(Ended(s, outputs)) = outputs
    <3> DEFINE S == Token \cup {RecordEnd}
               e == Ended(s, outputs)
    <3>1. outputs \in Seq(S) /\ Len(outputs) \in Nat
      BY SeqMonotonic, LenProperties
    <3>2. e \in Seq(S) /\ Len(e) > 0 /\ Len(e) - 1 = Len(outputs)
      BY <2>2, <3>1
    <3> HIDE DEF S, e
    <3>3. /\ Pop(e) \in Seq(S) /\ Len(Pop(e)) = Len(outputs)
          /\ \A i \in 1 .. Len(outputs) : Pop(e)[i] = e[i]
      BY <3>2, PopProperties
    <3>4. \A i \in 1 .. Len(outputs) : Pop(e)[i] = outputs[i]
      BY <2>2, <3>3 DEF e
    <3>. QED
      BY <3>1, <3>3, <3>4, SeqEqual DEF e
  <2>5. written' = written \o held \o outputs /\ held' = << >>
    BY <2>3, <2>4 DEF WriteOut
  <2>6. written' \in Seq(Token) /\ held' \in Seq(Token)
    BY <2>5, ConcatProperties, EmptySeq DEF TypeOK
  <2>. QED
    BY <1>2, <2>5, <2>6
<1>3. CASE Len(s) # 1
  <2>1. Ended(s, outputs) = outputs
    BY <1>3 DEF Ended
  <2>2. ~EndsRecord(outputs)
    BY <1>1, LenProperties, ElementOfSeq, EmptySeq DEF EndsRecord
  <2>3. written' = written /\ held' = held \o outputs
    BY <2>1, <2>2 DEF WriteOut
  <2>. QED
    BY <2>3, <1>3, ConcatProperties DEF TypeOK
<1>. QED
  BY <1>2, <1>3

(* A stack that takes a value is one whose containers are all suspended    *)
(* inside a value, once the array that had no item has it.                 *)
LEMMA OpenedProperties ==
  ASSUME stack \in Seq(Marker), StackShape, TakesValue(stack)
  PROVE  /\ Opened(stack) \in Seq(Marker)
         /\ Len(Opened(stack)) = Len(stack)
         /\ \A i \in 1 .. Len(stack) : Opened(stack)[i] \in {"array", "member"}
<1>1. Len(stack) \in Nat
  BY LenProperties
<1>2. CASE Top(stack) = "array-open"
  <2>1. Len(stack) > 0 /\ Opened(stack) = Mark("array", stack)
    BY <1>2, TopProperties DEF Opened
  <2>2. /\ Mark("array", stack) \in Seq(Marker)
        /\ Len(Mark("array", stack)) = Len(stack)
        /\ Mark("array", stack)[Len(stack)] = "array"
        /\ \A i \in 1 .. Len(stack) - 1 : Mark("array", stack)[i] = stack[i]
    BY <2>1, MarkProperties DEF Marker
  <2>. QED
    BY <1>1, <2>1, <2>2 DEF StackShape
<1>3. CASE Top(stack) # "array-open" /\ Len(stack) > 0
  <2>1. Opened(stack) = stack
    BY <1>3 DEF Opened
  <2>2. stack[Len(stack)] \in {"array", "member"}
    BY <1>3, TopProperties DEF TakesValue, Marker
  <2>. QED
    BY <1>1, <2>1, <2>2 DEF StackShape
<1>4. CASE Len(stack) = 0
  <2>1. Opened(stack) = stack
    BY <1>4, TopProperties DEF Opened
  <2>. QED
    BY <1>4, <2>1
<1>. QED
  BY <1>1, <1>2, <1>3, <1>4

(* A value beginning a container under a stack that takes one. *)
LEMMA BeginKeepsInvariant ==
  ASSUME IInv, NEW kind \in Begins, NEW marker \in {"array-open", "object-open"},
         NEW bracket \in Punctuation, Begin(kind, marker, bracket)
  PROVE  IInv'
<1> USE DEF IInv
<1> DEFINE o == Opened(stack)
           s == Append(o, marker)
           outputs == Lead(stack) \o <<bracket>>
<1>1. /\ o \in Seq(Marker)
      /\ Len(o) = Len(stack)
      /\ \A i \in 1 .. Len(o) : o[i] \in {"array", "member"}
  BY OpenedProperties DEF Begin, TypeOK
<1>2. outputs \in Seq(Token)
  BY TokenTexts, LeadAndTail
<1>3. stack' = s /\ WriteOut(Ended(s, outputs))
  BY DEF Begin, Transition
<1>4. /\ s \in Seq(Marker) /\ Len(s) = Len(stack) + 1
      /\ \A i \in 1 .. Len(stack) : s[i] \in {"array", "member"}
      /\ s[Len(s)] = marker
  BY <1>1, AppendProperties DEF Marker, TypeOK
<1>a. Len(stack) \in Nat
  BY LenProperties DEF TypeOK
<1> HIDE DEF s, outputs
<1>5. StackShape'
  BY <1>3, <1>4, <1>a DEF StackShape
<1>6. written' \in Seq(Token) /\ held' \in Seq(Token) /\ (Len(s) = 1 => held' = << >>)
  <2>1. Len(s) \in Nat
    BY <1>4, <1>a
  <2>2. TypeOK
    OBVIOUS
  <2>. QED
    BY ONLY <1>2, <1>3, <2>1, <2>2, EndedWritesOut
<1>7. TypeOK'
  <2>1. seen' \in Seq(Event) /\ outcome' = outcome
    BY AppendProperties DEF TypeOK, Begin, Transition, Event
  <2>. QED
    BY <1>3, <1>4, <1>6, <2>1 DEF TypeOK
<1>8. NothingHeldBetweenRecords'
  BY <1>3, <1>4, <1>6, <1>a DEF NothingHeldBetweenRecords
<1>. QED
  BY <1>5, <1>7, <1>8

(* A completed value leaves a stack of the right shape, of the same length *)
(* unless it was the root value.                                           *)
LEMMA DoneProperties ==
  ASSUME NEW s \in Seq(Marker),
         \A i \in 1 .. Len(s) - 1 : s[i] \in {"array", "member"},
         Len(s) > 0 => s[Len(s)] # "root-done"
  PROVE  /\ Done(s) \in Seq(Marker)
         /\ Len(Done(s)) = IF Len(s) = 0 THEN 1 ELSE Len(s)
         /\ \A i \in 1 .. Len(Done(s)) - 1 : Done(s)[i] \in {"array", "member"}
         /\ \A i \in 1 .. Len(Done(s)) : Done(s)[i] = "root-done" => Len(Done(s)) = 1
<1>1. CASE Len(s) = 0
  BY <1>1 DEF Done, Marker
<1>2. CASE Len(s) > 0 /\ s[Len(s)] = "member"
  <2>1. Done(s) = Mark("object", s) /\ Len(s) \in Nat
    BY <1>2, LenProperties DEF Done, Top
  <2>2. /\ Mark("object", s) \in Seq(Marker)
        /\ Len(Mark("object", s)) = Len(s)
        /\ Mark("object", s)[Len(s)] = "object"
        /\ \A i \in 1 .. Len(s) - 1 : Mark("object", s)[i] = s[i]
    BY <1>2, MarkProperties DEF Marker
  <2>. QED
    BY <1>2, <2>1, <2>2
<1>3. CASE Len(s) > 0 /\ s[Len(s)] # "member"
  BY <1>3 DEF Done, Top
<1>. QED
  BY <1>1, <1>2, <1>3

(* A step that completes a value: what the stack s becomes is marked done. *)
LEMMA CompletionKeepsInvariant ==
  ASSUME IInv, NEW s \in Seq(Marker), NEW outputs \in Seq(Token),
         NEW kind, NEW text, [kind |-> kind, text |-> text] \in Event,
         \A i \in 1 .. Len(s) - 1 : s[i] \in {"array", "member"},
         Len(s) > 0 => s[Len(s)] # "root-done",
         Transition(Done(s), Ended(Done(s), outputs), kind, text)
  PROVE  IInv'
<1> USE DEF IInv
<1>1. stack' = Done(s) /\ WriteOut(Ended(Done(s), outputs))
  BY DEF Transition
<1>2. /\ Done(s) \in Seq(Marker)
      /\ Len(Done(s)) \in Nat \ {0}
      /\ \A i \in 1 .. Len(Done(s)) - 1 : Done(s)[i] \in {"array", "member"}
      /\ \A i \in 1 .. Len(Done(s)) : Done(s)[i] = "root-done" => Len(Done(s)) = 1
  <2>1. Len(s) \in Nat
    BY LenProperties
  <2> DEFINE d == Done(s)
  <2>2. /\ d \in Seq(Marker)
        /\ Len(d) = IF Len(s) = 0 THEN 1 ELSE Len(s)
        /\ \A i \in 1 .. Len(d) - 1 : d[i] \in {"array", "member"}
        /\ \A i \in 1 .. Len(d) : d[i] = "root-done" => Len(d) = 1
    BY DoneProperties
  <2> HIDE DEF d
  <2>3. Len(d) \in Nat \ {0}
    BY <2>1, <2>2
  <2>. QED
    BY <2>2, <2>3 DEF d
<1>3. /\ written' \in Seq(Token) /\ held' \in Seq(Token)
      /\ Len(Done(s)) = 1 => held' = << >>
  BY <1>1, <1>2, EndedWritesOut
<1>4. TypeOK'
  BY <1>1, <1>2, <1>3 DEF TypeOK, Transition
<1>5. StackShape' /\ NothingHeldBetweenRecords'
  BY <1>1, <1>2, <1>3 DEF StackShape, NothingHeldBetweenRecords
<1>. QED
  BY <1>4, <1>5

(* A scalar completes the value the open container, or the root, waits for. *)
LEMMA ScalarKeepsInvariant ==
  ASSUME IInv, NEW value \in Scalars, Scalar(value)
  PROVE  IInv'
<1> DEFINE s == Opened(stack)
           outputs == Lead(stack) \o <<value>> \o Tail5(stack)
<1>1. s \in Seq(Marker) /\ Len(s) = Len(stack)
      /\ \A i \in 1 .. Len(s) : s[i] \in {"array", "member"}
  BY OpenedProperties DEF IInv, Scalar, TypeOK
<1>2. outputs \in Seq(Token)
  BY TokenTexts, LeadAndTail DEF Token
<1>3. Transition(Done(s), Ended(Done(s), outputs), "scalar", value)
  BY DEF Scalar
<1>4. [kind |-> "scalar", text |-> value] \in Event
  BY DEF Event
<1>5. /\ \A i \in 1 .. Len(s) - 1 : s[i] \in {"array", "member"}
      /\ Len(s) > 0 => s[Len(s)] # "root-done"
  BY <1>1, LenProperties
<1> HIDE DEF s, outputs
<1>. QED
  BY <1>1, <1>2, <1>3, <1>4, <1>5, CompletionKeepsInvariant

(* A container that ends is itself a value completed, one level up. *)
LEMMA CloseKeepsInvariant ==
  ASSUME IInv, NEW kind \in Ends, NEW bracket \in Punctuation,
         NEW markers \in {{"object-open", "object"}, {"array-open", "array"}},
         Close(kind, markers, bracket)
  PROVE  IInv'
<1> DEFINE s == Pop(stack)
           outputs == <<bracket>> \o Tail5(Pop(stack))
<1>1. stack \in Seq(Marker) /\ Len(stack) > 0
  BY TopProperties DEF IInv, TypeOK, Close
<1>2. /\ s \in Seq(Marker) /\ Len(s) = Len(stack) - 1
      /\ \A i \in 1 .. Len(s) : s[i] \in {"array", "member"}
  BY <1>1, PopProperties DEF IInv, StackShape
<1>3. outputs \in Seq(Token)
  BY TokenTexts, LeadAndTail
<1>4. Transition(Done(s), Ended(Done(s), outputs), kind, "")
  BY DEF Close
<1>5. [kind |-> kind, text |-> ""] \in Event
  BY DEF Event
<1>6. /\ \A i \in 1 .. Len(s) - 1 : s[i] \in {"array", "member"}
      /\ Len(s) > 0 => s[Len(s)] # "root-done"
  BY <1>2, LenProperties
<1> HIDE DEF s, outputs
<1>. QED
  BY <1>2, <1>3, <1>4, <1>5, <1>6, CompletionKeepsInvariant

(* A key is held back, and nothing is written out. *)
LEMMA KeyIsHeld ==
  ASSUME IInv, NEW name \in Keys, Member(name)
  PROVE  /\ (IF Top(stack) = "object" THEN <<",">> ELSE << >>) \o <<name, ":">> \in Seq(Token)
         /\ stack' = Mark("member", stack)
         /\ held' = held \o ((IF Top(stack) = "object" THEN <<",">> ELSE << >>) \o <<name, ":">>)
         /\ written' = written
<1> DEFINE outputs == (IF Top(stack) = "object" THEN <<",">> ELSE << >>) \o <<name, ":">>
<1>1. outputs \in Seq(Token) /\ outputs # << >> /\ outputs[Len(outputs)] = ":"
  <2>1. name \in Token /\ ":" \in Token /\ "," \in Token
    BY DEF Token, Punctuation
  <2> DEFINE comma == IF Top(stack) = "object" THEN <<",">> ELSE << >>
             key == <<name, ":">>
  <2>2. comma \in Seq(Token) /\ Len(comma) \in Nat
    BY <2>1, TokenTexts, LenProperties
  <2>3. key \in Seq(Token) /\ Len(key) = 2 /\ key[2] = ":"
    BY <2>1, TokenTexts
  <2>4. outputs = comma \o key
    OBVIOUS
  <2> HIDE DEF comma, key, outputs
  <2>5. /\ comma \o key \in Seq(Token)
        /\ Len(comma \o key) = Len(comma) + Len(key)
        /\ \A i \in 1 .. Len(comma) + Len(key) :
             (comma \o key)[i] = IF i <= Len(comma) THEN comma[i] ELSE key[i - Len(comma)]
    BY <2>2, <2>3, ConcatProperties
  <2>6. (comma \o key)[Len(comma) + 2] = ":"
    BY <2>2, <2>3, <2>5
  <2>. QED
    BY <2>2, <2>3, <2>4, <2>5, <2>6, EmptySeq
<1>2. ~EndsRecord(outputs)
  BY <1>1 DEF EndsRecord, RecordEnd
<1>3. stack' = Mark("member", stack) /\ held' = held \o outputs /\ written' = written
  BY <1>2 DEF Member, Transition, WriteOut
<1>. QED
  BY <1>1, <1>3

(* A key leaves the object at the top waiting for the member's value. *)
LEMMA MemberKeepsInvariant ==
  ASSUME IInv, NEW name \in Keys, Member(name)
  PROVE  IInv'
<1> DEFINE outputs == (IF Top(stack) = "object" THEN <<",">> ELSE << >>) \o <<name, ":">>
<1>1. stack \in Seq(Marker) /\ Len(stack) > 0
  BY TopProperties DEF IInv, TypeOK, Member
<1>2. /\ outputs \in Seq(Token) /\ stack' = Mark("member", stack)
      /\ held' = held \o outputs /\ written' = written
  BY KeyIsHeld
<1>3. /\ stack' \in Seq(Marker) /\ Len(stack') = Len(stack)
      /\ stack'[Len(stack)] = "member"
      /\ \A i \in 1 .. Len(stack) - 1 : stack'[i] = stack[i]
  BY <1>1, <1>2, MarkProperties DEF Marker
<1>4. [kind |-> "key", text |-> name] \in Event
  BY DEF Event
<1>5. TypeOK'
  <2>1. seen' \in Seq(Event) /\ outcome' = outcome
    BY <1>4, AppendProperties DEF IInv, TypeOK, Member, Transition
  <2>2. held \o outputs \in Seq(Token)
    BY <1>2, TokenTexts DEF IInv, TypeOK
  <2>. QED
    BY <1>2, <1>3, <2>1, <2>2 DEF IInv, TypeOK
<1>6. StackShape' /\ NothingHeldBetweenRecords'
  BY <1>1, <1>3 DEF IInv, StackShape, NothingHeldBetweenRecords
<1>. QED
  BY <1>5, <1>6 DEF IInv

(* Every step of a run keeps the invariant: one case per event, and the    *)
(* two ways a run may stop.                                                *)
LEMMA StepKeepsInvariant == IInv /\ [Next]_vars => IInv'
<1> SUFFICES ASSUME IInv, [Next]_vars
             PROVE  IInv'
  OBVIOUS
<1>1. CASE ArrayStart
  BY <1>1, BeginKeepsInvariant DEF ArrayStart, Begins, Punctuation
<1>2. CASE ObjectStart
  BY <1>2, BeginKeepsInvariant DEF ObjectStart, Begins, Punctuation
<1>3. ASSUME NEW name \in Keys, Member(name)
      PROVE  IInv'
  BY <1>3, MemberKeepsInvariant
<1>4. ASSUME NEW value \in Scalars, Scalar(value)
      PROVE  IInv'
  BY <1>4, ScalarKeepsInvariant
<1>5. CASE ObjectEnd
  BY <1>5, CloseKeepsInvariant DEF ObjectEnd, Ends, Punctuation
<1>6. CASE ArrayEnd
  BY <1>6, CloseKeepsInvariant DEF ArrayEnd, Ends, Punctuation
<1>7. ASSUME NEW event \in Event, Refuse(event)
      PROVE  IInv'
  BY <1>7 DEF IInv, Refuse, TypeOK, StackShape, NothingHeldBetweenRecords
<1>8. CASE Finish
  BY <1>8 DEF IInv, Finish, TypeOK, StackShape, NothingHeldBetweenRecords
<1>9. CASE UNCHANGED vars
  BY <1>9 DEF IInv, vars, TypeOK, StackShape, NothingHeldBetweenRecords
<1>. QED
  BY <1>1, <1>2, <1>3, <1>4, <1>5, <1>6, <1>7, <1>8, <1>9 DEF Next

(* The invariant holds of every run. *)
THEOREM Invariant == Spec => []IInv
<1>1. Init => IInv
  BY DEF Init, IInv, TypeOK, StackShape, NothingHeldBetweenRecords
<1>. QED
  BY <1>1, StepKeepsInvariant, PTL DEF Spec

(* Every container under the top one is suspended inside a value, and the  *)
(* mark of a written document stands alone, for documents of any depth     *)
(* (render.alc 25-35).                                                     *)
THEOREM StackKeepsItsShape == Spec => [](TypeOK /\ StackShape)
<1>1. IInv => TypeOK /\ StackShape
  BY DEF IInv
<1>. QED
  BY <1>1, Invariant, PTL

(* The host holds nothing between two records, however long the document   *)
(* and wherever a run fails (render.alc 37-41).                            *)
THEOREM RecordsAreWrittenOut == Spec => []NothingHeldBetweenRecords
<1>1. IInv => NothingHeldBetweenRecords
  BY DEF IInv
<1>. QED
  BY <1>1, Invariant, PTL

-------------------------------------------------------------------------------
(* The reader: what it makes of a text is made token by token.             *)

(* A set of numbers that is not empty has a least one, which is what makes *)
(* what a reader does with every text provable.                            *)
LEMMA LeastNumber ==
  ASSUME NEW T \in SUBSET Nat, T # {}
  PROVE  \E x \in T : \A y \in T : x <= y
<1>1. PICK x \in T : \A y \in T : ~ (<<y, x>> \in OpToRel(<, Nat))
  BY NatLessThanWellFounded, WFMin
<1>2. \A y \in T : ~(y < x)
  BY <1>1 DEF OpToRel
<1>. QED
  BY <1>2

(* The reader's equation holds of it: it starts at the start of the text,  *)
(* and each token takes it one step on.                                    *)
LEMMA ReadingUnfolds ==
  ASSUME NEW tokens, Len(tokens) \in Nat
  PROVE  /\ Reading(tokens)[0] = StartOfText
         /\ \A n \in 1 .. Len(tokens) :
               Reading(tokens)[n] = Syntax(Reading(tokens)[n - 1], tokens[n])
<1> DEFINE Reads(f, m) ==
             f = [n \in 0 .. m |->
                    IF n = 0 THEN StartOfText ELSE Syntax(f[n - 1], tokens[n])]
           T == {m \in Nat : ~ \E f : Reads(f, m)}
<1>1. T = {}
  <2> SUFFICES ASSUME T # {} PROVE FALSE
    OBVIOUS
  <2>1. T \in SUBSET Nat
    OBVIOUS
  <2> HIDE DEF T
  <2>2. PICK m \in T : \A k \in T : m <= k
    BY <2>1, LeastNumber
  <2>3. m \in Nat /\ ~ \E f : Reads(f, m)
    BY <2>2 DEF T
  <2>4. CASE m = 0
    <3> DEFINE f == [n \in 0 .. 0 |-> StartOfText]
    <3>1. \A n \in 0 .. 0 : n = 0
      OBVIOUS
    <3>2. f = [n \in 0 .. 0 |-> IF n = 0 THEN StartOfText ELSE Syntax(f[n - 1], tokens[n])]
      BY <3>1
    <3>3. Reads(f, 0)
      BY <3>2
    <3>. QED
      BY <2>3, <2>4, <3>3
  <2>5. CASE m # 0
    <3>1. m - 1 \in Nat /\ m - 1 \notin T
      BY <2>2, <2>3, <2>5
    <3>2. PICK f : Reads(f, m - 1)
      BY <3>1 DEF T
    <3> DEFINE g == [n \in 0 .. m |-> IF n = m THEN Syntax(f[m - 1], tokens[m]) ELSE f[n]]
    <3>3. \A n \in 0 .. m - 1 : /\ n \in 0 .. m /\ n # m
                                /\ n # 0 => n - 1 \in 0 .. m - 1
      BY <2>3, <2>5
    <3>4. \A n \in 0 .. m - 1 :
             f[n] = IF n = 0 THEN StartOfText ELSE Syntax(f[n - 1], tokens[n])
      BY <3>2
    <3>5. \A n \in 0 .. m - 1 : g[n] = f[n]
      BY <3>3
    <3>6. g[m] = Syntax(g[m - 1], tokens[m])
      BY <2>3, <2>5, <3>5
    <3>7. \A n \in 0 .. m : n \in 0 .. m - 1 \/ n = m
      BY <2>3
    <3>8. g = [n \in 0 .. m |-> g[n]]
      OBVIOUS
    <3> HIDE DEF g
    <3>9. \A n \in 0 .. m : g[n] = IF n = 0 THEN StartOfText ELSE Syntax(g[n - 1], tokens[n])
      BY <2>5, <3>3, <3>4, <3>5, <3>6, <3>7
    <3>10. Reads(g, m)
      BY <3>8, <3>9
    <3>. QED
      BY <2>3, <3>10
  <2>. QED
    BY <2>4, <2>5
<1>2. \E f : Reads(f, Len(tokens))
  BY <1>1
<1>3. Reads(Reading(tokens), Len(tokens))
  BY <1>2 DEF Reading
<1>4. \A n \in 0 .. Len(tokens) : Reading(tokens)[n] =
         IF n = 0 THEN StartOfText ELSE Syntax(Reading(tokens)[n - 1], tokens[n])
  BY <1>3
<1>. QED
  BY <1>4

(* The reader of a text has read a text that begins it on the way.         *)
LEMMA ReadingAgrees ==
  ASSUME NEW s, NEW t, Len(s) \in Nat, Len(t) \in Nat, Len(s) <= Len(t),
         \A n \in 1 .. Len(s) : s[n] = t[n]
  PROVE  \A n \in 0 .. Len(s) : Reading(s)[n] = Reading(t)[n]
<1> DEFINE T == {n \in 0 .. Len(s) : Reading(s)[n] # Reading(t)[n]}
<1> SUFFICES ASSUME T # {} PROVE FALSE
  OBVIOUS
<1>1. T \in SUBSET Nat
  OBVIOUS
<1>2. \A n \in T : n \in 0 .. Len(s) /\ Reading(s)[n] # Reading(t)[n]
  OBVIOUS
<1>3. \A n \in 0 .. Len(s) : n \notin T => Reading(s)[n] = Reading(t)[n]
  OBVIOUS
<1> HIDE DEF T
<1>4. PICK n \in T : \A k \in T : n <= k
  BY <1>1, LeastNumber
<1>5. n # 0
  BY <1>2, <1>4, ReadingUnfolds
<1>6. n \in 1 .. Len(s) /\ n \in 1 .. Len(t) /\ n - 1 \in 0 .. Len(s) /\ n - 1 \notin T
  BY <1>2, <1>4, <1>5
<1>7. Reading(s)[n - 1] = Reading(t)[n - 1]
  BY <1>3, <1>6
<1>8. Reading(s)[n] = Syntax(Reading(s)[n - 1], s[n])
  BY <1>6, ReadingUnfolds
<1>9. Reading(t)[n] = Syntax(Reading(t)[n - 1], t[n])
  BY <1>6, ReadingUnfolds
<1>. QED
  BY <1>2, <1>4, <1>6, <1>7, <1>8, <1>9

(* No text is read as nothing, and a token more takes the reader one step. *)
LEMMA ReadsTokenByToken ==
  /\ Read(<< >>) = StartOfText
  /\ \A t \in Seq(Token) : \A x \in Token : Read(Append(t, x)) = Syntax(Read(t), x)
<1>1. Len(<< >>) = 0 /\ Len(<< >>) \in Nat
  BY EmptySeq
<1>2. Read(<< >>) = StartOfText
  BY <1>1, ReadingUnfolds DEF Read
<1>3. ASSUME NEW t \in Seq(Token), NEW x \in Token
      PROVE  Read(Append(t, x)) = Syntax(Read(t), x)
  <2> DEFINE u == Append(t, x)
  <2>1. /\ Len(t) \in Nat /\ Len(u) = Len(t) + 1
        /\ \A n \in 1 .. Len(t) : u[n] = t[n]
        /\ u[Len(u)] = x
    BY AppendProperties, LenProperties
  <2> HIDE DEF u
  <2>2. Len(u) \in Nat /\ Len(u) \in 1 .. Len(u) /\ Len(u) - 1 = Len(t) /\ Len(t) \in 0 .. Len(t)
    BY <2>1
  <2>3. Reading(u)[Len(u)] = Syntax(Reading(u)[Len(t)], x)
    BY <2>1, <2>2, ReadingUnfolds
  <2>4. Reading(u)[Len(t)] = Reading(t)[Len(t)]
    BY <2>1, <2>2, ReadingAgrees
  <2>. QED
    BY <2>3, <2>4 DEF Read, u
<1>. QED
  BY <1>2, <1>3

-------------------------------------------------------------------------------
(* What the render writes, read back.                                      *)

Brackets == {"[", "{"}

Bracket(marker) == IF marker \in {"array-open", "array"} THEN "[" ELSE "{"

(* The containers open under a stack, as the reader knows them. *)
OpenOf(s) == IF Top(s) = "root-done" THEN << >> ELSE [i \in 1 .. Len(s) |-> Bracket(s[i])]

(* What may come next under a stack. *)
Wanted(s) ==
  CASE Top(s) \in {"none", "member"} -> "value"
    [] Top(s) = "array-open"         -> "first-item"
    [] Top(s) = "object-open"        -> "first-key"
    [] Top(s) \in {"array", "object"} -> "more"
    [] Top(s) = "root-done"          -> "end"

(* A reader that has read these events, inside the containers of s. *)
Awaits(s, es, want) == Reader(OpenOf(s), want, es, TRUE)

(* The events taken, and the reader of the text, which is inside the same  *)
(* containers as the stack and wants what the stack's top says.            *)
ReadsAsTaken == Read(written \o held) = Awaits(stack, seen, Wanted(stack))

(* The invariant behind ReadsBack and WholeRecords. *)
RInv == IInv /\ (outcome = "running" => ReadsAsTaken) /\ WholeRecords

(* What the reader does with each token where it may come. *)
LEMMA Tokens ==
  ASSUME NEW r
  PROVE  /\ r.want \in {"value", "first-item"} =>
              /\ Syntax(r, "[") = Opens(r, "array-start", "[", "first-item")
              /\ Syntax(r, "{") = Opens(r, "object-start", "{", "first-key")
              /\ \A v \in Scalars : Syntax(r, v) = Finds(r, "scalar", v, AfterValue(r.open))
         /\ r.want \in {"first-item", "more"} /\ Innermost(r.open) = "[" =>
              Syntax(r, "]") = Closes(r, "array-end")
         /\ r.want \in {"first-key", "more"} /\ Innermost(r.open) = "{" =>
              Syntax(r, "}") = Closes(r, "object-end")
         /\ r.want = "more" =>
              Syntax(r, ",") =
                Wants(r, IF Innermost(r.open) = "[" THEN "value" ELSE "key")
         /\ r.want = "colon" => Syntax(r, ":") = Wants(r, "value")
         /\ r.want = "newline" => Syntax(r, "\n") = Wants(r, "end")
         /\ r.want \in {"key", "first-key"} =>
              \A k \in Keys : Syntax(r, k) = Finds(r, "key", k, "colon")
<1>1. \A v \in Scalars \cup Keys : v \notin {"[", "]", "{", "}", ",", ":", "\n"}
  BY SpellingsAssumption DEF Punctuation
<1>2. "[" \notin Scalars \cup Keys /\ "]" \notin Scalars \cup Keys /\ "{" \notin Scalars \cup Keys
      /\ "}" \notin Scalars \cup Keys /\ "," \notin Scalars \cup Keys
      /\ ":" \notin Scalars \cup Keys /\ "\n" \notin Scalars \cup Keys
  BY SpellingsAssumption DEF Punctuation
<1>3. r.want \in {"value", "first-item"} =>
         /\ Syntax(r, "[") = Opens(r, "array-start", "[", "first-item")
         /\ Syntax(r, "{") = Opens(r, "object-start", "{", "first-key")
  BY <1>2 DEF Syntax
<1>4. r.want \in {"value", "first-item"} =>
         \A v \in Scalars : Syntax(r, v) = Finds(r, "scalar", v, AfterValue(r.open))
  BY <1>1 DEF Syntax
<1>5. r.want \in {"first-item", "more"} /\ Innermost(r.open) = "[" =>
         Syntax(r, "]") = Closes(r, "array-end")
  BY <1>2 DEF Syntax
<1>6. r.want \in {"first-key", "more"} /\ Innermost(r.open) = "{" =>
         Syntax(r, "}") = Closes(r, "object-end")
  BY <1>2 DEF Syntax
<1>7. r.want = "more" =>
         Syntax(r, ",") = Wants(r, IF Innermost(r.open) = "[" THEN "value" ELSE "key")
  BY <1>2 DEF Syntax
<1>8. /\ r.want = "colon" => Syntax(r, ":") = Wants(r, "value")
      /\ r.want = "newline" => Syntax(r, "\n") = Wants(r, "end")
  BY <1>2 DEF Syntax
<1>9. r.want \in {"key", "first-key"} =>
         \A k \in Keys : Syntax(r, k) = Finds(r, "key", k, "colon")
  BY <1>1 DEF Syntax
<1>. QED
  BY <1>3, <1>4, <1>5, <1>6, <1>7, <1>8, <1>9

(* Tokens one after another. *)
LEMMA Tokenwise ==
  ASSUME NEW t \in Seq(Token)
  PROVE  /\ t \o << >> = t
         /\ \A x \in Token : /\ t \o <<x>> \in Seq(Token)
                             /\ Read(t \o <<x>>) = Syntax(Read(t), x)
         /\ \A u, v \in Seq(Token) : t \o (u \o v) = (t \o u) \o v
         /\ \A x, y \in Token : <<x, y>> = <<x>> \o <<y>>
<1>1. \A x \in Token : Append(t, x) = t \o <<x>>
  BY AppendIsConcat
<1>2. \A x \in Token : t \o <<x>> \in Seq(Token)
  BY TokenTexts
<1>3. \A u, v \in Seq(Token) : t \o (u \o v) = (t \o u) \o v
  BY ConcatAssociative
<1>4. \A x, y \in Token : <<x, y>> = <<x>> \o <<y>>
  <2> SUFFICES ASSUME NEW x \in Token, NEW y \in Token PROVE <<x, y>> = <<x>> \o <<y>>
    OBVIOUS
  <2>1. /\ <<x>> \in Seq(Token) /\ Len(<<x>>) = 1 /\ <<x>>[1] = x
        /\ <<y>> \in Seq(Token) /\ Len(<<y>>) = 1 /\ <<y>>[1] = y
        /\ <<x, y>> \in Seq(Token) /\ Len(<<x, y>>) = 2
        /\ <<x, y>>[1] = x /\ <<x, y>>[2] = y
    BY TokenTexts
  <2> DEFINE a == <<x>>
             b == <<y>>
             c == <<x, y>>
  <2> HIDE DEF a, b, c
  <2>2. /\ a \o b \in Seq(Token) /\ Len(a \o b) = 2
        /\ \A i \in 1 .. 2 : (a \o b)[i] = IF i <= 1 THEN a[i] ELSE b[i - 1]
    BY <2>1, ConcatProperties DEF a, b
  <2>3. \A i \in 1 .. 2 : i = 1 \/ i = 2
    OBVIOUS
  <2>4. \A i \in 1 .. 2 : (a \o b)[i] = c[i]
    BY <2>1, <2>2, <2>3 DEF a, b, c
  <2>5. c \in Seq(Token) /\ Len(c) = 2
    BY <2>1 DEF c
  <2>6. c = a \o b
    BY <2>2, <2>4, <2>5, SeqEqual
  <2>. QED
    BY <2>6 DEF a, b, c
<1>. QED
  BY <1>1, <1>2, <1>3, <1>4, ConcatEmptySeq, ReadsTokenByToken

(* What is open under a stack that is not done. *)
LEMMA OpenProperties ==
  ASSUME NEW s \in Seq(Marker), Top(s) # "root-done"
  PROVE  /\ OpenOf(s) \in Seq(Brackets)
         /\ Len(OpenOf(s)) = Len(s)
         /\ \A i \in 1 .. Len(s) : OpenOf(s)[i] = Bracket(s[i])
         /\ OpenOf(s) = << >> <=> Len(s) = 0
         /\ Len(s) > 0 => Innermost(OpenOf(s)) = Bracket(Top(s))
<1>1. OpenOf(s) = [i \in 1 .. Len(s) |-> Bracket(s[i])] /\ Len(s) \in Nat
  BY LenProperties DEF OpenOf
<1>2. OpenOf(s) \in Seq(Brackets) /\ Len(OpenOf(s)) = Len(s)
  <2> DEFINE o == OpenOf(s)
             n == Len(s)
  <2>1. o \in [1 .. n -> Brackets] /\ n \in Nat
    BY <1>1 DEF Bracket, Brackets
  <2> HIDE DEF o, n
  <2>2. o \in Seq(Brackets) /\ Len(o) = n
    BY <2>1
  <2>. QED
    BY <2>2 DEF o, n
<1>3. \A i \in 1 .. Len(s) : OpenOf(s)[i] = Bracket(s[i])
  BY <1>1
<1>4. OpenOf(s) = << >> <=> Len(s) = 0
  BY <1>2, EmptySeq
<1>5. Len(s) > 0 => Innermost(OpenOf(s)) = Bracket(Top(s))
  <2> SUFFICES ASSUME Len(s) > 0 PROVE Innermost(OpenOf(s)) = Bracket(Top(s))
    OBVIOUS
  <2>1. Len(s) \in 1 .. Len(s) /\ OpenOf(s) # << >> /\ Top(s) = s[Len(s)]
    BY <1>1, <1>4 DEF Top
  <2>2. OpenOf(s)[Len(s)] = Bracket(Top(s))
    BY <1>3, <2>1
  <2>. QED
    BY <1>2, <2>1, <2>2 DEF Innermost
<1>. QED
  BY <1>2, <1>3, <1>4, <1>5

(* Two stacks of one length with the same brackets are open alike. *)
LEMMA OpenAlike ==
  ASSUME NEW s \in Seq(Marker), NEW t \in Seq(Marker), Len(s) = Len(t),
         Top(s) # "root-done", Top(t) # "root-done",
         \A i \in 1 .. Len(s) : Bracket(s[i]) = Bracket(t[i])
  PROVE  OpenOf(s) = OpenOf(t)
<1> DEFINE o == OpenOf(s)
           p == OpenOf(t)
<1>1. /\ o \in Seq(Brackets) /\ p \in Seq(Brackets) /\ Len(o) = Len(s) /\ Len(p) = Len(s)
      /\ \A i \in 1 .. Len(s) : o[i] = p[i]
  BY OpenProperties
<1> HIDE DEF o, p
<1>2. o = p
  BY <1>1, SeqEqual
<1>. QED
  BY <1>2 DEF o, p

(* A container begun, and one ended, in what is open. *)
LEMMA OpenPushed ==
  ASSUME NEW s \in Seq(Marker), NEW m \in Marker \ {"root-done"}, Top(s) # "root-done"
  PROVE  /\ Top(Append(s, m)) = m
         /\ OpenOf(Append(s, m)) = Append(OpenOf(s), Bracket(m))
<1> DEFINE o == OpenOf(s)
           p == Append(s, m)
<1>1. /\ p \in Seq(Marker) /\ Len(s) \in Nat /\ Len(p) = Len(s) + 1 /\ p[Len(s) + 1] = m
      /\ \A i \in 1 .. Len(s) : p[i] = s[i]
  BY AppendProperties, LenProperties
<1>2. Top(p) = m
  BY <1>1 DEF Top
<1>3. /\ o \in Seq(Brackets) /\ Len(o) = Len(s)
      /\ \A i \in 1 .. Len(s) : o[i] = Bracket(s[i])
  BY OpenProperties
<1> HIDE DEF o, p
<1>4. Bracket(m) \in Brackets
  BY DEF Bracket, Brackets
<1>5. /\ Append(o, Bracket(m)) \in Seq(Brackets) /\ Len(Append(o, Bracket(m))) = Len(s) + 1
      /\ \A i \in 1 .. Len(s) : Append(o, Bracket(m))[i] = o[i]
      /\ Append(o, Bracket(m))[Len(s) + 1] = Bracket(m)
  BY <1>3, <1>4, AppendProperties
<1>6. /\ OpenOf(p) \in Seq(Brackets) /\ Len(OpenOf(p)) = Len(s) + 1
      /\ \A i \in 1 .. Len(p) : OpenOf(p)[i] = Bracket(p[i])
  BY <1>1, <1>2, OpenProperties
<1>7. \A i \in 1 .. Len(s) + 1 : i \in 1 .. Len(s) \/ i = Len(s) + 1
  BY <1>1
<1>8. \A i \in 1 .. Len(s) + 1 : OpenOf(p)[i] = Append(o, Bracket(m))[i]
  BY <1>1, <1>3, <1>5, <1>6, <1>7
<1>9. OpenOf(p) = Append(o, Bracket(m))
  BY <1>5, <1>6, <1>8, SeqEqual
<1>. QED
  BY <1>2, <1>9 DEF o, p

LEMMA OpenPopped ==
  ASSUME NEW s \in Seq(Marker), Len(s) > 0, Top(s) # "root-done", Top(Pop(s)) # "root-done"
  PROVE  Outer(OpenOf(s)) = OpenOf(Pop(s))
<1> DEFINE o == OpenOf(s)
           n == Len(s) - 1
<1>1. /\ Pop(s) \in Seq(Marker) /\ Len(Pop(s)) = n /\ n \in Nat /\ Len(s) = n + 1
      /\ \A i \in 1 .. n : Pop(s)[i] = s[i]
  BY PopProperties, LenProperties
<1>2. /\ o \in Seq(Brackets) /\ Len(o) = Len(s)
      /\ \A i \in 1 .. Len(s) : o[i] = Bracket(s[i])
  BY OpenProperties
<1>3. /\ OpenOf(Pop(s)) \in Seq(Brackets) /\ Len(OpenOf(Pop(s))) = n
      /\ \A i \in 1 .. n : OpenOf(Pop(s))[i] = Bracket(Pop(s)[i])
  BY <1>1, OpenProperties
<1> HIDE DEF o, n
<1>9. \A m : Bracket(m) \in Brackets
  BY DEF Bracket, Brackets
<1>10. \A i \in 1 .. n : i \in 1 .. Len(s)
  BY <1>1
<1>4. \A i \in 1 .. n : i \in 1 .. Len(s) /\ o[i] \in Brackets
  BY <1>2, <1>9, <1>10
<1>5. /\ SubSeq(o, 1, n) \in Seq(Brackets) /\ Len(SubSeq(o, 1, n)) = n
      /\ \A i \in 1 .. n : SubSeq(o, 1, n)[i] = o[i]
  BY <1>1, <1>2, <1>4, SubSeqProperties
<1>6. Outer(o) = SubSeq(o, 1, n)
  BY <1>1, <1>2 DEF Outer
<1>7. \A i \in 1 .. n : SubSeq(o, 1, n)[i] = OpenOf(Pop(s))[i]
  BY <1>1, <1>2, <1>3, <1>4, <1>5
<1>8. SubSeq(o, 1, n) = OpenOf(Pop(s))
  BY <1>3, <1>5, <1>7, SeqEqual
<1>. QED
  BY <1>6, <1>8 DEF o

(* A reader inside the containers of s has read a value there. *)
Completed(s, es) == Awaits(s, es, AfterValue(OpenOf(s)))

(* The events with another one. *)
With(es, kind, text) == Append(es, [kind |-> kind, text |-> text])

(* A reader that has gone one container into those of s, and out of one.  *)
Begun(s, bracket, want, es) == Reader(Append(OpenOf(s), bracket), want, es, TRUE)

Left(s, es) == Reader(Outer(OpenOf(s)), AfterValue(Outer(OpenOf(s))), es, TRUE)

(* What a reader inside the containers of s does with each token that may  *)
(* come.                                                                   *)
LEMMA AwaitedTokens ==
  ASSUME NEW s, NEW es, NEW want
  PROVE  /\ want \in {"value", "first-item"} =>
              /\ Syntax(Awaits(s, es, want), "[") =
                   Begun(s, "[", "first-item", With(es, "array-start", ""))
              /\ Syntax(Awaits(s, es, want), "{") =
                   Begun(s, "{", "first-key", With(es, "object-start", ""))
              /\ \A v \in Scalars :
                   Syntax(Awaits(s, es, want), v) = Completed(s, With(es, "scalar", v))
         /\ want \in {"first-item", "more"} /\ Innermost(OpenOf(s)) = "[" =>
              Syntax(Awaits(s, es, want), "]") =
                Left(s, With(es, "array-end", ""))
         /\ want \in {"first-key", "more"} /\ Innermost(OpenOf(s)) = "{" =>
              Syntax(Awaits(s, es, want), "}") =
                Left(s, With(es, "object-end", ""))
         /\ want = "more" =>
              Syntax(Awaits(s, es, want), ",") =
                Awaits(s, es, IF Innermost(OpenOf(s)) = "[" THEN "value" ELSE "key")
         /\ want = "colon" => Syntax(Awaits(s, es, want), ":") = Awaits(s, es, "value")
         /\ want = "newline" => Syntax(Awaits(s, es, want), "\n") = Awaits(s, es, "end")
         /\ want \in {"key", "first-key"} =>
              \A k \in Keys :
                Syntax(Awaits(s, es, want), k) = Awaits(s, With(es, "key", k), "colon")
<1> DEFINE r == Awaits(s, es, want)
<1>1. r.want = want /\ r.open = OpenOf(s) /\ r.found = es /\ r.ok = TRUE
  BY DEF Awaits, Reader
<1>2. \A w : Wants(r, w) = Awaits(s, es, w)
  BY <1>1 DEF Awaits, Wants
<1>3. \A k, x, w : Finds(r, k, x, w) = Awaits(s, With(es, k, x), w)
  BY <1>1 DEF Awaits, Finds, With
<1>4. \A k, b, w : Opens(r, k, b, w) = Begun(s, b, w, With(es, k, ""))
  BY <1>1 DEF Opens, Finds, Reader, With, Begun
<1>5. \A k : Closes(r, k) = Left(s, With(es, k, ""))
  BY <1>1 DEF Closes, Finds, Reader, With, Left
<1> HIDE DEF r
<1>6. want \in {"value", "first-item"} =>
        /\ Syntax(r, "[") = Begun(s, "[", "first-item", With(es, "array-start", ""))
        /\ Syntax(r, "{") = Begun(s, "{", "first-key", With(es, "object-start", ""))
  BY <1>1, <1>4, Tokens
<1>7. want \in {"value", "first-item"} =>
        \A v \in Scalars : Syntax(r, v) = Completed(s, With(es, "scalar", v))
  <2>1. want \in {"value", "first-item"} =>
          \A v \in Scalars : Syntax(r, v) = Finds(r, "scalar", v, AfterValue(OpenOf(s)))
    BY <1>1, Tokens
  <2>. QED
    BY <1>3, <2>1 DEF Completed
<1>8. want \in {"first-item", "more"} /\ Innermost(OpenOf(s)) = "[" =>
        Syntax(r, "]") = Left(s, With(es, "array-end", ""))
  BY <1>1, <1>5, Tokens
<1>9. want \in {"first-key", "more"} /\ Innermost(OpenOf(s)) = "{" =>
        Syntax(r, "}") = Left(s, With(es, "object-end", ""))
  BY <1>1, <1>5, Tokens
<1>10. want = "more" =>
         Syntax(r, ",") = Awaits(s, es, IF Innermost(OpenOf(s)) = "[" THEN "value" ELSE "key")
  BY <1>1, <1>2, Tokens
<1>11. /\ want = "colon" => Syntax(r, ":") = Awaits(s, es, "value")
       /\ want = "newline" => Syntax(r, "\n") = Awaits(s, es, "end")
  BY <1>1, <1>2, Tokens
<1>12. want \in {"key", "first-key"} =>
         \A k \in Keys : Syntax(r, k) = Awaits(s, With(es, "key", k), "colon")
  BY <1>1, <1>3, Tokens
<1>. QED
  BY <1>6, <1>7, <1>8, <1>9, <1>10, <1>11, <1>12 DEF r

(* The comma that comes before a value makes the reader ready for it. *)
LEMMA LeadReads ==
  ASSUME NEW s \in Seq(Marker), TakesValue(s), NEW t \in Seq(Token), NEW es,
         Read(t) = Awaits(s, es, Wanted(s))
  PROVE  /\ t \o Lead(s) \in Seq(Token)
         /\ \E want \in {"value", "first-item"} : Read(t \o Lead(s)) = Awaits(s, es, want)
<1>1. CASE Top(s) = "array"
  <2>1. /\ Read(t) = Awaits(s, es, "more") /\ Lead(s) = <<",">>
        /\ Len(s) > 0 /\ Top(s) # "root-done"
    BY <1>1, TopProperties DEF Wanted, Lead
  <2>2. Innermost(OpenOf(s)) = "["
    BY <1>1, <2>1, OpenProperties DEF Bracket
  <2>3. "," \in Token
    BY DEF Token, Punctuation
  <2>4. Syntax(Awaits(s, es, "more"), ",") = Awaits(s, es, "value")
    BY <2>2, AwaitedTokens
  <2>. QED
    BY <2>1, <2>3, <2>4, Tokenwise
<1>2. CASE Top(s) # "array"
  <2>1. Lead(s) = << >> /\ Wanted(s) \in {"value", "first-item"}
    BY <1>2, TopProperties DEF TakesValue, Wanted, Lead, Marker
  <2>. QED
    BY <2>1, Tokenwise
<1>. QED
  BY <1>1, <1>2

(* What comes after a value leaves the reader where the stack is when the  *)
(* value is done.                                                          *)
LEMMA TailReads ==
  ASSUME NEW s \in Seq(Marker), NEW t \in Seq(Token), NEW es,
         \A i \in 1 .. Len(s) : s[i] \in {"array", "member"},
         Read(t) = Completed(s, es)
  PROVE  Read(t \o Tail5(s)) = Awaits(Done(s), es, Wanted(Done(s)))
<1>1. Len(s) \in Nat
  BY LenProperties
<1>2. CASE Len(s) = 0
  <2>1. Top(s) = "none" /\ Tail5(s) = <<"\n">> /\ Done(s) = <<"root-done">>
    BY <1>2, TopProperties DEF Tail5, Done
  <2>2. OpenOf(s) = << >>
    BY <1>2, <2>1, OpenProperties
  <2>3. Read(t) = Awaits(s, es, "newline")
    BY <2>2 DEF Completed, AfterValue
  <2>4. Top(Done(s)) = "root-done"
    BY <2>1 DEF Top
  <2>5. Syntax(Awaits(s, es, "newline"), "\n") = Awaits(s, es, "end")
    BY AwaitedTokens
  <2>6. Awaits(s, es, "end") = Awaits(Done(s), es, Wanted(Done(s)))
    BY <2>2, <2>4 DEF Awaits, OpenOf, Wanted
  <2>7. "\n" \in Token
    BY DEF Token, Punctuation
  <2>. QED
    BY <2>1, <2>3, <2>5, <2>6, <2>7, Tokenwise
<1>3. CASE Len(s) > 0
  <2>1. /\ Top(s) = s[Len(s)] /\ Top(s) \in {"array", "member"} /\ Tail5(s) = << >>
        /\ \A i \in 1 .. Len(s) - 1 : i \in 1 .. Len(s)
    BY <1>1, <1>3, TopProperties DEF Tail5
  <2>2. OpenOf(s) # << >>
    BY <1>3, <2>1, OpenProperties
  <2>3. Read(t) = Awaits(s, es, "more")
    BY <2>2 DEF Completed, AfterValue
  <2>4. CASE Top(s) = "member"
    <3> DEFINE d == Mark("object", s)
    <3>1. Done(s) = d
      BY <1>3, <2>4 DEF Done
    <3>2. /\ d \in Seq(Marker) /\ Len(d) = Len(s) /\ d[Len(s)] = "object"
          /\ \A i \in 1 .. Len(s) - 1 : d[i] = s[i]
      BY <1>3, MarkProperties DEF Marker
    <3> HIDE DEF d
    <3>3. Top(d) = "object"
      BY <1>3, <3>2, TopProperties
    <3>4. \A i \in 1 .. Len(s) : i \in 1 .. Len(s) - 1 \/ i = Len(s)
      BY <1>1
    <3>5. \A i \in 1 .. Len(s) : Bracket(s[i]) = Bracket(d[i])
      BY <2>1, <2>4, <3>2, <3>4 DEF Bracket
    <3>6. OpenOf(d) = OpenOf(s)
      BY <2>1, <3>2, <3>3, <3>5, OpenAlike
    <3>7. Wanted(d) = "more"
      BY <3>3 DEF Wanted
    <3>. QED
      BY <2>1, <2>3, <3>1, <3>6, <3>7, Tokenwise DEF Awaits
  <2>5. CASE Top(s) = "array"
    <3>1. Done(s) = s /\ Wanted(s) = "more"
      BY <1>3, <2>5 DEF Done, Wanted
    <3>. QED
      BY <2>1, <2>3, <3>1, Tokenwise
  <2>. QED
    BY <2>1, <2>4, <2>5
<1>. QED
  BY <1>1, <1>2, <1>3

-------------------------------------------------------------------------------
(* Every step keeps the reader where the stack says it is.                 *)

(* A step whose outputs bring the reader of the text to where its next     *)
(* state is, and which does not stop after a key.                          *)
LEMMA StepReads ==
  ASSUME RInv, NEW s \in Seq(Marker), NEW outputs \in Seq(Token), NEW kind, NEW text,
         Transition(s, Ended(s, outputs), kind, text),
         Len(s) > 0, Top(s) # "member",
         Read((written \o held) \o outputs) = Awaits(s, With(seen, kind, text), Wanted(s))
  PROVE  ReadsAsTaken' /\ WholeRecords'
<1>1. /\ TypeOK /\ WholeRecords /\ Len(s) \in Nat
      /\ written \in Seq(Token) /\ held \in Seq(Token)
  BY LenProperties DEF RInv, IInv, TypeOK
<1>2. /\ stack' = s /\ WriteOut(Ended(s, outputs))
      /\ seen' = With(seen, kind, text)
  BY DEF Transition, With
<1>3. /\ written' \in Seq(Token)
      /\ Len(s) = 1 => held' = << >> /\ written' = (written \o held) \o outputs
      /\ Len(s) # 1 => written' = written /\ held' = held \o outputs
  BY <1>1, <1>2, EndedWritesOut
<1>4. written' \o held' = (written \o held) \o outputs
  <2>1. Len(s) = 1 => written' \o held' = written'
    BY <1>3, Tokenwise
  <2>2. written \o (held \o outputs) = (written \o held) \o outputs
    BY <1>1, Tokenwise
  <2>. QED
    BY <1>3, <2>1, <2>2
<1>5. ReadsAsTaken'
  <2>1. Read(written' \o held') = Awaits(stack', seen', Wanted(stack'))
    BY <1>2, <1>4
  <2>. QED
    BY <2>1 DEF ReadsAsTaken
<1>6. CASE Len(s) # 1
  <2>1. written' = written
    BY <1>3, <1>6
  <2>. QED
    BY <1>1, <1>5, <2>1 DEF WholeRecords
<1>7. CASE Len(s) = 1
  <2> DEFINE r == Read(written')
  <2>1. r = Awaits(s, With(seen, kind, text), Wanted(s))
    BY <1>3, <1>7
  <2>2. r.ok /\ r.open = OpenOf(s) /\ r.want = Wanted(s)
    BY <2>1 DEF Awaits, Reader
  <2>3. Top(s) \in Marker \ {"member"}
    BY TopProperties
  <2>4. Wanted(s) \in {"first-item", "first-key", "more", "end"}
    BY <2>3 DEF Wanted, Marker
  <2>5. Len(OpenOf(s)) <= 1
    <3>1. CASE Top(s) = "root-done"
      BY <3>1, EmptySeq DEF OpenOf
    <3>2. CASE Top(s) # "root-done"
      BY <1>7, <3>2, OpenProperties
    <3>. QED
      BY <3>1, <3>2
  <2> HIDE DEF r
  <2>6. r.want # "value" /\ r.want \in {"value", "first-item", "first-key", "more", "end"}
    BY <2>2, <2>4
  <2>. QED
    BY <1>5, <2>2, <2>5, <2>6 DEF WholeRecords, r
<1>. QED
  BY <1>5, <1>6, <1>7

(* The array that was waiting for its first item is the same container     *)
(* when it has it.                                                         *)
LEMMA OpenedAlike ==
  ASSUME stack \in Seq(Marker), StackShape, TakesValue(stack)
  PROVE  /\ OpenOf(Opened(stack)) = OpenOf(stack)
         /\ Tail5(Opened(stack)) = Tail5(stack)
         /\ Top(Opened(stack)) # "root-done"
<1> DEFINE o == Opened(stack)
<1>1. /\ o \in Seq(Marker) /\ Len(o) = Len(stack) /\ Len(stack) \in Nat
      /\ \A i \in 1 .. Len(stack) : o[i] \in {"array", "member"}
  BY OpenedProperties, LenProperties
<1>2. Top(stack) # "root-done"
  BY DEF TakesValue
<1>3. CASE Top(stack) = "array-open"
  <2>1. o = Mark("array", stack) /\ Len(stack) > 0 /\ stack[Len(stack)] = "array-open"
    BY <1>3, TopProperties DEF Opened
  <2>6. /\ Mark("array", stack)[Len(stack)] = "array"
        /\ \A i \in 1 .. Len(stack) - 1 : Mark("array", stack)[i] = stack[i]
    BY <1>1, <2>1, MarkProperties DEF Marker
  <2> HIDE DEF o
  <2>2. /\ Top(o) = "array" /\ o[Len(stack)] = "array"
        /\ \A i \in 1 .. Len(stack) - 1 : o[i] = stack[i]
    BY <1>1, <2>1, <2>6, TopProperties
  <2>3. \A i \in 1 .. Len(stack) : i \in 1 .. Len(stack) - 1 \/ i = Len(stack)
    BY <1>1
  <2>4. \A i \in 1 .. Len(stack) : Bracket(o[i]) = Bracket(stack[i])
    BY <2>1, <2>2, <2>3 DEF Bracket
  <2>5. OpenOf(o) = OpenOf(stack)
    BY <1>1, <1>2, <2>2, <2>4, OpenAlike
  <2>. QED
    BY <1>1, <2>2, <2>5 DEF Tail5, o
<1>4. CASE Top(stack) # "array-open"
  BY <1>2, <1>4 DEF Opened
<1>. QED
  BY <1>3, <1>4

(* A value done leaves no key waiting. *)
LEMMA DoneIsNoMember ==
  ASSUME NEW s \in Seq(Marker), \A i \in 1 .. Len(s) : s[i] \in {"array", "member"}
  PROVE  Done(s) \in Seq(Marker) /\ Len(Done(s)) > 0 /\ Top(Done(s)) # "member"
<1>1. CASE Len(s) = 0
  <2>1. Done(s) = <<"root-done">>
    BY <1>1 DEF Done
  <2>. QED
    BY <2>1 DEF Top, Marker
<1>2. CASE Len(s) > 0 /\ Top(s) = "member"
  <2>1. Done(s) = Mark("object", s) /\ Len(s) \in Nat
    BY <1>2, LenProperties DEF Done
  <2>3. /\ Mark("object", s) \in Seq(Marker) /\ Len(Mark("object", s)) = Len(s)
        /\ Mark("object", s)[Len(s)] = "object"
    BY <1>2, MarkProperties DEF Marker
  <2>2. /\ Done(s) \in Seq(Marker) /\ Len(Done(s)) = Len(s)
        /\ Done(s)[Len(s)] = "object"
    BY <2>1, <2>3
  <2>. QED
    BY <1>2, <2>2, TopProperties
<1>3. CASE Len(s) > 0 /\ Top(s) # "member"
  BY <1>3 DEF Done
<1>. QED
  BY <1>1, <1>2, <1>3, LenProperties

(* A container begun. *)
LEMMA BeginReads ==
  ASSUME RInv, outcome = "running", ReadsAsTaken,
         NEW kind, NEW marker, NEW bracket,
         \/ kind = "array-start" /\ marker = "array-open" /\ bracket = "["
         \/ kind = "object-start" /\ marker = "object-open" /\ bracket = "{",
         Begin(kind, marker, bracket)
  PROVE  ReadsAsTaken' /\ WholeRecords'
<1> DEFINE t == written \o held
           o == Opened(stack)
           s == Append(o, marker)
           es == With(seen, kind, "")
           outputs == Lead(stack) \o <<bracket>>
<1>1. /\ stack \in Seq(Marker) /\ StackShape /\ TakesValue(stack) /\ t \in Seq(Token)
      /\ Transition(s, Ended(s, outputs), kind, "")
  BY TokenTexts DEF RInv, IInv, TypeOK, Begin
<1>2. /\ bracket \in Token /\ marker \in Marker \ {"root-done", "member"}
      /\ bracket = Bracket(marker)
  BY DEF Token, Punctuation, Marker, Bracket
<1>3. /\ o \in Seq(Marker) /\ OpenOf(o) = OpenOf(stack) /\ Top(o) # "root-done"
  BY <1>1, OpenedProperties, OpenedAlike
<1>4. /\ s \in Seq(Marker) /\ Len(s) > 0
      /\ Top(s) = marker /\ OpenOf(s) = Append(OpenOf(stack), bracket)
  <2> HIDE DEF o
  <2>3. Len(o) \in Nat
    BY <1>3, LenProperties
  <2>4. Append(o, marker) \in Seq(Marker) /\ Len(Append(o, marker)) = Len(o) + 1
    BY <1>2, <1>3, AppendProperties
  <2>1. Append(o, marker) \in Seq(Marker) /\ Len(Append(o, marker)) > 0
    BY ONLY <2>3, <2>4
  <2>2. /\ Top(Append(o, marker)) = marker
        /\ OpenOf(Append(o, marker)) = Append(OpenOf(o), Bracket(marker))
    BY <1>2, <1>3, OpenPushed
  <2>. QED
    BY <1>2, <1>3, <2>1, <2>2
<1>5. Read(t) = Awaits(stack, seen, Wanted(stack))
  BY DEF ReadsAsTaken
<1> HIDE DEF t, s, o
<1>6. /\ t \o Lead(stack) \in Seq(Token) /\ Lead(stack) \in Seq(Token)
      /\ outputs \in Seq(Token)
      /\ \E want \in {"value", "first-item"} :
            Read(t \o Lead(stack)) = Awaits(stack, seen, want)
  BY <1>1, <1>2, <1>5, LeadReads, LeadAndTail, TokenTexts
<1>7. PICK want \in {"value", "first-item"} :
         Read(t \o Lead(stack)) = Awaits(stack, seen, want)
  BY <1>6
<1>8. Syntax(Awaits(stack, seen, want), bracket) = Begun(stack, bracket, Wanted(s), es)
  <2>1. CASE kind = "array-start"
    <3>1. Wanted(s) = "first-item" /\ bracket = "["
      BY <1>4, <2>1 DEF Wanted
    <3>. QED
      BY <2>1, <3>1, AwaitedTokens
  <2>2. CASE kind = "object-start"
    <3>1. Wanted(s) = "first-key" /\ bracket = "{"
      BY <1>4, <2>2 DEF Wanted
    <3>. QED
      BY <2>2, <3>1, AwaitedTokens
  <2>. QED
    BY <2>1, <2>2
<1>9. Begun(stack, bracket, Wanted(s), es) = Awaits(s, es, Wanted(s))
  BY <1>4 DEF Begun, Awaits
<1>10. t \o outputs = (t \o Lead(stack)) \o <<bracket>>
  <2>1. <<bracket>> \in Seq(Token)
    BY <1>2, TokenTexts
  <2>. QED
    BY <1>1, <1>6, <2>1, Tokenwise
<1>11. Read(t \o outputs) = Awaits(s, es, Wanted(s))
  BY <1>2, <1>6, <1>7, <1>8, <1>9, <1>10, Tokenwise
<1> HIDE DEF outputs
<1>12. Read((written \o held) \o outputs) = Awaits(s, With(seen, kind, ""), Wanted(s))
  BY <1>11 DEF t
<1>. QED
  BY <1>1, <1>2, <1>4, <1>6, <1>12, StepReads

(* A scalar written. *)
LEMMA ScalarReads ==
  ASSUME RInv, outcome = "running", ReadsAsTaken, NEW value \in Scalars, Scalar(value)
  PROVE  ReadsAsTaken' /\ WholeRecords'
<1> DEFINE t == written \o held
           o == Opened(stack)
           s == Done(o)
           es == With(seen, "scalar", value)
           outputs == Lead(stack) \o <<value>> \o Tail5(stack)
<1>1. /\ stack \in Seq(Marker) /\ StackShape /\ TakesValue(stack) /\ t \in Seq(Token)
      /\ Transition(s, Ended(s, outputs), "scalar", value) /\ value \in Token
  BY TokenTexts DEF RInv, IInv, TypeOK, Scalar, Token
<1>2. /\ o \in Seq(Marker) /\ \A i \in 1 .. Len(o) : o[i] \in {"array", "member"}
      /\ Len(o) \in Nat
      /\ OpenOf(o) = OpenOf(stack) /\ Tail5(o) = Tail5(stack)
  BY <1>1, OpenedProperties, OpenedAlike, LenProperties
<1>3. Read(t) = Awaits(stack, seen, Wanted(stack))
  BY DEF ReadsAsTaken
<1> HIDE DEF t, o
<1>4. /\ s \in Seq(Marker) /\ Len(s) > 0 /\ Top(s) # "member"
  BY <1>2, DoneIsNoMember
<1> HIDE DEF s
<1>5. /\ t \o Lead(stack) \in Seq(Token) /\ Lead(stack) \in Seq(Token)
      /\ Tail5(stack) \in Seq(Token) /\ <<value>> \in Seq(Token)
      /\ outputs \in Seq(Token)
      /\ \E want \in {"value", "first-item"} :
            Read(t \o Lead(stack)) = Awaits(stack, seen, want)
  BY <1>1, <1>3, LeadReads, LeadAndTail, TokenTexts
<1>6. PICK want \in {"value", "first-item"} :
         Read(t \o Lead(stack)) = Awaits(stack, seen, want)
  BY <1>5
<1> DEFINE u == (t \o Lead(stack)) \o <<value>>
<1>7. u \in Seq(Token) /\ Read(u) = Completed(o, es)
  <2>1. Syntax(Awaits(stack, seen, want), value) = Completed(stack, es)
    BY AwaitedTokens
  <2>2. Completed(stack, es) = Completed(o, es)
    BY <1>2 DEF Completed, Awaits
  <2>. QED
    BY <1>1, <1>5, <1>6, <2>1, <2>2, Tokenwise
<1>8. t \o outputs = u \o Tail5(o)
  BY <1>1, <1>2, <1>5, Tokenwise, TokenTexts
<1> HIDE DEF u, es, outputs
<1>9. Read(t \o outputs) = Awaits(s, es, Wanted(s))
  BY <1>2, <1>7, <1>8, TailReads DEF s
<1>10. Read((written \o held) \o outputs) = Awaits(s, With(seen, "scalar", value), Wanted(s))
  BY <1>9 DEF t, es
<1>. QED
  BY <1>1, <1>4, <1>5, <1>10, StepReads

(* A container ended. *)
LEMMA CloseReads ==
  ASSUME RInv, outcome = "running", ReadsAsTaken,
         NEW kind, NEW markers, NEW bracket,
         \/ kind = "array-end" /\ markers = {"array-open", "array"} /\ bracket = "]"
         \/ kind = "object-end" /\ markers = {"object-open", "object"} /\ bracket = "}",
         Close(kind, markers, bracket)
  PROVE  ReadsAsTaken' /\ WholeRecords'
<1> DEFINE t == written \o held
           p == Pop(stack)
           s == Done(p)
           es == With(seen, kind, "")
           outputs == <<bracket>> \o Tail5(p)
<1>1. /\ stack \in Seq(Marker) /\ StackShape /\ Top(stack) \in markers /\ t \in Seq(Token)
      /\ Transition(s, Ended(s, outputs), kind, "") /\ bracket \in Token
  BY TokenTexts DEF RInv, IInv, TypeOK, Close, Token, Punctuation
<1>2. Len(stack) > 0 /\ Top(stack) # "root-done"
  BY <1>1, TopProperties
<1>3. /\ p \in Seq(Marker) /\ Len(p) = Len(stack) - 1 /\ Len(p) \in Nat
      /\ \A i \in 1 .. Len(p) : p[i] \in {"array", "member"}
  BY <1>1, <1>2, PopProperties, LenProperties DEF StackShape
<1>4. Read(t) = Awaits(stack, seen, Wanted(stack))
  BY DEF ReadsAsTaken
<1>5. Top(p) # "root-done"
  <2> HIDE DEF p
  <2>1. CASE Len(p) = 0
    BY <2>1 DEF Top
  <2>2. CASE Len(p) # 0
    <3>1. Len(p) \in 1 .. Len(p)
      BY ONLY <1>3, <2>2
    <3>2. p[Len(p)] \in {"array", "member"}
      BY <1>3, <3>1
    <3>. QED
      BY <2>2, <3>2 DEF Top
  <2>. QED
    BY <2>1, <2>2
<1>6. Outer(OpenOf(stack)) = OpenOf(p)
  BY <1>1, <1>2, <1>5, OpenPopped
<1> HIDE DEF t, p
<1>7. /\ s \in Seq(Marker) /\ Len(s) > 0 /\ Top(s) # "member"
  BY <1>3, DoneIsNoMember
<1> HIDE DEF s
<1>8. /\ Tail5(p) \in Seq(Token) /\ <<bracket>> \in Seq(Token)
      /\ outputs \in Seq(Token)
  BY <1>1, LeadAndTail, TokenTexts
<1> DEFINE u == t \o <<bracket>>
<1>9. u \in Seq(Token) /\ Read(u) = Completed(p, es)
  <2>1. Innermost(OpenOf(stack)) = Bracket(Top(stack))
    BY <1>1, <1>2, OpenProperties
  <2>2. Syntax(Awaits(stack, seen, Wanted(stack)), bracket) = Left(stack, es)
    <3>1. CASE kind = "array-end"
      <4>1. Innermost(OpenOf(stack)) = "[" /\ Wanted(stack) \in {"first-item", "more"}
            /\ bracket = "]"
        BY <1>1, <2>1, <3>1 DEF Bracket, Wanted
      <4>. QED
        BY <3>1, <4>1, AwaitedTokens
    <3>2. CASE kind = "object-end"
      <4>1. Innermost(OpenOf(stack)) = "{" /\ Wanted(stack) \in {"first-key", "more"}
            /\ bracket = "}"
        BY <1>1, <2>1, <3>2 DEF Bracket, Wanted
      <4>. QED
        BY <3>2, <4>1, AwaitedTokens
    <3>. QED
      BY <3>1, <3>2
  <2>3. Left(stack, es) = Completed(p, es)
    BY <1>6 DEF Left, Completed, Awaits
  <2>. QED
    BY <1>1, <1>4, <2>2, <2>3, Tokenwise
<1>10. t \o outputs = u \o Tail5(p)
  <2>2. t \in Seq(Token) /\ Tail5(p) \in Seq(Token)
    BY <1>1, <1>8
  <2>1. \A b \in Seq(Token) : t \o (b \o Tail5(p)) = (t \o b) \o Tail5(p)
    BY ONLY <2>2, Tokenwise
  <2>. QED
    BY <1>8, <2>1
<1> HIDE DEF u, es, outputs
<1>11. Read(t \o outputs) = Awaits(s, es, Wanted(s))
  BY <1>3, <1>9, <1>10, TailReads DEF s
<1>12. Read((written \o held) \o outputs) = Awaits(s, With(seen, kind, ""), Wanted(s))
  BY <1>11 DEF t, es
<1>. QED
  BY <1>1, <1>7, <1>8, <1>12, StepReads

(* A key written: its value is awaited, and only the value ends the record. *)
LEMMA MemberReads ==
  ASSUME RInv, outcome = "running", ReadsAsTaken, NEW name \in Keys, Member(name)
  PROVE  ReadsAsTaken' /\ WholeRecords'
<1> DEFINE t == written \o held
           m == Mark("member", stack)
           es == With(seen, "key", name)
           comma == IF Top(stack) = "object" THEN <<",">> ELSE << >>
           outputs == comma \o <<name, ":">>
<1>1. /\ stack \in Seq(Marker) /\ written \in Seq(Token) /\ held \in Seq(Token)
      /\ t \in Seq(Token) /\ name \in Token /\ ":" \in Token /\ "," \in Token
      /\ WholeRecords
  BY TokenTexts DEF RInv, IInv, TypeOK, Token, Punctuation
<1>2. /\ Top(stack) \in {"object-open", "object"}
      /\ seen' = es
  BY DEF Member, Transition, With
<1>3. /\ outputs \in Seq(Token) /\ stack' = m
      /\ held' = held \o outputs /\ written' = written
  BY KeyIsHeld DEF RInv
<1>4. Len(stack) > 0 /\ Len(stack) \in Nat /\ Top(stack) = stack[Len(stack)]
  BY <1>1, <1>2, TopProperties
<1>5. Read(t) = Awaits(stack, seen, Wanted(stack))
  BY DEF ReadsAsTaken
<1>6. OpenOf(m) = OpenOf(stack) /\ Top(m) = "member"
  <2>1. /\ m \in Seq(Marker) /\ Len(m) = Len(stack) /\ m[Len(stack)] = "member"
        /\ \A i \in 1 .. Len(stack) - 1 : m[i] = stack[i]
    BY <1>1, <1>4, MarkProperties DEF Marker
  <2> HIDE DEF m
  <2>2. Top(m) = "member"
    BY <1>4, <2>1, TopProperties
  <2>3. \A i \in 1 .. Len(stack) : i \in 1 .. Len(stack) - 1 \/ i = Len(stack)
    BY <1>4
  <2>4. \A i \in 1 .. Len(stack) : Bracket(m[i]) = Bracket(stack[i])
    BY <1>2, <1>4, <2>1, <2>3 DEF Bracket
  <2>. QED
    BY <1>1, <1>2, <2>1, <2>2, <2>4, OpenAlike
<1> HIDE DEF t, m
<1>7. /\ comma \in Seq(Token) /\ t \o comma \in Seq(Token)
      /\ \E want \in {"key", "first-key"} : Read(t \o comma) = Awaits(stack, seen, want)
  <2>1. CASE Top(stack) = "object"
    <3>1. Wanted(stack) = "more" /\ comma = <<",">>
      BY <2>1 DEF Wanted
    <3>2. Innermost(OpenOf(stack)) = "{"
      BY <1>1, <1>4, <2>1, OpenProperties DEF Bracket
    <3>3. Syntax(Awaits(stack, seen, "more"), ",") = Awaits(stack, seen, "key")
      BY <3>2, AwaitedTokens
    <3>4. <<",">> \in Seq(Token)
      BY <1>1, TokenTexts
    <3>. QED
      BY <1>1, <1>5, <3>1, <3>3, <3>4, Tokenwise
  <2>2. CASE Top(stack) = "object-open"
    <3>1. Wanted(stack) = "first-key" /\ comma = << >>
      BY <2>2 DEF Wanted
    <3>. QED
      BY <1>1, <1>5, <3>1, Tokenwise, TokenTexts
  <2>. QED
    BY <1>2, <2>1, <2>2
<1> DEFINE u == t \o comma
<1> HIDE DEF comma
<1>8. PICK want \in {"key", "first-key"} : Read(u) = Awaits(stack, seen, want)
  BY <1>7
<1>9. t \o outputs = (u \o <<name>>) \o <<":">>
  <2>1. <<name, ":">> = <<name>> \o <<":">> /\ <<name>> \in Seq(Token) /\ <<":">> \in Seq(Token)
    BY <1>1, Tokenwise, TokenTexts
  <2>2. <<name>> \o <<":">> \in Seq(Token)
    BY <2>1, TokenTexts
  <2>5. t \in Seq(Token) /\ comma \in Seq(Token)
    BY <1>1, <1>7
  <2>6. \A v \in Seq(Token) : t \o (comma \o v) = (t \o comma) \o v
    BY ONLY <2>5, Tokenwise
  <2>3. t \o (comma \o (<<name>> \o <<":">>)) = u \o (<<name>> \o <<":">>)
    BY <2>2, <2>6
  <2>4. u \o (<<name>> \o <<":">>) = (u \o <<name>>) \o <<":">>
    BY <1>7, <2>1, Tokenwise
  <2>. QED
    BY <2>1, <2>3, <2>4
<1>10. u \o <<name>> \in Seq(Token) /\ Read(u \o <<name>>) = Awaits(stack, es, "colon")
  <2>1. Syntax(Awaits(stack, seen, want), name) = Awaits(stack, es, "colon")
    BY AwaitedTokens
  <2>. QED
    BY <1>1, <1>7, <1>8, <2>1, Tokenwise
<1> HIDE DEF u, outputs, es
<1>11. Read(t \o outputs) = Awaits(stack, es, "value")
  <2>1. Syntax(Awaits(stack, es, "colon"), ":") = Awaits(stack, es, "value")
    BY AwaitedTokens
  <2>. QED
    BY <1>1, <1>9, <1>10, <2>1, Tokenwise
<1>12. Awaits(stack, es, "value") = Awaits(m, es, Wanted(m))
  BY <1>6 DEF Awaits, Wanted
<1>13. written' \o held' = t \o outputs
  <2>2. written \in Seq(Token) /\ held \in Seq(Token) /\ outputs \in Seq(Token)
    BY <1>1, <1>3
  <2>1. written \o (held \o outputs) = (written \o held) \o outputs
    BY ONLY <2>2, Tokenwise
  <2>. QED
    BY <1>3, <2>1 DEF t
<1>14. Read(written' \o held') = Awaits(stack', seen', Wanted(stack'))
  BY <1>2, <1>3, <1>11, <1>12, <1>13
<1>15. ReadsAsTaken'
  BY <1>14 DEF ReadsAsTaken
<1>. QED
  BY <1>1, <1>3, <1>15 DEF WholeRecords

(* Every step keeps the reader where the stack is: one case per event, and *)
(* the two ways a run may stop.                                            *)
LEMMA StepKeepsReading == RInv /\ [Next]_vars => RInv'
<1> SUFFICES ASSUME RInv, [Next]_vars
             PROVE  RInv'
  OBVIOUS
<1>1. IInv'
  BY StepKeepsInvariant DEF RInv
<1>2. SUFFICES (outcome' = "running" => ReadsAsTaken') /\ WholeRecords'
  BY <1>1 DEF RInv
<1>3. outcome = "running" => ReadsAsTaken
  BY DEF RInv
<1>4. CASE ArrayStart
  <2>1. outcome = "running"
    BY <1>4 DEF ArrayStart, Begin, Transition
  <2>. QED
    BY <1>3, <1>4, <2>1, BeginReads DEF ArrayStart
<1>5. CASE ObjectStart
  <2>1. outcome = "running"
    BY <1>5 DEF ObjectStart, Begin, Transition
  <2>. QED
    BY <1>3, <1>5, <2>1, BeginReads DEF ObjectStart
<1>6. ASSUME NEW name \in Keys, Member(name)
      PROVE  ReadsAsTaken' /\ WholeRecords'
  <2>1. outcome = "running"
    BY <1>6 DEF Member, Transition
  <2>. QED
    BY <1>3, <1>6, <2>1, MemberReads
<1>7. ASSUME NEW value \in Scalars, Scalar(value)
      PROVE  ReadsAsTaken' /\ WholeRecords'
  <2>1. outcome = "running"
    BY <1>7 DEF Scalar, Transition
  <2>. QED
    BY <1>3, <1>7, <2>1, ScalarReads
<1>8. CASE ObjectEnd
  <2>1. outcome = "running"
    BY <1>8 DEF ObjectEnd, Close, Transition
  <2>. QED
    BY <1>3, <1>8, <2>1, CloseReads DEF ObjectEnd
<1>9. CASE ArrayEnd
  <2>1. outcome = "running"
    BY <1>9 DEF ArrayEnd, Close, Transition
  <2>. QED
    BY <1>3, <1>9, <2>1, CloseReads DEF ArrayEnd
<1>10. ASSUME NEW event \in Event, Refuse(event)
       PROVE  (outcome' = "running" => ReadsAsTaken') /\ WholeRecords'
  BY <1>10 DEF RInv, Refuse, WholeRecords
<1>11. CASE Finish
  BY <1>11 DEF RInv, Finish, WholeRecords
<1>12. CASE UNCHANGED vars
  BY <1>12 DEF RInv, vars, WholeRecords, ReadsAsTaken
<1>. QED
  BY <1>4, <1>5, <1>6, <1>7, <1>8, <1>9, <1>10, <1>11, <1>12 DEF Next

(* The reader is inside the containers of the stack, in every run.         *)
THEOREM ReadingInvariant == Spec => []RInv
<1>1. Init => RInv
  <2> SUFFICES ASSUME Init PROVE RInv
    OBVIOUS
  <2>1. IInv
    BY DEF Init, IInv, TypeOK, StackShape, NothingHeldBetweenRecords
  <2>2. written = << >> /\ held = << >> /\ << >> \in Seq(Token) /\ written \o held = << >>
    BY Tokenwise, TokenTexts DEF Init
  <2>3. Read(written) = StartOfText /\ Read(written \o held) = StartOfText
    BY <2>2, ReadsTokenByToken
  <2>4. ReadsAsTaken
    <3>1. Top(stack) = "none" /\ seen = << >> /\ Len(stack) = 0 /\ stack \in Seq(Marker)
      BY EmptySeq DEF Init, Top
    <3>2. OpenOf(stack) = << >>
      BY <3>1, OpenProperties
    <3>3. Wanted(stack) = "value"
      BY <3>1 DEF Wanted
    <3>. QED
      BY <2>3, <3>1, <3>2, <3>3 DEF ReadsAsTaken, Awaits, StartOfText
  <2>5. WholeRecords
    <3> DEFINE r == Read(written)
    <3>1. r.ok = TRUE /\ r.open = << >> /\ r.want = "value"
      BY <2>3 DEF StartOfText, Reader
    <3> HIDE DEF r
    <3>2. r.ok /\ Len(r.open) <= 1
      BY <3>1, EmptySeq
    <3>. QED
      BY <2>2, <3>1, <3>2 DEF WholeRecords, r
  <2>. QED
    BY <2>1, <2>4, <2>5 DEF RInv
<1>. QED
  BY <1>1, StepKeepsReading, PTL DEF Spec

(* What the render has put out, written or held, reads as JSON into        *)
(* exactly the events it has taken: no separator missing or doubled,       *)
(* nothing lost, in documents of any depth and length (render.alc 6-17).   *)
THEOREM TextReadsBack == Spec => []ReadsBack
<1>1. RInv => ReadsBack
  BY DEF RInv, ReadsAsTaken, ReadsBack, Awaits, Reader
<1>. QED
  BY <1>1, ReadingInvariant, PTL

(* Whatever event a run fails at, what has been written out is JSON cut    *)
(* between two values of the root container (render.alc 37-41).            *)
THEOREM FailuresLeaveWholeRecords == Spec => []WholeRecords
<1>1. RInv => WholeRecords
  BY DEF RInv
<1>. QED
  BY <1>1, ReadingInvariant, PTL

-------------------------------------------------------------------------------
(* What TreeText says of a sequence of events with one more: nothing else  *)
(* of those before.                                                        *)

(* The promise's counts and its kinds of events are the render's. *)
LEMMA SameWords ==
  /\ \A T : Document!Cardinality(T) = Cardinality(T)
  /\ Document!Begins = Begins /\ Document!Ends = Ends /\ Document!Event = Event
<1>1. \A T : Document!Cardinality(T) = Cardinality(T)
  BY DEF Document!Cardinality, Cardinality
<1>2. Document!Begins = Begins /\ Document!Ends = Ends
  BY DEF Document!Begins, Document!Ends, Begins, Ends
<1>3. Document!Event = Event
  BY <1>2 DEF Document!Event, Event
<1>. QED
  BY <1>1, <1>2, <1>3

(* The text of the pieces, one after the other. *)
LEMMA FlattensPieceByPiece ==
  ASSUME NEW ss, Len(ss) \in Nat
  PROVE  \A n \in 1 .. Len(ss) : \E f :
           /\ f = [i \in 1 .. Len(ss) |-> IF i = 1 THEN ss[i] ELSE f[i - 1] \o ss[i]]
           /\ Document!FlattenSeq(ss) = f[Len(ss)]
<1> DEFINE Joins(f, m) == f = [i \in 1 .. m |-> IF i = 1 THEN ss[i] ELSE f[i - 1] \o ss[i]]
           T == {m \in Nat : ~ \E f : Joins(f, m)}
<1>1. T = {}
  <2> SUFFICES ASSUME T # {} PROVE FALSE
    OBVIOUS
  <2>1. T \in SUBSET Nat
    OBVIOUS
  <2> HIDE DEF T
  <2>2. PICK m \in T : \A k \in T : m <= k
    BY <2>1, LeastNumber
  <2>3. m \in Nat /\ ~ \E f : Joins(f, m)
    BY <2>2 DEF T
  <2>4. CASE m = 0
    <3> DEFINE f == [i \in 1 .. 0 |-> {}]
    <3>1. \A i : i \notin 1 .. 0
      OBVIOUS
    <3>2. f = [i \in 1 .. 0 |-> IF i = 1 THEN ss[i] ELSE f[i - 1] \o ss[i]]
      BY <3>1
    <3>3. Joins(f, 0)
      BY <3>2
    <3>. QED
      BY <2>3, <2>4, <3>3
  <2>5. CASE m # 0
    <3>1. m - 1 \in Nat /\ m - 1 \notin T
      BY <2>2, <2>3, <2>5
    <3>2. PICK f : Joins(f, m - 1)
      BY <3>1 DEF T
    <3> DEFINE value == IF m = 1 THEN ss[m] ELSE f[m - 1] \o ss[m]
               g == [i \in 1 .. m |-> IF i = m THEN value ELSE f[i]]
    <3>3. \A i \in 1 .. m - 1 : /\ i \in 1 .. m /\ i # m
                                /\ i # 1 => i - 1 \in 1 .. m - 1
      BY <2>3, <2>5
    <3>4. \A i \in 1 .. m - 1 : f[i] = IF i = 1 THEN ss[i] ELSE f[i - 1] \o ss[i]
      BY <3>2
    <3>5. \A i \in 1 .. m - 1 : g[i] = f[i]
      BY <3>3
    <3>6. g[m] = IF m = 1 THEN ss[m] ELSE g[m - 1] \o ss[m]
      BY <2>3, <2>5, <3>5
    <3>7. \A i \in 1 .. m : i \in 1 .. m - 1 \/ i = m
      BY <2>3
    <3>8. g = [i \in 1 .. m |-> g[i]]
      OBVIOUS
    <3> HIDE DEF g
    <3>9. \A i \in 1 .. m : g[i] = IF i = 1 THEN ss[i] ELSE g[i - 1] \o ss[i]
      BY <3>3, <3>4, <3>5, <3>6, <3>7
    <3>10. Joins(g, m)
      BY <3>8, <3>9
    <3>. QED
      BY <2>3, <3>10
  <2>. QED
    BY <2>4, <2>5
<1>2. \E f : Joins(f, Len(ss))
  BY <1>1
<1> SUFFICES ASSUME NEW n \in 1 .. Len(ss)
             PROVE  \E f : Joins(f, Len(ss)) /\ Document!FlattenSeq(ss) = f[Len(ss)]
  OBVIOUS
<1>3. Document!FlattenSeq(ss) = (CHOOSE f : Joins(f, Len(ss)))[Len(ss)]
  BY DEF Document!FlattenSeq
<1>. QED
  BY <1>2, <1>3

(* One piece more is that much more text. *)
LEMMA FlattensOneMore ==
  ASSUME NEW ss \in Seq(Seq(Token)), NEW tt, Len(tt) = Len(ss) + 1,
         \A i \in 1 .. Len(ss) : tt[i] = ss[i],
         tt[Len(tt)] \in Seq(Token)
  PROVE  Document!FlattenSeq(tt) = Document!FlattenSeq(ss) \o tt[Len(tt)]
<1> DEFINE n == Len(ss)
<1>1. n \in Nat /\ Len(tt) = n + 1 /\ n + 1 \in 1 .. Len(tt) /\ Len(tt) \in Nat
  BY LenProperties
<1>2. PICK f : /\ f = [i \in 1 .. Len(tt) |-> IF i = 1 THEN tt[i] ELSE f[i - 1] \o tt[i]]
               /\ Document!FlattenSeq(tt) = f[Len(tt)]
  BY <1>1, FlattensPieceByPiece
<1>3. \A i \in 1 .. n + 1 : f[i] = IF i = 1 THEN tt[i] ELSE f[i - 1] \o tt[i]
  BY <1>1, <1>2
<1>4. CASE n = 0
  <2>1. ss = << >> /\ Document!FlattenSeq(ss) = ss
    BY <1>4, EmptySeq DEF Document!FlattenSeq
  <2>2. f[1] = tt[1]
    BY <1>3, <1>4
  <2>. QED
    BY <1>1, <1>2, <1>4, <2>1, <2>2
<1>5. CASE n # 0
  <2>1. n \in 1 .. Len(ss)
    BY <1>1, <1>5
  <2>2. PICK g : /\ g = [i \in 1 .. Len(ss) |-> IF i = 1 THEN ss[i] ELSE g[i - 1] \o ss[i]]
                 /\ Document!FlattenSeq(ss) = g[Len(ss)]
    BY <1>1, <2>1, FlattensPieceByPiece
  <2>3. \A i \in 1 .. n : g[i] = IF i = 1 THEN ss[i] ELSE g[i - 1] \o ss[i]
    BY <2>2
  <2> HIDE DEF n
  <2> DEFINE T == {i \in 1 .. n : f[i] # g[i]}
  <2>4. T = {}
    <3> SUFFICES ASSUME T # {} PROVE FALSE
      OBVIOUS
    <3>1. /\ T \in SUBSET Nat
          /\ \A i \in T : i \in 1 .. n /\ f[i] # g[i]
          /\ \A i \in 1 .. n : i \notin T => f[i] = g[i]
      OBVIOUS
    <3> HIDE DEF T
    <3>2. PICK i \in T : \A k \in T : i <= k
      BY <3>1, LeastNumber
    <3>3. /\ i \in 1 .. n + 1 /\ i \in 1 .. n /\ tt[i] = ss[i]
          /\ i # 1 => i - 1 \in 1 .. n /\ i - 1 \notin T
      BY <1>1, <3>1, <3>2 DEF n
    <3>4. i # 1 => f[i - 1] = g[i - 1]
      BY <3>1, <3>3
    <3>. QED
      BY <1>3, <2>3, <3>1, <3>2, <3>3, <3>4
  <2>5. n \in 1 .. n /\ n + 1 # 1 /\ (n + 1) - 1 = n /\ n + 1 \in 1 .. n + 1
    BY <1>1, <1>5
  <2>6. f[n] = g[n]
    BY <2>4, <2>5
  <2>7. f[n + 1] = f[n] \o tt[n + 1]
    BY <1>3, <2>5
  <2>. QED
    BY <1>1, <1>2, <2>2, <2>6, <2>7 DEF n
<1>. QED
  BY <1>4, <1>5

(* The greatest of a set of numbers is its Max. *)
LEMMA GreatestIsMax ==
  ASSUME NEW T \in SUBSET Int, NEW x \in T, \A y \in T : y <= x
  PROVE  Document!Max(T) = x
<1>1. \E m \in T : \A y \in T : m >= y
  OBVIOUS
<1> DEFINE m == Document!Max(T)
<1>2. m \in T /\ \A y \in T : m >= y
  BY <1>1 DEF Document!Max
<1> HIDE DEF m
<1>3. m = x
  BY <1>2
<1>. QED
  BY ONLY <1>3 DEF m

(* Of places up to some one there is a last, if there is any. *)
LEMMA GreatestExists ==
  ASSUME NEW n \in Nat, NEW T \in SUBSET (1 .. n), T # {}
  PROVE  \E x \in T : \A y \in T : x >= y
<1> DEFINE U == {n - x : x \in T}
<1>1. U \in SUBSET Nat /\ U # {}
  <2>1. \A x \in T : n - x \in Nat
    OBVIOUS
  <2>. QED
    BY <2>1
<1>2. \A y \in T : n - y \in U /\ y \in Int
  OBVIOUS
<1>3. \A u \in U : \E x \in T : u = n - x
  OBVIOUS
<1> HIDE DEF U
<1>4. PICK u \in U : \A w \in U : u <= w
  BY <1>1, LeastNumber
<1>5. PICK x \in T : u = n - x
  BY <1>3
<1>6. \A y \in T : x >= y
  BY <1>2, <1>4, <1>5
<1>. QED
  BY <1>6

(* A finite set with one more. *)
LEMMA OneMore ==
  ASSUME NEW T, IsFiniteSet(T), NEW x, x \notin T
  PROVE  /\ IsFiniteSet(T \cup {x})
         /\ Cardinality(T \cup {x}) = Cardinality(T) + 1
         /\ Cardinality(T) \in Nat
BY FS_AddElement, FS_CardinalityType

(* Events that agree so far have the same depths so far. *)
LEMMA DepthsAgree ==
  ASSUME NEW s, NEW t, NEW n \in Nat, \A j \in 1 .. n : s[j] = t[j]
  PROVE  \A i \in 1 .. n + 1 : Document!DepthBefore(s, i) = Document!DepthBefore(t, i)
<1> SUFFICES ASSUME NEW i \in 1 .. n + 1
             PROVE  Document!DepthBefore(s, i) = Document!DepthBefore(t, i)
  OBVIOUS
<1>1. \A j \in 1 .. i - 1 : s[j] = t[j]
  OBVIOUS
<1>2. \A K : {j \in 1 .. i - 1 : s[j].kind \in K} = {j \in 1 .. i - 1 : t[j].kind \in K}
  BY <1>1
<1>. QED
  BY <1>2 DEF Document!DepthBefore

(* Each event takes the depth up one, down one or nowhere. *)
Change(e) == IF e.kind \in Begins THEN 1 ELSE IF e.kind \in Ends THEN -1 ELSE 0

LEMMA DepthChanges ==
  ASSUME NEW es
  PROVE  /\ Document!DepthBefore(es, 1) = 0
         /\ \A i \in Nat \ {0} :
              /\ Document!DepthBefore(es, i) \in Int
              /\ Document!DepthBefore(es, i + 1) = Document!DepthBefore(es, i) + Change(es[i])
<1> DEFINE Upto(K, i) == {j \in 1 .. i - 1 : es[j].kind \in K}
<1>1. \A K : Upto(K, 1) = {}
  OBVIOUS
<1>2. Document!DepthBefore(es, 1) = 0
  <2>1. Document!DepthBefore(es, 1) = Cardinality(Upto(Begins, 1)) - Cardinality(Upto(Ends, 1))
    BY SameWords DEF Document!DepthBefore
  <2>. QED
    BY <1>1, <2>1, FS_EmptySet
<1>3. ASSUME NEW i \in Nat \ {0}
      PROVE  /\ Document!DepthBefore(es, i) \in Int
             /\ Document!DepthBefore(es, i + 1) = Document!DepthBefore(es, i) + Change(es[i])
  <2>1. \A K : /\ IsFiniteSet(Upto(K, i)) /\ i \notin Upto(K, i)
               /\ Upto(K, i + 1) = IF es[i].kind \in K THEN Upto(K, i) \cup {i} ELSE Upto(K, i)
    <3> SUFFICES ASSUME NEW K
                 PROVE  /\ IsFiniteSet(Upto(K, i)) /\ i \notin Upto(K, i)
                        /\ Upto(K, i + 1) = IF es[i].kind \in K THEN Upto(K, i) \cup {i}
                                                                ELSE Upto(K, i)
      OBVIOUS
    <3>1. IsFiniteSet(1 .. i - 1) /\ Upto(K, i) \subseteq 1 .. i - 1
      BY FS_Interval
    <3>2. IsFiniteSet(Upto(K, i))
      BY <3>1, FS_Subset
    <3>3. 1 .. (i + 1) - 1 = (1 .. i - 1) \cup {i} /\ i \notin 1 .. i - 1
      OBVIOUS
    <3>. QED
      BY <3>2, <3>3
  <2>2. /\ Document!DepthBefore(es, i)
             = Cardinality(Upto(Begins, i)) - Cardinality(Upto(Ends, i))
        /\ Document!DepthBefore(es, i + 1)
             = Cardinality(Upto(Begins, i + 1)) - Cardinality(Upto(Ends, i + 1))
    BY SameWords DEF Document!DepthBefore
  <2> HIDE DEF Upto
  <2>3. \A K : /\ Cardinality(Upto(K, i)) \in Nat
               /\ Cardinality(Upto(K, i + 1))
                    = Cardinality(Upto(K, i)) + IF es[i].kind \in K THEN 1 ELSE 0
    <3> SUFFICES ASSUME NEW K
                 PROVE  /\ Cardinality(Upto(K, i)) \in Nat
                        /\ Cardinality(Upto(K, i + 1))
                             = Cardinality(Upto(K, i)) + IF es[i].kind \in K THEN 1 ELSE 0
      OBVIOUS
    <3> DEFINE T == Upto(K, i)
    <3>1. /\ IsFiniteSet(T) /\ i \notin T
          /\ Upto(K, i + 1) = IF es[i].kind \in K THEN T \cup {i} ELSE T
      BY <2>1
    <3> HIDE DEF T
    <3>2. Cardinality(T) \in Nat /\ Cardinality(T \cup {i}) = Cardinality(T) + 1
      BY ONLY <3>1, OneMore
    <3>3. Cardinality(Upto(K, i + 1)) = Cardinality(T) + IF es[i].kind \in K THEN 1 ELSE 0
      BY ONLY <3>1, <3>2
    <3>. QED
      BY <3>2, <3>3 DEF T
  <2>4. es[i].kind \in Begins => es[i].kind \notin Ends
    BY DEF Begins, Ends
  <2>. QED
    BY <2>2, <2>3, <2>4 DEF Change
<1>. QED
  BY <1>2, <1>3

-------------------------------------------------------------------------------
(* What a sequence of events says of each level of containers still open.  *)

(* How many containers are open after these events. *)
DepthOf(es) == Document!DepthBefore(es, Len(es) + 1)

(* The containers begun at a level, and the keys and values begun at it    *)
(* after event p.                                                          *)
BegunAt(es, k) ==
  {j \in 1 .. Len(es) : es[j].kind \in Begins /\ Document!DepthBefore(es, j) = k - 1}

BegunIn(es, p, k) ==
  {j \in p + 1 .. Len(es) : Document!DepthBefore(es, j) = k /\ es[j].kind \notin Ends}

(* The last container begun at level k began by this kind of event, and    *)
(* holds that many keys and values.                                        *)
Holds(es, k, kind, count) ==
  \E p \in BegunAt(es, k) :
    /\ \A q \in BegunAt(es, k) : q <= p
    /\ es[p].kind = kind
    /\ IsFiniteSet(BegunIn(es, p, k)) /\ Cardinality(BegunIn(es, p, k)) = count

(* One more event: what was so of the events before is so still. *)
LEMMA OneEventMore ==
  ASSUME NEW es \in Seq(Event), NEW e \in Event
  PROVE  /\ Append(es, e) \in Seq(Event) /\ Len(es) \in Nat
         /\ Len(Append(es, e)) = Len(es) + 1 /\ Append(es, e)[Len(es) + 1] = e
         /\ \A j \in 1 .. Len(es) : Append(es, e)[j] = es[j]
         /\ \A i \in 1 .. Len(es) + 1 :
              Document!DepthBefore(Append(es, e), i) = Document!DepthBefore(es, i)
         /\ DepthOf(es) \in Int
         /\ DepthOf(Append(es, e)) = DepthOf(es) + Change(e)
<1> DEFINE more == Append(es, e)
           n == Len(es)
<1>1. /\ more \in Seq(Event) /\ n \in Nat /\ Len(more) = n + 1 /\ more[n + 1] = e
      /\ \A j \in 1 .. n : more[j] = es[j]
  BY AppendProperties, LenProperties
<1> HIDE DEF more, n
<1>2. \A i \in 1 .. n + 1 : Document!DepthBefore(more, i) = Document!DepthBefore(es, i)
  BY ONLY <1>1, DepthsAgree
<1>3. n + 1 \in Nat \ {0} /\ n + 1 \in 1 .. n + 1
  BY <1>1
<1>4. /\ Document!DepthBefore(more, n + 1) \in Int
      /\ Document!DepthBefore(more, (n + 1) + 1)
           = Document!DepthBefore(more, n + 1) + Change(more[n + 1])
  BY <1>3, DepthChanges
<1>5. Document!DepthBefore(more, n + 1) = DepthOf(es)
  BY <1>2, <1>3 DEF DepthOf, n
<1>6. DepthOf(more) = Document!DepthBefore(more, (n + 1) + 1)
  BY <1>1 DEF DepthOf
<1>. QED
  BY <1>1, <1>2, <1>4, <1>5, <1>6 DEF more, n

(* What it does to the containers begun at each level. *)
LEMMA BegunMore ==
  ASSUME NEW es \in Seq(Event), NEW e \in Event, NEW k \in Int
  PROVE  /\ BegunAt(Append(es, e), k) =
              IF e.kind \in Begins /\ DepthOf(es) = k - 1
              THEN BegunAt(es, k) \cup {Len(es) + 1} ELSE BegunAt(es, k)
         /\ \A p \in 1 .. Len(es) :
              BegunIn(Append(es, e), p, k) =
                IF e.kind \notin Ends /\ DepthOf(es) = k
                THEN BegunIn(es, p, k) \cup {Len(es) + 1} ELSE BegunIn(es, p, k)
<1> DEFINE more == Append(es, e)
           n == Len(es)
<1>1. /\ n \in Nat /\ Len(more) = n + 1 /\ more[n + 1] = e
      /\ \A j \in 1 .. n : /\ more[j] = es[j]
                           /\ Document!DepthBefore(more, j) = Document!DepthBefore(es, j)
      /\ Document!DepthBefore(more, n + 1) = DepthOf(es)
  BY OneEventMore DEF DepthOf
<1> HIDE DEF more, n
<1>2. \A j : j \in 1 .. n + 1 <=> j \in 1 .. n \/ j = n + 1
  BY <1>1
<1>3. BegunAt(more, k) = {j \in 1 .. n + 1 : /\ more[j].kind \in Begins
                                             /\ Document!DepthBefore(more, j) = k - 1}
  BY <1>1 DEF BegunAt
<1>4. BegunAt(es, k) = {j \in 1 .. n : /\ es[j].kind \in Begins
                                       /\ Document!DepthBefore(es, j) = k - 1}
  BY DEF BegunAt, n
<1>5. ASSUME NEW p \in 1 .. n
      PROVE  BegunIn(more, p, k) =
               IF e.kind \notin Ends /\ DepthOf(es) = k
               THEN BegunIn(es, p, k) \cup {n + 1} ELSE BegunIn(es, p, k)
  <2>1. BegunIn(more, p, k) = {j \in p + 1 .. n + 1 : /\ Document!DepthBefore(more, j) = k
                                                      /\ more[j].kind \notin Ends}
    BY <1>1 DEF BegunIn
  <2>2. BegunIn(es, p, k) = {j \in p + 1 .. n : /\ Document!DepthBefore(es, j) = k
                                                /\ es[j].kind \notin Ends}
    BY DEF BegunIn, n
  <2>3. /\ \A j : j \in p + 1 .. n + 1 <=> j \in p + 1 .. n \/ j = n + 1
        /\ \A j \in p + 1 .. n : j \in 1 .. n
    BY <1>1
  <2>. QED
    BY <1>1, <2>1, <2>2, <2>3
<1>6. BegunAt(more, k) =
        IF e.kind \in Begins /\ DepthOf(es) = k - 1
        THEN BegunAt(es, k) \cup {n + 1} ELSE BegunAt(es, k)
  BY <1>1, <1>2, <1>3, <1>4
<1>. QED
  BY <1>5, <1>6 DEF more, n

(* A level no more is begun at or in holds what it held. *)
LEMMA HoldsStill ==
  ASSUME NEW es \in Seq(Event), NEW e \in Event, NEW k \in Int, NEW kind, NEW count,
         Holds(es, k, kind, count), k <= DepthOf(es), e.kind \in Ends \/ k # DepthOf(es)
  PROVE  Holds(Append(es, e), k, kind, count)
<1> DEFINE more == Append(es, e)
<1>1. PICK p \in BegunAt(es, k) :
        /\ \A q \in BegunAt(es, k) : q <= p
        /\ es[p].kind = kind
        /\ IsFiniteSet(BegunIn(es, p, k)) /\ Cardinality(BegunIn(es, p, k)) = count
  BY DEF Holds
<1>2. p \in 1 .. Len(es) /\ DepthOf(es) \in Int /\ more[p] = es[p]
  BY OneEventMore DEF BegunAt
<1>3. BegunAt(more, k) = BegunAt(es, k) /\ BegunIn(more, p, k) = BegunIn(es, p, k)
  BY <1>2, BegunMore
<1> HIDE DEF more
<1>4. Holds(more, k, kind, count)
  BY <1>1, <1>2, <1>3 DEF Holds
<1>. QED
  BY <1>4 DEF more

(* A key or a value begun is one more in the level it is at. *)
LEMMA HoldsMore ==
  ASSUME NEW es \in Seq(Event), NEW e \in Event, NEW kind, NEW count,
         Holds(es, DepthOf(es), kind, count), e.kind \notin Ends
  PROVE  Holds(Append(es, e), DepthOf(es), kind, count + 1)
<1> DEFINE more == Append(es, e)
           k == DepthOf(es)
           x == Len(es) + 1
<1>1. PICK p \in BegunAt(es, k) :
        /\ \A q \in BegunAt(es, k) : q <= p
        /\ es[p].kind = kind
        /\ IsFiniteSet(BegunIn(es, p, k)) /\ Cardinality(BegunIn(es, p, k)) = count
  BY DEF Holds
<1>2. /\ p \in 1 .. Len(es) /\ k \in Int /\ more[p] = es[p] /\ Len(es) \in Nat
      /\ x \notin BegunIn(es, p, k)
  BY OneEventMore DEF BegunAt, BegunIn
<1>3. k # k - 1
  BY <1>2
<1>4. BegunAt(more, k) = BegunAt(es, k) /\ BegunIn(more, p, k) = BegunIn(es, p, k) \cup {x}
  BY <1>2, <1>3, BegunMore
<1> HIDE DEF more, k, x
<1>5. /\ IsFiniteSet(BegunIn(more, p, k))
      /\ Cardinality(BegunIn(more, p, k)) = count + 1
  BY <1>1, <1>2, <1>4, OneMore
<1>6. Holds(more, k, kind, count + 1)
  BY <1>1, <1>2, <1>4, <1>5 DEF Holds
<1>. QED
  BY <1>6 DEF more, k

(* A container begun is a level more, that holds nothing yet. *)
LEMMA HoldsNone ==
  ASSUME NEW es \in Seq(Event), NEW e \in Event, e.kind \in Begins
  PROVE  Holds(Append(es, e), DepthOf(es) + 1, e.kind, 0)
<1> DEFINE more == Append(es, e)
           k == DepthOf(es) + 1
           x == Len(es) + 1
<1>1. /\ k \in Int /\ DepthOf(es) = k - 1 /\ Len(es) \in Nat
      /\ Len(more) = x /\ more[x] = e
  BY OneEventMore
<1>2. BegunAt(more, k) = BegunAt(es, k) \cup {x}
  BY <1>1, BegunMore
<1>3. \A q \in BegunAt(more, k) : q <= x
  BY <1>1 DEF BegunAt
<1>4. BegunIn(more, x, k) = {}
  BY <1>1 DEF BegunIn
<1> HIDE DEF more, k, x
<1>5. Holds(more, k, e.kind, 0)
  BY <1>1, <1>2, <1>3, <1>4, FS_EmptySet DEF Holds
<1>. QED
  BY <1>5 DEF more, k

(* The next event is inside the container its level holds. *)
LEMMA NextIsInside ==
  ASSUME NEW es \in Seq(Event), NEW e \in Event, NEW kind, NEW count,
         Holds(es, DepthOf(es), kind, count)
  PROVE  /\ Document!Parent(Append(es, e), Len(es) + 1) # 0
         /\ \A other : Document!Inside(Append(es, e), Len(es) + 1, other) <=> kind = other
         /\ Document!Cardinality(Document!Earlier(Append(es, e), Len(es) + 1)) = count
         /\ Document!Earlier(Append(es, e), Len(es) + 1) = {} <=> count = 0
<1> DEFINE more == Append(es, e)
           k == DepthOf(es)
           x == Len(es) + 1
<1>1. PICK p \in BegunAt(es, k) :
        /\ \A q \in BegunAt(es, k) : q <= p
        /\ es[p].kind = kind
        /\ IsFiniteSet(BegunIn(es, p, k)) /\ Cardinality(BegunIn(es, p, k)) = count
  BY DEF Holds
<1>2. /\ p \in 1 .. Len(es) /\ more[p] = es[p] /\ Len(es) \in Nat /\ x - 1 = Len(es)
      /\ \A j \in 1 .. Len(es) : /\ more[j] = es[j]
                                 /\ Document!DepthBefore(more, j) = Document!DepthBefore(es, j)
      /\ Document!DepthBefore(more, x) = k
  BY OneEventMore DEF BegunAt, DepthOf
<1> HIDE DEF more, k, x
<1>3. Document!Around(more, x) = BegunAt(es, k)
  BY <1>2, SameWords DEF Document!Around, BegunAt
<1>4. BegunAt(es, k) \in SUBSET Int
  BY DEF BegunAt
<1>5. Document!Max(BegunAt(es, k)) = p
  BY <1>1, <1>4, GreatestIsMax
<1>6. Document!Parent(more, x) = p
  BY <1>3, <1>5 DEF Document!Parent
<1>7. Document!Earlier(more, x) = BegunIn(es, p, k)
  <2>1. Document!Earlier(more, x) = {j \in p + 1 .. x - 1 :
           Document!DepthBefore(more, j) = k /\ more[j].kind \notin Ends}
    BY <1>2, <1>6, SameWords DEF Document!Earlier
  <2>2. \A j \in p + 1 .. Len(es) : j \in 1 .. Len(es)
    BY <1>2
  <2>. QED
    BY <1>2, <2>1, <2>2 DEF BegunIn
<1>8. p # 0 /\ more[p].kind = kind
  BY <1>1, <1>2
<1>9. BegunIn(es, p, k) = {} <=> count = 0
  BY <1>1, FS_EmptySet
<1>10. \A other : Document!Inside(more, x, other) <=> kind = other
  BY <1>6, <1>8 DEF Document!Inside
<1>. QED
  BY <1>1, <1>6, <1>7, <1>8, <1>9, <1>10, SameWords DEF more, x

(* At the root there is nothing around the next event. *)
LEMMA NextIsOutside ==
  ASSUME NEW es \in Seq(Event), NEW e \in Event, DepthOf(es) = 0,
         \A j \in 1 .. Len(es) : Document!DepthBefore(es, j) >= 0
  PROVE  /\ Document!Parent(Append(es, e), Len(es) + 1) = 0
         /\ \A other : ~Document!Inside(Append(es, e), Len(es) + 1, other)
<1> DEFINE more == Append(es, e)
           x == Len(es) + 1
<1>1. /\ Len(es) \in Nat /\ x - 1 = Len(es)
      /\ \A j \in 1 .. Len(es) : Document!DepthBefore(more, j) >= 0
      /\ Document!DepthBefore(more, x) = 0
  BY OneEventMore DEF DepthOf
<1> HIDE DEF more, x
<1>2. Document!Around(more, x) = {}
  BY <1>1 DEF Document!Around
<1>3. Document!Parent(more, x) = 0
  BY <1>2 DEF Document!Parent
<1>4. \A other : ~Document!Inside(more, x, other)
  BY <1>3 DEF Document!Inside
<1>. QED
  BY <1>3, <1>4 DEF more, x

(* Sequences that agree so far begin alike. *)
LEMMA SamePrefix ==
  ASSUME NEW s \in Seq(Event), NEW t \in Seq(Event), NEW i \in Nat,
         i <= Len(s), i <= Len(t), \A j \in 1 .. i : s[j] = t[j]
  PROVE  SubSeq(s, 1, i) = SubSeq(t, 1, i)
<1>1. Len(s) \in Nat /\ Len(t) \in Nat
  BY LenProperties
<1>. QED
  BY <1>1

(* What an event adds is a text, and the events after it do not change it. *)
LEMMA PieceIsText ==
  ASSUME NEW es \in Seq(Event), NEW i \in 1 .. Len(es)
  PROVE  Document!Piece(es, i) \in Seq(Token)
<1>1. es[i] \in Event
  BY ElementOfSeq
<1>2. Document!Spelling(es[i]) \in Seq(Token)
  <2>1. /\ es[i].kind \in {"array-start", "array-end", "object-start", "object-end",
                           "key", "scalar"}
        /\ es[i].kind = "key" => es[i].text \in Token
        /\ es[i].kind = "scalar" => es[i].text \in Token
    BY <1>1 DEF Event, Begins, Ends, Token
  <2>2. {"[", "]", "{", "}", ":"} \subseteq Token
    BY TokenTexts DEF Punctuation
  <2>. QED
    BY <2>1, <2>2, TokenTexts DEF Document!Spelling
<1>3. /\ (IF Document!Follows(es, i) THEN <<",">> ELSE << >>) \in Seq(Token)
      /\ (IF Document!Whole(SubSeq(es, 1, i)) THEN <<"\n">> ELSE << >>) \in Seq(Token)
  BY TokenTexts DEF Punctuation
<1>. QED
  BY <1>2, <1>3, TokenTexts DEF Document!Piece

LEMMA PieceStays ==
  ASSUME NEW es \in Seq(Event), NEW e \in Event, NEW i \in 1 .. Len(es)
  PROVE  Document!Piece(Append(es, e), i) = Document!Piece(es, i)
<1> DEFINE more == Append(es, e)
<1>1. /\ more \in Seq(Event) /\ Len(es) \in Nat /\ Len(more) = Len(es) + 1
      /\ \A j \in 1 .. Len(es) : /\ more[j] = es[j]
                                 /\ Document!DepthBefore(more, j) = Document!DepthBefore(es, j)
  BY OneEventMore
<1> HIDE DEF more
<1>2. \A j \in 1 .. i - 1 : j \in 1 .. Len(es)
  BY <1>1
<1>3. Document!Around(more, i) = Document!Around(es, i)
  BY <1>1, <1>2 DEF Document!Around
<1>4. Document!Parent(more, i) = Document!Parent(es, i)
  BY <1>3 DEF Document!Parent
<1>5. Document!Parent(es, i) = 0 \/ Document!Parent(es, i) \in 1 .. i - 1
  <2>1. ASSUME Document!Around(es, i) # {}
        PROVE  Document!Max(Document!Around(es, i)) \in Document!Around(es, i)
    <3> DEFINE T == Document!Around(es, i)
    <3>1. T \subseteq 1 .. i /\ i \in Nat /\ T # {}
      BY <1>1, <2>1 DEF Document!Around
    <3> HIDE DEF T
    <3>2. \E x \in T : \A y \in T : x >= y
      BY <3>1, GreatestExists
    <3>3. Document!Max(T) \in T
      BY <3>2 DEF Document!Max
    <3>. QED
      BY <3>3 DEF T
  <2>2. Document!Around(es, i) \subseteq 1 .. i - 1
    BY DEF Document!Around
  <2>. QED
    BY <2>1, <2>2 DEF Document!Parent
<1>6. Document!Earlier(more, i) = Document!Earlier(es, i)
  <2>1. \A j \in Document!Parent(es, i) + 1 .. i - 1 : j \in 1 .. Len(es)
    BY <1>1, <1>5
  <2>. QED
    BY <1>1, <1>4, <2>1 DEF Document!Earlier
<1>7. \A kind : Document!Inside(more, i, kind) <=> Document!Inside(es, i, kind)
  <2>1. Document!Parent(es, i) # 0 => more[Document!Parent(es, i)] = es[Document!Parent(es, i)]
    BY <1>1, <1>2, <1>5
  <2>. QED
    BY <1>4, <2>1 DEF Document!Inside
<1>8. Document!Follows(more, i) <=> Document!Follows(es, i)
  BY <1>1, <1>6, <1>7 DEF Document!Follows
<1>9. SubSeq(more, 1, i) = SubSeq(es, 1, i)
  BY <1>1, SamePrefix
<1>. QED
  BY <1>1, <1>8, <1>9 DEF Document!Piece, more

(* One event more is one piece more of text. *)
LEMMA TextMore ==
  ASSUME NEW es \in Seq(Event), NEW e \in Event
  PROVE  Document!TextOf(Append(es, e)) =
           Document!TextOf(es) \o Document!Piece(Append(es, e), Len(es) + 1)
<1> DEFINE more == Append(es, e)
           n == Len(es)
           ss == [i \in 1 .. n |-> Document!Piece(es, i)]
           tt == [i \in 1 .. Len(more) |-> Document!Piece(more, i)]
<1>1. n \in Nat /\ Len(more) = n + 1 /\ more \in Seq(Event)
  BY OneEventMore
<1>2. /\ \A i \in 1 .. n : Document!Piece(es, i) \in Seq(Token)
      /\ \A i \in 1 .. n : Document!Piece(more, i) = Document!Piece(es, i)
      /\ Document!Piece(more, n + 1) \in Seq(Token)
  <2>1. \A i \in 1 .. n : Document!Piece(es, i) \in Seq(Token)
    BY PieceIsText
  <2>2. \A i \in 1 .. n : Document!Piece(more, i) = Document!Piece(es, i)
    BY PieceStays
  <2> HIDE DEF more, n
  <2>3. n + 1 \in 1 .. Len(more)
    BY <1>1
  <2>4. Document!Piece(more, n + 1) \in Seq(Token)
    BY <1>1, <2>3, PieceIsText
  <2>. QED
    BY <2>1, <2>2, <2>4
<1> HIDE DEF more
<1>3. ss \in Seq(Seq(Token)) /\ Len(ss) = n
  BY <1>1, <1>2
<1>4. Len(tt) = n + 1 /\ \A i \in 1 .. n + 1 : tt[i] = Document!Piece(more, i)
  BY <1>1
<1>5. \A i \in 1 .. n : i \in 1 .. n + 1 /\ ss[i] = Document!Piece(es, i)
  BY <1>1
<1>6. Document!TextOf(more) = Document!FlattenSeq(tt) /\ Document!TextOf(es) = Document!FlattenSeq(ss)
  BY DEF Document!TextOf, n
<1> HIDE DEF ss, tt, n
<1>7. /\ Len(tt) = Len(ss) + 1 /\ \A i \in 1 .. Len(ss) : tt[i] = ss[i]
      /\ tt[Len(tt)] = Document!Piece(more, n + 1)
  BY <1>1, <1>2, <1>3, <1>4, <1>5
<1>8. Document!FlattenSeq(tt) = Document!FlattenSeq(ss) \o tt[Len(tt)]
  BY <1>2, <1>3, <1>7, FlattensOneMore
<1>. QED
  BY <1>6, <1>7, <1>8 DEF more, n

(* What is kept is the text so far when the event ends a record, and what  *)
(* was kept when it does not.                                              *)
LEMMA KeptMore ==
  ASSUME NEW es \in Seq(Event), NEW e \in Event
  PROVE  Document!KeptOf(Append(es, e)) =
           IF DepthOf(Append(es, e)) \in {0, 1} /\ e.kind # "key"
           THEN Document!TextOf(Append(es, e)) ELSE Document!KeptOf(es)
<1> DEFINE more == Append(es, e)
           n == Len(es)
           R == Document!RecordEnds(es)
           Q == Document!RecordEnds(more)
           ends == DepthOf(more) \in {0, 1} /\ e.kind # "key"
<1>1. /\ more \in Seq(Event) /\ n \in Nat /\ Len(more) = n + 1 /\ more[n + 1] = e
      /\ \A j \in 1 .. n : more[j] = es[j]
      /\ \A i \in 1 .. n + 1 : Document!DepthBefore(more, i) = Document!DepthBefore(es, i)
  BY OneEventMore
<1> HIDE DEF more, n
<1>2. Q = IF ends THEN R \cup {n + 1} ELSE R
  <2>1. Q = {i \in 1 .. n + 1 : /\ Document!DepthBefore(more, i + 1) \in {0, 1}
                                /\ more[i].kind # "key"}
    BY <1>1 DEF Document!RecordEnds
  <2>2. R = {i \in 1 .. n : Document!DepthBefore(es, i + 1) \in {0, 1} /\ es[i].kind # "key"}
    BY DEF Document!RecordEnds, n
  <2>3. \A i : i \in 1 .. n + 1 <=> i \in 1 .. n \/ i = n + 1
    BY <1>1
  <2>4. \A i \in 1 .. n : Document!DepthBefore(more, i + 1) = Document!DepthBefore(es, i + 1)
    BY <1>1
  <2>5. DepthOf(more) = Document!DepthBefore(more, (n + 1) + 1)
    BY <1>1 DEF DepthOf
  <2>6. n + 1 \notin 1 .. n
    BY <1>1
  <2>. QED
    BY <1>1, <2>1, <2>2, <2>3, <2>4, <2>5, <2>6
<1>3. R \in SUBSET (1 .. n)
  BY DEF Document!RecordEnds, n
<1> HIDE DEF R, Q, ends
<1>4. /\ Document!KeptOf(more) = Document!TextOf(SubSeq(more, 1, IF Q = {} THEN 0 ELSE Document!Max(Q)))
      /\ Document!KeptOf(es) = Document!TextOf(SubSeq(es, 1, IF R = {} THEN 0 ELSE Document!Max(R)))
  BY DEF Document!KeptOf, R, Q
<1>5. CASE ends
  <2>1. Q \in SUBSET Int /\ n + 1 \in Q /\ \A y \in Q : y <= n + 1
    BY <1>1, <1>2, <1>3, <1>5
  <2>2. Document!Max(Q) = n + 1
    BY <2>1, GreatestIsMax
  <2>3. SubSeq(more, 1, n + 1) = more
    BY <1>1
  <2>4. Q # {}
    BY <2>1
  <2>5. Document!KeptOf(more) = Document!TextOf(more)
    BY <1>4, <2>2, <2>3, <2>4
  <2>. QED
    BY <1>5, <2>5 DEF more, ends
<1>6. CASE ~ends
  <2> DEFINE last == IF R = {} THEN 0 ELSE Document!Max(R)
  <2>1. last \in Nat /\ last <= n
    <3>1. CASE R = {}
      BY <1>1, <3>1
    <3>2. CASE R # {}
      <4>1. \E x \in R : \A y \in R : x >= y
        BY <1>1, <1>3, <3>2, GreatestExists
      <4>2. Document!Max(R) \in R
        BY <4>1 DEF Document!Max
      <4>3. Document!Max(R) \in 1 .. n
        BY <1>3, <4>2
      <4>4. last = Document!Max(R)
        BY <3>2
      <4> HIDE DEF last
      <4>. QED
        BY <1>1, <4>3, <4>4
    <3>. QED
      BY <3>1, <3>2
  <2>5. Document!KeptOf(es) = Document!TextOf(SubSeq(es, 1, last))
    BY <1>4
  <2>6. Document!KeptOf(more) = Document!TextOf(SubSeq(more, 1, last))
    BY <1>2, <1>4, <1>6
  <2> HIDE DEF last
  <2>2. last <= Len(es) /\ last <= Len(more) /\ \A j \in 1 .. last : more[j] = es[j]
    BY <1>1, <2>1 DEF n
  <2>3. SubSeq(more, 1, last) = SubSeq(es, 1, last)
    BY <1>1, <2>1, <2>2, SamePrefix
  <2>4. Document!KeptOf(more) = Document!KeptOf(es)
    BY <2>3, <2>5, <2>6
  <2>. QED
    BY <1>6, <2>4 DEF more, ends
<1>. QED
  BY <1>5, <1>6

(* No events are no text. *)
LEMMA TextOfNone ==
  /\ DepthOf(<< >>) = 0 /\ << >> \in Seq(Event) /\ Len(<< >>) = 0
  /\ Document!TextOf(<< >>) = << >> /\ Document!KeptOf(<< >>) = << >>
<1>1. Len(<< >>) = 0 /\ << >> \in Seq(Event)
  BY EmptySeq
<1>2. DepthOf(<< >>) = 0
  BY <1>1, DepthChanges DEF DepthOf
<1>3. Document!TextOf(<< >>) = << >>
  <2> DEFINE ss == [i \in 1 .. Len(<< >>) |-> Document!Piece(<< >>, i)]
  <2>1. ss = << >>
    BY <1>1
  <2>2. Document!FlattenSeq(<< >>) = << >>
    BY <1>1 DEF Document!FlattenSeq
  <2>3. Document!TextOf(<< >>) = Document!FlattenSeq(ss)
    BY DEF Document!TextOf
  <2> HIDE DEF ss
  <2>. QED
    BY <2>1, <2>2, <2>3
<1>4. Document!KeptOf(<< >>) = << >>
  <2>1. Document!RecordEnds(<< >>) = {}
    BY <1>1 DEF Document!RecordEnds
  <2>2. SubSeq(<< >>, 1, 0) = << >>
    OBVIOUS
  <2>. QED
    BY <1>3, <2>1, <2>2 DEF Document!KeptOf
<1>. QED
  BY <1>1, <1>2, <1>3, <1>4

-------------------------------------------------------------------------------
(* The stack says of each container still open what the events say of it.  *)

(* The kind of the event that began the container under a marker. *)
KindOf(m) == IF m \in {"array-open", "array"} THEN "array-start" ELSE "object-start"

(* A container under this marker, at the top or suspended below it, holds  *)
(* that many keys and values.                                              *)
Stands(m, count, top) ==
  /\ count \in Nat
  /\ m \in {"array-open", "object-open"} <=> count = 0
  /\ m = "object" => count % 2 = 0
  /\ m = "member" => count % 2 = (IF top THEN 1 ELSE 0)

NeverBelowTheRoot(es) ==
  \A j \in 1 .. Len(es) + 1 : Document!DepthBefore(es, j) >= 0

(* What the events are to the stack s between two steps. *)
Nested(s, es) ==
  /\ NeverBelowTheRoot(es)
  /\ DepthOf(es) = IF Top(s) = "root-done" THEN 0 ELSE Len(s)
  /\ Len(s) = 0 <=> Len(es) = 0
  /\ Top(s) # "root-done" =>
       \A k \in 1 .. Len(s) :
         \E c : Holds(es, k, KindOf(s[k]), c) /\ Stands(s[k], c, k = Len(s))

(* What they are to containers that are all suspended inside a value. *)
Suspended(s, es) ==
  \A k \in 1 .. Len(s) :
    \E c : Holds(es, k, KindOf(s[k]), c) /\ Stands(s[k], c, FALSE)

(* The depth never goes below the root's. *)
LEMMA StaysAboveTheRoot ==
  ASSUME NEW es \in Seq(Event), NEW e \in Event,
         NeverBelowTheRoot(es), DepthOf(es) + Change(e) >= 0
  PROVE  NeverBelowTheRoot(Append(es, e))
<1> DEFINE more == Append(es, e)
           n == Len(es)
<1>1. /\ n \in Nat /\ Len(more) = n + 1
      /\ \A i \in 1 .. n + 1 : Document!DepthBefore(more, i) = Document!DepthBefore(es, i)
      /\ DepthOf(more) = DepthOf(es) + Change(e)
  BY OneEventMore
<1>2. \A i \in 1 .. n + 1 : Document!DepthBefore(es, i) >= 0
  BY DEF NeverBelowTheRoot
<1> HIDE DEF more, n
<1>3. Document!DepthBefore(more, (n + 1) + 1) >= 0
  BY <1>1 DEF DepthOf
<1>4. \A i \in 1 .. Len(more) + 1 : i \in 1 .. n + 1 \/ i = (n + 1) + 1
  BY <1>1
<1>5. NeverBelowTheRoot(more)
  BY <1>1, <1>2, <1>3, <1>4 DEF NeverBelowTheRoot
<1>. QED
  BY <1>5 DEF more

(* The next event is one a tree may hold exactly when the step takes it,   *)
(* and follows another exactly when the step writes a comma.               *)
LEMMA NextIsDue ==
  ASSUME NEW s \in Seq(Marker), NEW es \in Seq(Event), NEW e \in Event, Nested(s, es)
  PROVE  /\ Document!OfATree(Append(es, e), Len(es) + 1) <=> ~Rejects(s, e.kind)
         /\ ~Rejects(s, e.kind) =>
              (Document!Follows(Append(es, e), Len(es) + 1)
                 <=> \/ e.kind = "key" /\ Top(s) = "object"
                     \/ e.kind \in Begins \cup {"scalar"} /\ Top(s) = "array")
<1> DEFINE more == Append(es, e)
           x == Len(es) + 1
<1>1. more[x] = e /\ Len(es) \in Nat
  BY OneEventMore
<1>2. e.kind \in {"array-start", "object-start", "array-end", "object-end", "key", "scalar"}
  BY DEF Event, Begins, Ends
<1> DEFINE in(kind) == Document!Inside(more, x, kind)
<1>3. CASE Top(s) \in {"none", "root-done"}
  <2>1. DepthOf(es) = 0 /\ (Top(s) = "none" <=> x = 1)
    <3>1. Len(s) \in Nat /\ (Top(s) = "none" <=> Len(s) = 0)
      BY TopProperties DEF Marker
    <3>. QED
      BY <1>1, <1>3, <3>1 DEF Nested
  <2>2. \A j \in 1 .. Len(es) : Document!DepthBefore(es, j) >= 0
    BY <1>1 DEF Nested, NeverBelowTheRoot
  <2>3. Document!Parent(more, x) = 0 /\ \A other : ~in(other)
    BY <2>1, <2>2, NextIsOutside
  <2> HIDE DEF more, x
  <2>4. ~Document!KeyDue(more, x)
    BY <2>3 DEF Document!KeyDue
  <2>5. Document!OfATree(more, x) <=> e.kind \in Begins \cup {"scalar"} /\ x = 1
    BY <1>1, <1>2, <2>3, <2>4 DEF Document!OfATree, Begins
  <2>6. ~Rejects(s, e.kind) <=> e.kind \in Begins \cup {"scalar"} /\ Top(s) = "none"
    BY <1>2, <1>3 DEF Rejects, TakesValue, Begins
  <2>7. Document!Follows(more, x) => e.kind = "key"
    BY <1>1, <2>3 DEF Document!Follows
  <2>8. ~Rejects(s, e.kind) => e.kind # "key"
    BY <2>6 DEF Begins
  <2>. QED
    BY <1>3, <2>1, <2>5, <2>6, <2>7, <2>8 DEF more, x
<1>4. CASE Top(s) \notin {"none", "root-done"}
  <2>1. /\ Len(s) \in Nat /\ Len(s) > 0 /\ Top(s) = s[Len(s)]
        /\ Top(s) \in {"array-open", "array", "object-open", "object", "member"}
    BY <1>4, TopProperties DEF Marker
  <2>2. Len(s) \in 1 .. Len(s) /\ DepthOf(es) = Len(s)
    BY <1>4, <2>1 DEF Nested
  <2>3. PICK c : Holds(es, DepthOf(es), KindOf(Top(s)), c) /\ Stands(Top(s), c, TRUE)
    BY <1>4, <2>1, <2>2 DEF Nested
  <2>4. /\ Document!Parent(more, x) # 0
        /\ \A other : in(other) <=> KindOf(Top(s)) = other
        /\ Document!Cardinality(Document!Earlier(more, x)) = c
        /\ Document!Earlier(more, x) = {} <=> c = 0
    BY <2>3, NextIsInside
  <2> HIDE DEF more, x
  <2>5. Document!KeyDue(more, x) <=> Top(s) \in {"object-open", "object"}
    <3>1. Document!KeyDue(more, x) <=> KindOf(Top(s)) = "object-start" /\ c % 2 = 0
      BY <2>4 DEF Document!KeyDue
    <3>2. Top(s) = "object-open" => c % 2 = 0
      BY <2>3 DEF Stands
    <3>. QED
      BY <2>1, <2>3, <3>1, <3>2 DEF Stands, KindOf
  <2>6. Document!OfATree(more, x) <=>
          CASE e.kind = "key"        -> Top(s) \in {"object-open", "object"}
            [] e.kind = "object-end" -> Top(s) \in {"object-open", "object"}
            [] e.kind = "array-end"  -> Top(s) \in {"array-open", "array"}
            [] OTHER -> Top(s) \notin {"object-open", "object"}
    <3>1. in("array-start") <=> Top(s) \in {"array-open", "array"}
      BY <2>1, <2>4 DEF KindOf
    <3>. QED
      BY <1>1, <1>2, <2>4, <2>5, <3>1 DEF Document!OfATree
  <2>7. Document!OfATree(more, x) <=> ~Rejects(s, e.kind)
    BY <1>2, <2>1, <2>6 DEF Rejects, TakesValue, Begins
  <2>8. Document!Follows(more, x) <=>
          e.kind \notin Ends /\ c # 0 /\ (e.kind = "key" \/ Top(s) \in {"array-open", "array"})
    <3>1. in("array-start") <=> Top(s) \in {"array-open", "array"}
      BY <2>1, <2>4 DEF KindOf
    <3>. QED
      BY <1>1, <2>4, <3>1, SameWords DEF Document!Follows
  <2>9. c # 0 <=> Top(s) \notin {"array-open", "object-open"}
    BY <2>3 DEF Stands
  <2>. QED
    BY <1>2, <2>1, <2>7, <2>8, <2>9 DEF Rejects, TakesValue, Begins, Ends, more, x
<1>. QED
  BY <1>3, <1>4

(* The piece a step adds. *)
LEMMA PieceOfAStep ==
  ASSUME NEW s \in Seq(Marker), NEW es \in Seq(Event), NEW e \in Event, Nested(s, es),
         ~Rejects(s, e.kind)
  PROVE  Document!Piece(Append(es, e), Len(es) + 1) =
           (IF \/ e.kind = "key" /\ Top(s) = "object"
               \/ e.kind \in Begins \cup {"scalar"} /\ Top(s) = "array"
            THEN <<",">> ELSE << >>)
             \o Document!Spelling(e)
             \o (IF DepthOf(es) + Change(e) = 0 THEN <<"\n">> ELSE << >>)
<1> DEFINE more == Append(es, e)
           x == Len(es) + 1
<1>1. /\ more \in Seq(Event) /\ Len(es) \in Nat /\ Len(more) = x /\ more[x] = e
      /\ DepthOf(more) = DepthOf(es) + Change(e)
  BY OneEventMore
<1>2. Document!Follows(more, x)
        <=> \/ e.kind = "key" /\ Top(s) = "object"
            \/ e.kind \in Begins \cup {"scalar"} /\ Top(s) = "array"
  BY NextIsDue
<1> HIDE DEF more
<1>3. SubSeq(more, 1, x) = more
  BY <1>1
<1>4. Document!Whole(more) <=> DepthOf(more) = 0
  BY <1>1 DEF Document!Whole, DepthOf
<1>5. Document!Piece(more, x) =
           (IF Document!Follows(more, x) THEN <<",">> ELSE << >>)
             \o Document!Spelling(e)
             \o (IF DepthOf(es) + Change(e) = 0 THEN <<"\n">> ELSE << >>)
  BY <1>1, <1>3, <1>4 DEF Document!Piece
<1>. QED
  BY <1>2, <1>5 DEF more

(* Below the top, a step changes nothing. *)
LEMMA BelowTheTop ==
  ASSUME NEW s \in Seq(Marker), NEW es \in Seq(Event), NEW e \in Event, Nested(s, es),
         Top(s) # "root-done", NEW k \in 1 .. Len(s) - 1
  PROVE  \E c : Holds(Append(es, e), k, KindOf(s[k]), c) /\ Stands(s[k], c, FALSE)
<1>1. Len(s) \in Nat /\ k \in Int /\ k \in 1 .. Len(s) /\ k # Len(s) /\ k <= Len(s)
  BY LenProperties
<1>2. DepthOf(es) = Len(s)
  BY DEF Nested
<1>3. PICK c : Holds(es, k, KindOf(s[k]), c) /\ Stands(s[k], c, FALSE)
  BY <1>1 DEF Nested
<1>4. Holds(Append(es, e), k, KindOf(s[k]), c)
  BY <1>1, <1>2, <1>3, HoldsStill
<1>. QED
  BY <1>3, <1>4

(* A value begun leaves every container around it suspended inside it. *)
LEMMA ValueSuspends ==
  ASSUME stack \in Seq(Marker), StackShape, TakesValue(stack),
         NEW es \in Seq(Event), Nested(stack, es),
         NEW e \in Event, e.kind \in Begins \cup {"scalar"}
  PROVE  Suspended(Opened(stack), Append(es, e))
<1> DEFINE o == Opened(stack)
           more == Append(es, e)
<1>1. /\ o \in Seq(Marker) /\ Len(o) = Len(stack) /\ Len(stack) \in Nat
      /\ \A i \in 1 .. Len(stack) : o[i] \in {"array", "member"}
  BY OpenedProperties, LenProperties
<1>2. /\ \A i \in 1 .. Len(stack) - 1 : o[i] = stack[i]
      /\ Len(stack) > 0 => o[Len(stack)] = IF Top(stack) = "array-open" THEN "array"
                                                                       ELSE Top(stack)
  <2>1. CASE Top(stack) = "array-open"
    BY <2>1, TopProperties, MarkProperties DEF Opened, Marker
  <2>2. CASE Top(stack) # "array-open"
    BY <2>2, TopProperties DEF Opened
  <2>. QED
    BY <2>1, <2>2
<1>3. Top(stack) # "root-done" /\ DepthOf(es) = Len(stack) /\ e.kind \notin Ends
  BY DEF TakesValue, Nested, Begins, Ends
<1> SUFFICES ASSUME NEW k \in 1 .. Len(o)
             PROVE  \E c : Holds(more, k, KindOf(o[k]), c) /\ Stands(o[k], c, FALSE)
  BY DEF Suspended
<1>4. CASE k < Len(stack)
  <2>1. k \in 1 .. Len(stack) - 1
    BY <1>1, <1>4
  <2>2. \E c : Holds(more, k, KindOf(stack[k]), c) /\ Stands(stack[k], c, FALSE)
    BY <1>3, <2>1, BelowTheTop
  <2>. QED
    BY <1>2, <2>1, <2>2
<1>5. CASE k = Len(stack)
  <2>1. k \in 1 .. Len(stack) /\ Top(stack) = stack[k] /\ Len(stack) > 0
    BY <1>1, <1>5, TopProperties
  <2>2. PICK c : Holds(es, k, KindOf(stack[k]), c) /\ Stands(stack[k], c, TRUE)
    BY <1>3, <1>5, <2>1 DEF Nested
  <2>3. Holds(more, k, KindOf(stack[k]), c + 1)
    BY <1>3, <1>5, <2>2, HoldsMore
  <2>4. o[k] = (IF stack[k] = "array-open" THEN "array" ELSE stack[k])
        /\ o[k] \in {"array", "member"}
    BY <1>1, <1>2, <1>5, <2>1
  <2> HIDE DEF o, more
  <2>5. KindOf(o[k]) = KindOf(stack[k])
    BY <2>4 DEF KindOf
  <2>6. c \in Nat /\ (stack[k] = "member" => c % 2 = 1)
    BY <2>2 DEF Stands
  <2>7. c + 1 \in Nat /\ c + 1 # 0 /\ (c % 2 = 1 => (c + 1) % 2 = 0)
    BY <2>6
  <2>8. Stands(o[k], c + 1, FALSE)
    BY <2>4, <2>6, <2>7 DEF Stands
  <2>. QED
    BY <2>3, <2>5, <2>8
<1>6. k < Len(stack) \/ k = Len(stack)
  <2>1. k \in 1 .. Len(stack)
    BY <1>1
  <2>. QED
    BY ONLY <1>1, <2>1
<1>. QED
  BY <1>4, <1>5, <1>6

(* A container that ends leaves those around it suspended. *)
LEMMA EndSuspends ==
  ASSUME stack \in Seq(Marker), StackShape, Len(stack) > 0, Top(stack) # "root-done",
         NEW es \in Seq(Event), Nested(stack, es), NEW e \in Event
  PROVE  Suspended(Pop(stack), Append(es, e))
<1>1. /\ Len(stack) \in Nat /\ Len(Pop(stack)) = Len(stack) - 1
      /\ \A i \in 1 .. Len(stack) - 1 : Pop(stack)[i] = stack[i]
  BY PopProperties, LenProperties
<1> SUFFICES ASSUME NEW k \in 1 .. Len(Pop(stack))
             PROVE  \E c : /\ Holds(Append(es, e), k, KindOf(Pop(stack)[k]), c)
                           /\ Stands(Pop(stack)[k], c, FALSE)
  BY DEF Suspended
<1>2. k \in 1 .. Len(stack) - 1
  BY <1>1
<1>3. \E c : Holds(Append(es, e), k, KindOf(stack[k]), c) /\ Stands(stack[k], c, FALSE)
  BY <1>2, BelowTheTop
<1>. QED
  BY <1>1, <1>2, <1>3

(* A value completed. *)
LEMMA DoneNests ==
  ASSUME NEW s \in Seq(Marker), \A i \in 1 .. Len(s) : s[i] \in {"array", "member"},
         NEW es \in Seq(Event), Suspended(s, es), NeverBelowTheRoot(es),
         DepthOf(es) = Len(s), Len(es) > 0
  PROVE  Nested(Done(s), es)
<1> DEFINE d == Done(s)
<1>0. Len(s) \in Nat
  BY LenProperties
<1>1. CASE Len(s) = 0
  <2>1. Done(s) = <<"root-done">> /\ Len(<<"root-done">>) = 1 /\ Top(<<"root-done">>) = "root-done"
    BY <1>1 DEF Done, Top
  <2>. QED
    BY <1>1, <2>1 DEF Nested
<1>2. CASE Len(s) > 0
  <2>1. /\ d \in Seq(Marker) /\ Len(d) = Len(s)
        /\ \A i \in 1 .. Len(s) - 1 : d[i] = s[i]
        /\ d[Len(s)] = IF s[Len(s)] = "member" THEN "object" ELSE s[Len(s)]
    <3>1. CASE Top(s) = "member"
      <4>1. /\ Mark("object", s) \in Seq(Marker) /\ Len(Mark("object", s)) = Len(s)
            /\ Mark("object", s)[Len(s)] = "object"
            /\ \A i \in 1 .. Len(s) - 1 : Mark("object", s)[i] = s[i]
        BY <1>2, MarkProperties DEF Marker
      <4>2. Done(s) = Mark("object", s) /\ s[Len(s)] = "member"
        BY <1>2, <3>1 DEF Done, Top
      <4>. QED
        BY <4>1, <4>2
    <3>2. CASE Top(s) # "member"
      BY <1>2, <3>2 DEF Done, Top
    <3>. QED
      BY <3>1, <3>2
  <2> HIDE DEF d
  <2>2. Len(s) \in 1 .. Len(s) /\ s[Len(s)] \in {"array", "member"}
    BY <1>0, <1>2
  <2>3. Top(d) # "root-done"
    BY <1>2, <2>1, <2>2 DEF Top
  <2>4. ASSUME NEW k \in 1 .. Len(d)
        PROVE  \E c : Holds(es, k, KindOf(d[k]), c) /\ Stands(d[k], c, k = Len(d))
    <3>1. PICK c : Holds(es, k, KindOf(s[k]), c) /\ Stands(s[k], c, FALSE)
      BY <2>1 DEF Suspended
    <3>2. s[k] \in {"array", "member"}
      BY <2>1
    <3>3. CASE k # Len(s)
      <4>1. k \in 1 .. Len(s) - 1
        BY <1>0, <2>1, <3>3
      <4>. QED
        BY <2>1, <3>1, <3>3, <4>1
    <3>4. CASE k = Len(s)
      <4>1. d[k] = IF s[k] = "member" THEN "object" ELSE s[k]
        BY <2>1, <3>4
      <4>2. KindOf(d[k]) = KindOf(s[k])
        BY <3>2, <4>1 DEF KindOf
      <4>3. Stands(d[k], c, TRUE)
        BY <3>1, <3>2, <4>1 DEF Stands
      <4>. QED
        BY <2>1, <3>1, <3>4, <4>2, <4>3
    <3>. QED
      BY <3>3, <3>4
  <2>5. Nested(d, es)
    BY <1>2, <2>1, <2>3, <2>4 DEF Nested
  <2>. QED
    BY <2>5 DEF d
<1>. QED
  BY <1>0, <1>1, <1>2

(* A container begun inside them. *)
LEMMA BegunNests ==
  ASSUME NEW s \in Seq(Marker), NEW es \in Seq(Event), Suspended(s, es),
         NEW m \in {"array-open", "object-open"},
         NeverBelowTheRoot(es), DepthOf(es) = Len(s) + 1, Len(es) > 0,
         Holds(es, Len(s) + 1, KindOf(m), 0)
  PROVE  Nested(Append(s, m), es)
<1> DEFINE d == Append(s, m)
           n == Len(s) + 1
<1>1. /\ d \in Seq(Marker) /\ Len(s) \in Nat /\ Len(d) = n /\ d[n] = m
      /\ \A i \in 1 .. Len(s) : d[i] = s[i]
  BY AppendProperties, LenProperties DEF Marker
<1> HIDE DEF d
<1>2. Top(d) = m
  BY <1>1, TopProperties
<1>3. ASSUME NEW k \in 1 .. Len(d)
      PROVE  \E c : Holds(es, k, KindOf(d[k]), c) /\ Stands(d[k], c, k = Len(d))
  <2>1. CASE k = n
    <3>1. Stands(m, 0, TRUE)
      BY DEF Stands
    <3>. QED
      BY <1>1, <2>1, <3>1
  <2>2. CASE k # n
    <3>1. k \in 1 .. Len(s)
      BY <1>1, <2>2
    <3>2. PICK c : Holds(es, k, KindOf(s[k]), c) /\ Stands(s[k], c, FALSE)
      BY <3>1 DEF Suspended
    <3>. QED
      BY <1>1, <2>2, <3>1, <3>2
  <2>. QED
    BY <2>1, <2>2
<1>4. Nested(d, es)
  BY <1>1, <1>2, <1>3 DEF Nested
<1>. QED
  BY <1>4 DEF d

(* A key begins a member of the object at the top. *)
LEMMA MemberNests ==
  ASSUME NEW s \in Seq(Marker), NEW es \in Seq(Event), Nested(s, es),
         NEW e \in Event, e.kind = "key", Top(s) \in {"object-open", "object"}
  PROVE  Nested(Mark("member", s), Append(es, e))
<1> DEFINE d == Mark("member", s)
           more == Append(es, e)
<1>1. Len(s) \in Nat /\ Len(s) > 0 /\ Top(s) = s[Len(s)]
  BY TopProperties
<1>2. /\ d \in Seq(Marker) /\ Len(d) = Len(s) /\ d[Len(s)] = "member"
      /\ \A i \in 1 .. Len(s) - 1 : d[i] = s[i]
  BY <1>1, MarkProperties DEF Marker
<1>3. /\ DepthOf(es) = Len(s) /\ NeverBelowTheRoot(es) /\ Top(s) # "root-done"
      /\ Change(e) = 0 /\ e.kind \notin Ends
  BY DEF Nested, Change, Begins, Ends
<1>4. DepthOf(more) = Len(s) /\ Len(more) > 0
  BY <1>1, <1>3, OneEventMore
<1>5. NeverBelowTheRoot(more)
  BY <1>1, <1>3, StaysAboveTheRoot
<1>6. ASSUME NEW k \in 1 .. Len(d)
      PROVE  \E c : Holds(more, k, KindOf(d[k]), c) /\ Stands(d[k], c, k = Len(d))
  <2>1. CASE k # Len(s)
    <3>1. k \in 1 .. Len(s) - 1
      BY <1>1, <1>2, <2>1
    <3>2. \E c : Holds(more, k, KindOf(s[k]), c) /\ Stands(s[k], c, FALSE)
      BY <1>3, <3>1, BelowTheTop
    <3>. QED
      BY <1>2, <2>1, <3>1, <3>2
  <2>2. CASE k = Len(s)
    <3>1. k \in 1 .. Len(s)
      BY <1>2
    <3>2. PICK c : Holds(es, k, KindOf(s[k]), c) /\ Stands(s[k], c, TRUE)
      BY <1>3, <2>2, <3>1 DEF Nested
    <3>3. Holds(more, k, KindOf(s[k]), c + 1)
      BY <1>3, <2>2, <3>2, HoldsMore
    <3> HIDE DEF d, more
    <3>4. d[k] = "member" /\ s[k] \in {"object-open", "object"}
      BY <1>1, <1>2, <2>2
    <3>5. KindOf(d[k]) = KindOf(s[k])
      BY <3>4 DEF KindOf
    <3>6. c \in Nat /\ c % 2 = 0
      BY <3>2, <3>4 DEF Stands
    <3>7. c + 1 \in Nat /\ c + 1 # 0 /\ (c + 1) % 2 = 1
      BY <3>6
    <3>8. Stands(d[k], c + 1, TRUE)
      BY <3>4, <3>7 DEF Stands
    <3>. QED
      BY <1>2, <2>2, <3>3, <3>5, <3>8
  <2>. QED
    BY <2>1, <2>2
<1> HIDE DEF d, more
<1>7. Top(d) = "member"
  BY <1>1, <1>2, TopProperties
<1>8. Nested(d, more)
  BY <1>1, <1>2, <1>4, <1>5, <1>6, <1>7 DEF Nested
<1>. QED
  BY <1>8 DEF d, more

-------------------------------------------------------------------------------
(* Every step is the promised one.                                         *)

(* What the stack and the texts are to the events taken, while a run runs. *)
AsPromised ==
  /\ Nested(stack, seen)
  /\ Document!TextOf(seen) = written \o held
  /\ Document!KeptOf(seen) = written

(* The inductive invariant of the refinement. *)
TInv == IInv /\ (outcome = "running" => AsPromised)

(* The step of the promise that takes an event. *)
Promised(e) ==
  /\ Document!OfATree(Append(seen, e), Len(seen) + 1)
  /\ seen' = Append(seen, e)
  /\ written' \o held' = Document!TextOf(Append(seen, e))
  /\ written' = Document!KeptOf(Append(seen, e))
  /\ Nested(stack', Append(seen, e))

(* A step whose outputs are the event's piece, and end a record when the   *)
(* event does.                                                             *)
LEMMA StepWrites ==
  ASSUME TypeOK, AsPromised, NEW s \in Seq(Marker), NEW outputs \in Seq(Token),
         NEW kind, NEW text, NEW e \in Event, e = [kind |-> kind, text |-> text],
         Transition(s, Ended(s, outputs), kind, text), ~Rejects(stack, kind),
         Document!Piece(Append(seen, e), Len(seen) + 1) = outputs,
         Len(s) = 1 <=> DepthOf(Append(seen, e)) \in {0, 1}, kind # "key",
         Nested(s, Append(seen, e))
  PROVE  Promised(e)
<1> DEFINE more == Append(seen, e)
<1>1. /\ stack \in Seq(Marker) /\ seen \in Seq(Event) /\ Len(s) \in Nat
      /\ written \in Seq(Token) /\ held \in Seq(Token)
  BY LenProperties DEF TypeOK
<1>2. stack' = s /\ WriteOut(Ended(s, outputs)) /\ seen' = more
  BY DEF Transition
<1>3. /\ written' \in Seq(Token)
      /\ Len(s) = 1 => held' = << >> /\ written' = (written \o held) \o outputs
      /\ Len(s) # 1 => written' = written /\ held' = held \o outputs
  BY <1>1, <1>2, EndedWritesOut
<1>4. written' \o held' = (written \o held) \o outputs
  <2>1. Len(s) = 1 => written' \o held' = written'
    BY <1>3, Tokenwise
  <2>2. written \in Seq(Token) /\ held \in Seq(Token) /\ outputs \in Seq(Token)
    BY <1>1
  <2>3. written \o (held \o outputs) = (written \o held) \o outputs
    BY ONLY <2>2, Tokenwise
  <2>. QED
    BY <1>3, <2>1, <2>3
<1>5. Document!TextOf(more) = (written \o held) \o outputs
  BY <1>1, TextMore DEF AsPromised
<1>6. Document!KeptOf(more) = IF Len(s) = 1 THEN Document!TextOf(more) ELSE written
  <2>1. e.kind # "key"
    OBVIOUS
  <2>. QED
    BY <1>1, <2>1, KeptMore DEF AsPromised
<1>7. Document!OfATree(more, Len(seen) + 1)
  <2>1. e.kind = kind
    OBVIOUS
  <2>. QED
    BY <1>1, <2>1, NextIsDue DEF AsPromised
<1> HIDE DEF more
<1>8. written' = Document!KeptOf(more)
  BY <1>3, <1>5, <1>6
<1>. QED
  BY <1>2, <1>4, <1>5, <1>7, <1>8 DEF Promised, more

(* A container begun. *)
LEMMA BeginIsPromised ==
  ASSUME IInv, AsPromised, NEW kind, NEW marker, NEW bracket,
         \/ kind = "array-start" /\ marker = "array-open" /\ bracket = "["
         \/ kind = "object-start" /\ marker = "object-open" /\ bracket = "{",
         Begin(kind, marker, bracket)
  PROVE  \E e \in Event : Promised(e)
<1> DEFINE o == Opened(stack)
           s == Append(o, marker)
           outputs == Lead(stack) \o <<bracket>>
           e == [kind |-> kind, text |-> ""]
           more == Append(seen, e)
<1>1. /\ stack \in Seq(Marker) /\ StackShape /\ seen \in Seq(Event) /\ TypeOK
      /\ TakesValue(stack) /\ Transition(s, Ended(s, outputs), kind, "")
      /\ Nested(stack, seen)
  BY DEF IInv, TypeOK, Begin, AsPromised
<1>2. /\ o \in Seq(Marker) /\ Len(o) = Len(stack) /\ Len(stack) \in Nat
      /\ s \in Seq(Marker) /\ Len(s) = Len(stack) + 1
  <2>1. marker \in Marker
    BY DEF Marker
  <2>2. o \in Seq(Marker) /\ Len(o) = Len(stack) /\ Len(stack) \in Nat
    BY <1>1, OpenedProperties, LenProperties
  <2> HIDE DEF o
  <2>. QED
    BY ONLY <2>1, <2>2, AppendProperties
<1>3. /\ e \in Event /\ e.kind = kind /\ kind \in Begins
      /\ Change(e) = 1 /\ e.kind \notin Ends
  BY DEF Event, Begins, Ends, Change
<1>4. /\ DepthOf(seen) = Len(stack) /\ NeverBelowTheRoot(seen)
  BY <1>1 DEF Nested, TakesValue
<1> HIDE DEF o, more
<1>5. /\ DepthOf(more) = Len(stack) + 1 /\ Len(more) = Len(seen) + 1 /\ Len(seen) \in Nat
      /\ more \in Seq(Event)
  <2> HIDE DEF e
  <2>1. /\ DepthOf(more) = DepthOf(seen) + Change(e) /\ Len(more) = Len(seen) + 1
        /\ Len(seen) \in Nat /\ more \in Seq(Event)
    BY ONLY <1>1, <1>3, OneEventMore DEF more
  <2>. QED
    BY ONLY <1>3, <1>4, <2>1
<1>6. NeverBelowTheRoot(more)
  <2> HIDE DEF e
  <2>1. DepthOf(seen) + Change(e) >= 0
    BY ONLY <1>2, <1>3, <1>4
  <2>. QED
    BY ONLY <1>1, <1>3, <1>4, <2>1, StaysAboveTheRoot DEF more
<1>7. Suspended(o, more)
  BY <1>1, <1>3, ValueSuspends DEF o, more
<1>8. Holds(more, Len(o) + 1, KindOf(marker), 0)
  <2>1. KindOf(marker) = e.kind
    BY DEF KindOf
  <2>2. Holds(more, DepthOf(seen) + 1, e.kind, 0)
    BY <1>1, <1>3, HoldsNone DEF more
  <2>. QED
    BY <1>2, <1>4, <2>1, <2>2
<1>9. Nested(s, more)
  <2>1. Len(more) > 0 /\ DepthOf(more) = Len(o) + 1
    BY ONLY <1>2, <1>5
  <2>. QED
    BY <1>2, <1>5, <1>6, <1>7, <1>8, <2>1, BegunNests
<1>10. ~Rejects(stack, e.kind)
  BY <1>1, <1>3 DEF Rejects, Begins
<1>11. bracket \in Token /\ outputs \in Seq(Token) /\ <<bracket>> \in Seq(Token)
  BY TokenTexts, LeadAndTail DEF Punctuation
<1>12. Document!Piece(more, Len(seen) + 1) = outputs
  <2>1. Document!Piece(more, Len(seen) + 1) =
           (IF \/ e.kind = "key" /\ Top(stack) = "object"
               \/ e.kind \in Begins \cup {"scalar"} /\ Top(stack) = "array"
            THEN <<",">> ELSE << >>)
             \o Document!Spelling(e)
             \o (IF DepthOf(seen) + Change(e) = 0 THEN <<"\n">> ELSE << >>)
    BY <1>1, <1>3, <1>10, PieceOfAStep DEF more
  <2>2. Document!Spelling(e) = <<bracket>>
    BY DEF Document!Spelling
  <2>3. DepthOf(seen) + Change(e) # 0
    <3> HIDE DEF e
    <3>. QED
      BY ONLY <1>2, <1>3, <1>4
  <2>4. Lead(stack) = IF \/ e.kind = "key" /\ Top(stack) = "object"
                         \/ e.kind \in Begins \cup {"scalar"} /\ Top(stack) = "array"
                      THEN <<",">> ELSE << >>
    BY <1>3 DEF Lead, Begins
  <2>5. outputs \o << >> = outputs
    BY <1>11, Tokenwise
  <2>. QED
    BY <2>1, <2>2, <2>3, <2>4, <2>5
<1>13. kind # "key" /\ (Len(s) = 1 <=> DepthOf(more) \in {0, 1})
  <2>1. Len(s) = 1 <=> DepthOf(more) \in {0, 1}
    BY ONLY <1>2, <1>5
  <2>. QED
    BY <2>1
<1> HIDE DEF s, outputs
<1>14. Promised(e)
  BY <1>1, <1>2, <1>3, <1>9, <1>10, <1>11, <1>12, <1>13, StepWrites DEF more
<1>. QED
  BY <1>3, <1>14

(* A scalar written. *)
LEMMA ScalarIsPromised ==
  ASSUME IInv, AsPromised, NEW value \in Scalars, Scalar(value)
  PROVE  \E e \in Event : Promised(e)
<1> DEFINE o == Opened(stack)
           s == Done(o)
           outputs == Lead(stack) \o <<value>> \o Tail5(stack)
           e == [kind |-> "scalar", text |-> value]
           more == Append(seen, e)
<1>1. /\ stack \in Seq(Marker) /\ StackShape /\ seen \in Seq(Event) /\ TypeOK
      /\ TakesValue(stack) /\ Transition(s, Ended(s, outputs), "scalar", value)
      /\ Nested(stack, seen)
  BY DEF IInv, TypeOK, Scalar, AsPromised
<1>2. /\ o \in Seq(Marker) /\ Len(o) = Len(stack) /\ Len(stack) \in Nat
      /\ \A i \in 1 .. Len(o) : o[i] \in {"array", "member"}
  BY <1>1, OpenedProperties, LenProperties
<1>3. /\ e \in Event /\ e.kind = "scalar"
      /\ Change(e) = 0 /\ e.kind \notin Ends
  BY DEF Event, Begins, Ends, Change
<1>4. /\ DepthOf(seen) = Len(stack) /\ NeverBelowTheRoot(seen)
  BY <1>1 DEF Nested, TakesValue
<1>5. Suspended(o, more)
  BY <1>1, <1>3, ValueSuspends
<1> HIDE DEF o
<1>6. /\ DepthOf(more) = Len(stack) /\ Len(more) = Len(seen) + 1 /\ Len(seen) \in Nat
      /\ more \in Seq(Event)
  BY <1>1, <1>2, <1>3, <1>4, OneEventMore
<1>7. NeverBelowTheRoot(more)
  BY <1>1, <1>2, <1>3, <1>4, StaysAboveTheRoot
<1>8. s \in Seq(Marker) /\ Len(s) = IF Len(stack) = 0 THEN 1 ELSE Len(stack)
  <2>1. /\ \A i \in 1 .. Len(o) - 1 : o[i] \in {"array", "member"}
        /\ Len(o) > 0 => o[Len(o)] # "root-done"
    BY <1>2
  <2>. QED
    BY <1>2, <2>1, DoneProperties
<1>9. Nested(s, more)
  <2>1. Len(more) > 0 /\ DepthOf(more) = Len(o)
    BY <1>2, <1>6
  <2> HIDE DEF more
  <2>. QED
    BY <1>2, <1>5, <1>6, <1>7, <2>1, DoneNests
<1>10. ~Rejects(stack, e.kind)
  BY <1>1, <1>3 DEF Rejects, Begins
<1>11. /\ value \in Token /\ outputs \in Seq(Token)
  BY TokenTexts, LeadAndTail DEF Token
<1>12. Document!Piece(more, Len(seen) + 1) = outputs
  <2>1. Document!Piece(more, Len(seen) + 1) =
           (IF \/ e.kind = "key" /\ Top(stack) = "object"
               \/ e.kind \in Begins \cup {"scalar"} /\ Top(stack) = "array"
            THEN <<",">> ELSE << >>)
             \o Document!Spelling(e)
             \o (IF DepthOf(seen) + Change(e) = 0 THEN <<"\n">> ELSE << >>)
    BY <1>1, <1>3, <1>10, PieceOfAStep
  <2>2. Document!Spelling(e) = <<value>>
    BY DEF Document!Spelling
  <2>3. Tail5(stack) = IF DepthOf(seen) + Change(e) = 0 THEN <<"\n">> ELSE << >>
    BY <1>2, <1>3, <1>4 DEF Tail5
  <2>4. Lead(stack) = IF \/ e.kind = "key" /\ Top(stack) = "object"
                         \/ e.kind \in Begins \cup {"scalar"} /\ Top(stack) = "array"
                      THEN <<",">> ELSE << >>
    BY <1>3 DEF Lead
  <2>. QED
    BY <2>1, <2>2, <2>3, <2>4
<1>13. Len(s) = 1 <=> DepthOf(more) \in {0, 1}
  BY <1>2, <1>6, <1>8
<1>14. ~Rejects(stack, "scalar") /\ e = [kind |-> "scalar", text |-> value]
  BY <1>3, <1>10
<1> HIDE DEF s, outputs, e
<1>15. Promised(e)
  BY <1>1, <1>3, <1>8, <1>9, <1>11, <1>12, <1>13, <1>14, StepWrites
<1>. QED
  BY <1>3, <1>15

(* A container ended. *)
LEMMA CloseIsPromised ==
  ASSUME IInv, AsPromised, NEW kind, NEW markers, NEW bracket,
         \/ kind = "array-end" /\ markers = {"array-open", "array"} /\ bracket = "]"
         \/ kind = "object-end" /\ markers = {"object-open", "object"} /\ bracket = "}",
         Close(kind, markers, bracket)
  PROVE  \E e \in Event : Promised(e)
<1> DEFINE p == Pop(stack)
           s == Done(p)
           outputs == <<bracket>> \o Tail5(p)
           e == [kind |-> kind, text |-> ""]
           more == Append(seen, e)
<1>1. /\ stack \in Seq(Marker) /\ StackShape /\ seen \in Seq(Event) /\ TypeOK
      /\ Top(stack) \in markers /\ Transition(s, Ended(s, outputs), kind, "")
      /\ Nested(stack, seen)
  BY DEF IInv, TypeOK, Close, AsPromised
<1>2. /\ Len(stack) > 0 /\ Len(stack) \in Nat /\ Top(stack) # "root-done"
      /\ Top(stack) # "none"
  BY <1>1, TopProperties
<1>3. /\ p \in Seq(Marker) /\ Len(p) = Len(stack) - 1 /\ Len(p) \in Nat
      /\ \A i \in 1 .. Len(p) : p[i] \in {"array", "member"}
  <2>1. /\ p \in Seq(Marker) /\ Len(p) = Len(stack) - 1
        /\ \A i \in 1 .. Len(stack) - 1 : p[i] = stack[i]
    BY ONLY <1>1, <1>2, PopProperties
  <2>2. \A i \in 1 .. Len(stack) - 1 : stack[i] \in {"array", "member"}
    BY ONLY <1>1 DEF StackShape
  <2> HIDE DEF p
  <2>. QED
    BY ONLY <1>2, <2>1, <2>2
<1>4. /\ e \in Event /\ e.kind = kind /\ kind \in Ends
      /\ Change(e) = -1
  BY DEF Event, Begins, Ends, Change
<1>5. DepthOf(seen) = Len(stack) /\ NeverBelowTheRoot(seen)
  BY <1>1, <1>2 DEF Nested
<1>6. Suspended(p, more)
  BY <1>1, <1>2, <1>4, EndSuspends DEF more
<1> HIDE DEF p, more
<1>7. /\ DepthOf(more) = Len(p) /\ Len(more) = Len(seen) + 1 /\ Len(seen) \in Nat
      /\ more \in Seq(Event)
  <2> HIDE DEF e
  <2>1. /\ DepthOf(more) = DepthOf(seen) + Change(e) /\ Len(more) = Len(seen) + 1
        /\ Len(seen) \in Nat /\ more \in Seq(Event)
    BY ONLY <1>1, <1>4, OneEventMore DEF more
  <2>. QED
    BY ONLY <1>2, <1>3, <1>4, <1>5, <2>1
<1>8. NeverBelowTheRoot(more)
  <2> HIDE DEF e
  <2>1. DepthOf(seen) + Change(e) >= 0
    BY ONLY <1>2, <1>4, <1>5
  <2>. QED
    BY ONLY <1>1, <1>4, <1>5, <2>1, StaysAboveTheRoot DEF more
<1>9. s \in Seq(Marker) /\ Len(s) = IF Len(p) = 0 THEN 1 ELSE Len(p)
  <2>1. /\ \A i \in 1 .. Len(p) - 1 : p[i] \in {"array", "member"}
        /\ Len(p) > 0 => p[Len(p)] # "root-done"
    BY ONLY <1>3
  <2>. QED
    BY <1>3, <2>1, DoneProperties
<1>10. Nested(s, more)
  <2>1. Len(more) > 0
    BY ONLY <1>7
  <2>. QED
    BY <1>3, <1>6, <1>7, <1>8, <2>1, DoneNests
<1>11. ~Rejects(stack, e.kind)
  BY <1>1, <1>4 DEF Rejects, Begins
<1>12. bracket \in Token /\ outputs \in Seq(Token) /\ <<bracket>> \in Seq(Token)
  BY TokenTexts, LeadAndTail DEF Punctuation
<1>13. Document!Piece(more, Len(seen) + 1) = outputs
  <2>1. Document!Piece(more, Len(seen) + 1) =
           (IF \/ e.kind = "key" /\ Top(stack) = "object"
               \/ e.kind \in Begins \cup {"scalar"} /\ Top(stack) = "array"
            THEN <<",">> ELSE << >>)
             \o Document!Spelling(e)
             \o (IF DepthOf(seen) + Change(e) = 0 THEN <<"\n">> ELSE << >>)
    BY <1>1, <1>4, <1>11, PieceOfAStep DEF more
  <2>2. Document!Spelling(e) = <<bracket>>
    BY DEF Document!Spelling
  <2>3. Tail5(p) = IF DepthOf(seen) + Change(e) = 0 THEN <<"\n">> ELSE << >>
    BY <1>2, <1>3, <1>4, <1>5 DEF Tail5
  <2>4. e.kind \notin {"key"} \cup (Begins \cup {"scalar"})
    BY <1>4 DEF Begins
  <2>5. << >> \o <<bracket>> = <<bracket>>
    BY ONLY <1>12
  <2>. QED
    BY <2>1, <2>2, <2>3, <2>4, <2>5
<1>14. kind # "key" /\ (Len(s) = 1 <=> DepthOf(more) \in {0, 1})
  BY <1>3, <1>7, <1>9
<1> HIDE DEF s, outputs
<1>15. Promised(e)
  BY <1>1, <1>4, <1>9, <1>10, <1>11, <1>12, <1>13, <1>14, StepWrites DEF more
<1>. QED
  BY <1>4, <1>15

(* A key written: its record has not ended. *)
LEMMA MemberIsPromised ==
  ASSUME IInv, AsPromised, NEW name \in Keys, Member(name)
  PROVE  \E e \in Event : Promised(e)
<1> DEFINE e == [kind |-> "key", text |-> name]
           more == Append(seen, e)
           comma == IF Top(stack) = "object" THEN <<",">> ELSE << >>
           outputs == comma \o <<name, ":">>
<1>1. /\ stack \in Seq(Marker) /\ seen \in Seq(Event)
      /\ written \in Seq(Token) /\ held \in Seq(Token) /\ Nested(stack, seen)
      /\ Top(stack) \in {"object-open", "object"} /\ seen' = more
  BY DEF IInv, TypeOK, AsPromised, Member, Transition
<1>2. /\ outputs \in Seq(Token) /\ stack' = Mark("member", stack)
      /\ held' = held \o outputs /\ written' = written
  BY KeyIsHeld
<1>3. /\ e \in Event /\ e.kind = "key" /\ Change(e) = 0
      /\ e.kind \notin Begins \cup {"scalar"}
  BY DEF Event, Begins, Ends, Change
<1>4. ~Rejects(stack, e.kind)
  BY <1>1, <1>3 DEF Rejects, Begins
<1>5. DepthOf(seen) = Len(stack) /\ Len(stack) > 0 /\ Len(stack) \in Nat
  BY <1>1, TopProperties DEF Nested
<1> HIDE DEF more
<1>6. Document!Piece(more, Len(seen) + 1) = outputs
  <2>1. Document!Piece(Append(seen, e), Len(seen) + 1) =
           (IF \/ e.kind = "key" /\ Top(stack) = "object"
               \/ e.kind \in Begins \cup {"scalar"} /\ Top(stack) = "array"
            THEN <<",">> ELSE << >>)
             \o Document!Spelling(e)
             \o (IF DepthOf(seen) + Change(e) = 0 THEN <<"\n">> ELSE << >>)
    BY <1>1, <1>3, <1>4, PieceOfAStep
  <2>2. Document!Spelling(e) = <<name, ":">>
    BY DEF Document!Spelling
  <2>3. DepthOf(seen) + Change(e) # 0
    BY <1>3, <1>5
  <2>4. outputs \o << >> = outputs
    BY <1>2, Tokenwise
  <2>. QED
    BY <1>3, <2>1, <2>2, <2>3, <2>4 DEF more
<1>7. Document!TextOf(more) = (written \o held) \o outputs
  BY <1>1, <1>3, <1>6, TextMore DEF AsPromised, more
<1>8. Document!KeptOf(more) = written
  BY <1>1, <1>3, KeptMore DEF AsPromised, more
<1>9. written' \o held' = (written \o held) \o outputs
  <2>1. written \in Seq(Token) /\ held \in Seq(Token) /\ outputs \in Seq(Token)
    BY <1>1, <1>2
  <2> HIDE DEF outputs
  <2>2. written \o (held \o outputs) = (written \o held) \o outputs
    BY ONLY <2>1, Tokenwise
  <2>. QED
    BY <1>2, <2>2
<1>10. Document!OfATree(more, Len(seen) + 1)
  BY <1>1, <1>3, <1>4, NextIsDue DEF more
<1>11. Nested(Mark("member", stack), more)
  BY <1>1, <1>3, MemberNests DEF more
<1>12. Promised(e)
  BY <1>1, <1>2, <1>7, <1>8, <1>9, <1>10, <1>11 DEF Promised, more
<1>. QED
  BY <1>3, <1>12

(* Taking a promised event is the promise's step, and keeps the invariant. *)
LEMMA TakenAsPromised ==
  ASSUME TInv, IInv', outcome = "running", outcome' = outcome, Len(seen) < MaxEvents,
         NEW e \in Event, Promised(e)
  PROVE  TInv' /\ Document!Next
<1>1. seen \in Seq(Event) /\ Len(Append(seen, e)) = Len(seen) + 1
  BY OneEventMore DEF TInv, IInv, TypeOK
<1>2. AsPromised'
  BY DEF Promised, AsPromised
<1>3. Document!Take(e)
  BY <1>1 DEF Promised, Document!Take
<1>4. Document!Next
  BY <1>3, SameWords DEF Document!Next
<1>. QED
  BY <1>2, <1>4 DEF TInv

(* A refused event is one no tree holds. *)
LEMMA RefusalIsPromised ==
  ASSUME TInv, IInv', NEW event \in Event, Refuse(event)
  PROVE  TInv' /\ Document!Next
<1>1. /\ stack \in Seq(Marker) /\ seen \in Seq(Event) /\ written \in Seq(Token)
      /\ AsPromised /\ Len(Append(seen, event)) = Len(seen) + 1
  BY OneEventMore DEF TInv, IInv, TypeOK, Refuse
<1>2. ~Document!OfATree(Append(seen, event), Len(seen) + 1)
  BY <1>1, NextIsDue DEF AsPromised, Refuse
<1>3. written' \o held' = written /\ written' = written
  BY <1>1, Tokenwise DEF Refuse
<1>4. Document!Fail(event)
  BY <1>1, <1>2, <1>3 DEF Document!Fail, Refuse
<1>5. Document!Next
  BY <1>4, SameWords DEF Document!Next
<1>. QED
  BY <1>5 DEF TInv, Refuse

(* The end of the events is the end of the tree. *)
LEMMA FinishIsPromised ==
  ASSUME TInv, IInv', Finish
  PROVE  TInv' /\ Document!Next
<1>1. /\ stack \in Seq(Marker) /\ seen \in Seq(Event) /\ written \in Seq(Token)
      /\ Nested(stack, seen) /\ Len(seen) \in Nat /\ Len(stack) \in Nat
  BY LenProperties DEF TInv, IInv, TypeOK, Finish, AsPromised
<1>2. Document!Whole(seen) <=> Top(stack) = "root-done"
  <2>1. Top(stack) = "root-done" => Len(stack) # 0
    BY <1>1, TopProperties
  <2>. QED
    BY <1>1, <2>1 DEF Nested, Document!Whole, DepthOf
<1>3. written' \o held' = written /\ written' = written
  BY <1>1, Tokenwise DEF Finish
<1>4. Document!End
  BY <1>2, <1>3 DEF Document!End, Finish
<1>5. Document!Next
  BY <1>4 DEF Document!Next
<1>. QED
  BY <1>5 DEF TInv, Finish

(* One case per event, and the two ways a run may stop. *)
LEMMA StepIsPromised ==
  TInv /\ [Next]_vars => TInv' /\ [Document!Next]_(Document!vars)
<1> SUFFICES ASSUME TInv, [Next]_vars
             PROVE  TInv' /\ [Document!Next]_(Document!vars)
  OBVIOUS
<1>1. IInv /\ IInv'
  BY StepKeepsInvariant DEF TInv
<1>2. outcome = "running" => AsPromised
  BY DEF TInv
<1>3. CASE ArrayStart
  <2>1. outcome = "running" /\ outcome' = outcome /\ Len(seen) < MaxEvents
    BY <1>3 DEF ArrayStart, Begin, Transition
  <2>. QED
    BY <1>1, <1>2, <1>3, <2>1, BeginIsPromised, TakenAsPromised DEF ArrayStart
<1>4. CASE ObjectStart
  <2>1. outcome = "running" /\ outcome' = outcome /\ Len(seen) < MaxEvents
    BY <1>4 DEF ObjectStart, Begin, Transition
  <2>. QED
    BY <1>1, <1>2, <1>4, <2>1, BeginIsPromised, TakenAsPromised DEF ObjectStart
<1>5. ASSUME NEW name \in Keys, Member(name)
      PROVE  TInv' /\ Document!Next
  <2>1. outcome = "running" /\ outcome' = outcome /\ Len(seen) < MaxEvents
    BY <1>5 DEF Member, Transition
  <2>. QED
    BY <1>1, <1>2, <1>5, <2>1, MemberIsPromised, TakenAsPromised
<1>6. ASSUME NEW value \in Scalars, Scalar(value)
      PROVE  TInv' /\ Document!Next
  <2>1. outcome = "running" /\ outcome' = outcome /\ Len(seen) < MaxEvents
    BY <1>6 DEF Scalar, Transition
  <2>. QED
    BY <1>1, <1>2, <1>6, <2>1, ScalarIsPromised, TakenAsPromised
<1>7. CASE ObjectEnd
  <2>1. outcome = "running" /\ outcome' = outcome /\ Len(seen) < MaxEvents
    BY <1>7 DEF ObjectEnd, Close, Transition
  <2>. QED
    BY <1>1, <1>2, <1>7, <2>1, CloseIsPromised, TakenAsPromised DEF ObjectEnd
<1>8. CASE ArrayEnd
  <2>1. outcome = "running" /\ outcome' = outcome /\ Len(seen) < MaxEvents
    BY <1>8 DEF ArrayEnd, Close, Transition
  <2>. QED
    BY <1>1, <1>2, <1>8, <2>1, CloseIsPromised, TakenAsPromised DEF ArrayEnd
<1>9. ASSUME NEW event \in Event, Refuse(event)
      PROVE  TInv' /\ Document!Next
  BY <1>1, <1>9, RefusalIsPromised
<1>10. CASE Finish
  BY <1>1, <1>10, FinishIsPromised
<1>11. CASE UNCHANGED vars
  BY <1>1, <1>2, <1>11 DEF TInv, AsPromised, vars, Document!vars
<1>. QED
  BY <1>3, <1>4, <1>5, <1>6, <1>7, <1>8, <1>9, <1>10, <1>11 DEF Next

(* What json5-render writes is the text of the tree its events spell, it   *)
(* refuses exactly the events no tree holds, and it leaves whole records   *)
(* behind when it fails (render.alc 6-41): every step is a step of the     *)
(* promise, for every set of spellings and every number of events.         *)
THEOREM TextIsTheTrees == Spec => WritesTheTree
<1>1. Init => TInv /\ Document!Init
  <2> SUFFICES ASSUME Init PROVE TInv /\ Document!Init
    OBVIOUS
  <2>1. IInv
    BY DEF Init, IInv, TypeOK, StackShape, NothingHeldBetweenRecords
  <2>2. written \o held = << >>
    BY Tokenwise, TokenTexts DEF Init
  <2>3. Nested(stack, seen)
    <3>1. Top(stack) = "none" /\ Len(stack) = 0 /\ seen = << >>
      BY EmptySeq DEF Init, Top
    <3>2. \A j \in 1 .. 0 + 1 : j = 1
      OBVIOUS
    <3>. QED
      BY <3>1, <3>2, TextOfNone, DepthChanges DEF Nested, NeverBelowTheRoot
  <2>. QED
    BY <2>1, <2>2, <2>3, TextOfNone DEF Init, TInv, AsPromised, Document!Init
<1>. QED
  BY <1>1, StepIsPromised, PTL DEF Spec, WritesTheTree, Document!Spec
===============================================================================
