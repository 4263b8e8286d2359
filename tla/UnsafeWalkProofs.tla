-------------------------- MODULE UnsafeWalkProofs --------------------------
(* Proofs about jsonUnsafe's walk: whatever the heap, the keys on the path   *)
(* are those of the calls that have not returned and no container is entered *)
(* inside itself; the reply carries the value exactly when encoding/json     *)
(* says it truly; and the reason given is the first in the order of emission.*)
EXTENDS UnsafeWalk, SequenceTheorems, FiniteSetTheorems, FunctionTheorems,
        WellFoundedInduction, TLAPS

Frames == [cell : Cells, left : SUBSET Nat]

(* The inductive invariant: the types, that the value is one of the values,  *)
(* that nothing is on the path before the walk, and the property.            *)
IInv ==
    /\ TypeOK
    /\ \E v \in Values : heap = v.heap /\ root = v.root
    /\ pc = "start" => stack = <<>>
    /\ PathIsTheStack

(* A stack that is not empty has a length and a top.                         *)
LEMMA StackType ==
  ASSUME IInv, stack # <<>>
  PROVE  stack \in Seq(Frames) /\ Len(stack) \in Nat /\ Len(stack) > 0
<1>1. stack \in Seq(Frames)
  BY DEF IInv, TypeOK, Frames
<1>. QED
  BY <1>1, LenProperties, EmptySeq

(* What a frame of a container holds is a set of places.                     *)
LEMMA FrameType ==
  ASSUME IInv, NEW c \in Cells
  PROVE  Frame(c) \in Frames /\ Frame(c).cell = c
         /\ Frame(c).left \subseteq DOMAIN heap[c].items
  BY ValuesAssumption DEF IInv, Frame, Frames

(* Taking an item changes what is left of the top frame, and no cell.        *)
LEMMA TakenKeepsCells ==
  ASSUME IInv, stack # <<>>, NEW i
  PROVE  /\ Taken(i) \in Seq(Frames)
         /\ Len(Taken(i)) = Len(stack)
         /\ \A n \in 1 .. Len(stack) :
                /\ Taken(i)[n].cell = stack[n].cell
                /\ Taken(i)[n].left \subseteq DOMAIN heap[Taken(i)[n].cell].items
<1> DEFINE len == Len(stack)
<1>1. stack \in Seq(Frames) /\ len \in Nat /\ len > 0
  BY StackType
<1>2. stack[len] \in Frames
  BY <1>1, ElementOfSeq
<1> DEFINE f == [stack[len] EXCEPT !.left = @ \ {i}]
<1>3. /\ f \in Frames /\ f.cell = stack[len].cell
      /\ f.left \subseteq stack[len].left
  BY <1>2 DEF Frames
<1>4. Taken(i) = [stack EXCEPT ![len] = f]
  BY DEF Taken
<1> HIDE DEF f, len
<1>5. /\ Taken(i) \in Seq(Frames)
      /\ Len(Taken(i)) = Len(stack)
      /\ \A n \in 1 .. len : Taken(i)[n] = IF n = len THEN f ELSE stack[n]
  <2>1. len \in 1 .. Len(stack)
    BY <1>1 DEF len
  <2>2. /\ [stack EXCEPT ![len] = f] \in Seq(Frames)
        /\ Len([stack EXCEPT ![len] = f]) = Len(stack)
        /\ \A j \in 1 .. Len(stack) : [stack EXCEPT ![len] = f][j] = IF j = len THEN f ELSE stack[j]
    BY <2>1, <1>1, <1>3, ExceptSeq
  <2>. QED
    BY <2>2, <1>4 DEF len
<1>6. \A n \in 1 .. len : stack[n].left \subseteq DOMAIN heap[stack[n].cell].items
  BY DEF IInv, TypeOK, len
<1>7. \A n \in 1 .. len : /\ Taken(i)[n].cell = stack[n].cell
                          /\ Taken(i)[n].left \subseteq DOMAIN heap[Taken(i)[n].cell].items
  <2> TAKE n \in 1 .. len
  <2>1. CASE n = len
    BY <2>1, <1>1, <1>3, <1>5, <1>6
  <2>2. CASE n # len
    BY <2>2, <1>5, <1>6
  <2>. QED
    BY <2>1, <2>2
<1>. QED
  BY <1>5, <1>7 DEF len

(* Taking an item takes it from the top frame and from no other.             *)
LEMMA TakenLeaves ==
  ASSUME stack \in Seq(Frames), Len(stack) \in Nat, Len(stack) > 0, NEW i
  PROVE  \A n \in 1 .. Len(stack) :
            Taken(i)[n].left = IF n = Len(stack) THEN stack[n].left \ {i} ELSE stack[n].left
<1> DEFINE len == Len(stack)
           f == [stack[len] EXCEPT !.left = @ \ {i}]
<1>1. len \in 1 .. Len(stack) /\ stack[len] \in Frames
  BY ElementOfSeq
<1>2. f \in Frames /\ f.left = stack[len].left \ {i}
  BY <1>1 DEF Frames
<1>3. Taken(i) = [stack EXCEPT ![len] = f]
  BY DEF Taken
<1> HIDE DEF f, len
<1>4. \A j \in 1 .. Len(stack) : [stack EXCEPT ![len] = f][j] = IF j = len THEN f ELSE stack[j]
  BY <1>1, <1>2, ExceptSeq
<1>. QED
  BY <1>2, <1>3, <1>4 DEF len

(* An empty sequence has no places.                                          *)
LEMMA NoPlace == \A n \in 1 .. 0 : FALSE
  OBVIOUS

(* With no call running there is nothing on the path.                        *)
LEMMA EmptyPath ==
  /\ stack = <<>> /\ onPath = {} => PathIsTheStack
  /\ stack' = <<>> /\ onPath' = {} => PathIsTheStack'
<1>1. Len(<<>>) = 0 /\ \A n \in 1 .. 0 : FALSE
  BY EmptySeq
<1>. QED
  BY <1>1 DEF PathIsTheStack

(* Deciding empties the path and the stack together.                         *)
LEMMA DecideKeeps ==
  ASSUME IInv, NEW r \in Reasons \cup {""}, Decide(r), UNCHANGED <<heap, root, reply>>
  PROVE  IInv'
<1>1. /\ stack' = <<>> /\ onPath' = {} /\ why' = r /\ pc' = "decided"
      /\ UNCHANGED <<heap, root, reply>>
  BY DEF Decide
<1>2. stack' \in Seq(Frames) /\ Len(stack') = 0
  BY <1>1, EmptySeq
<1>5. \A n \in 1 .. Len(stack') : stack'[n].left \subseteq DOMAIN heap'[stack'[n].cell].items
  BY <1>2, NoPlace, Zenon
<1>4. TypeOK'
  BY <1>1, <1>2, <1>5 DEF IInv, TypeOK, Frames
<1>3. PathIsTheStack'
  BY <1>1, EmptyPath
<1>. QED
  BY <1>1, <1>4, <1>3 DEF IInv

(* A leaf's reason is a reason, or none.                                     *)
LEMMA LeafReasonType == \A v : LeafReason(v) \in Reasons \cup {""}
  BY DEF LeafReason

(* The walk starts with nothing on its path.                                 *)
LEMMA InitIInv == Init => IInv
<1> SUFFICES ASSUME Init PROVE IInv
  OBVIOUS
<1>1. PICK v \in Values : heap = v.heap /\ root = v.root
  BY DEF Init
<1>2. root \in Cells \cup Leaves
  BY <1>1, ValuesAssumption
<1>5. stack \in Seq(Frames) /\ Len(stack) = 0
  BY EmptySeq DEF Init
<1>6. \A n \in 1 .. Len(stack) : stack[n].left \subseteq DOMAIN heap[stack[n].cell].items
  BY <1>5
<1>3. TypeOK
  BY <1>2, <1>5, <1>6 DEF Init, TypeOK, Frames
<1>4. PathIsTheStack
  BY EmptyPath DEF Init
<1>. QED
  BY <1>1, <1>3, <1>4 DEF Init, IInv

(* Every step keeps the path and the stack together.                         *)
LEMMA NextIInv == IInv /\ [Next]_vars => IInv'
<1> SUFFICES ASSUME IInv, [Next]_vars PROVE IInv'
  OBVIOUS
<1>1. CASE StartAtLeaf
  BY <1>1, DecideKeeps, LeafReasonType DEF StartAtLeaf
<1>2. CASE StartAtCell
  <2>1. root \in Cells /\ stack' = <<Frame(root)>> /\ onPath' = {Key(root)}
        /\ pc' = "walk" /\ UNCHANGED <<heap, root, why, reply>>
    BY <1>2 DEF StartAtCell
  <2>2. Frame(root) \in Frames /\ Frame(root).cell = root
        /\ Frame(root).left \subseteq DOMAIN heap[root].items
    BY <2>1, FrameType
  <2>3. /\ stack' \in Seq(Frames) /\ Len(stack') = 1 /\ stack'[1] = Frame(root)
        /\ stack' # <<>>
    BY <2>1, <2>2
  <2>4. \A n \in 1 .. Len(stack') : n = 1
    BY <2>3
  <2>5. \A n \in 1 .. Len(stack') : stack'[n].left \subseteq DOMAIN heap[stack'[n].cell].items
    BY <2>2, <2>3, <2>4
  <2>6. TypeOK'
    BY <2>1, <2>3, <2>5 DEF IInv, TypeOK, Frames
  <2>7. /\ Key(stack'[1].cell) = Key(root)
        /\ 1 \in 1 .. Len(stack')
    BY <2>2, <2>3
  <2>8. onPath' = {Key(stack'[n].cell) : n \in 1 .. Len(stack')}
    BY <2>1, <2>4, <2>7
  <2>9. PathIsTheStack'
    BY <2>1, <2>4, <2>8 DEF PathIsTheStack, Key
  <2>. QED
    BY <2>1, <2>6, <2>9 DEF IInv
<1>3. CASE TakeItem
  <2>1. pc = "walk" /\ stack # <<>> /\ UNCHANGED <<heap, root, reply>>
    BY <1>3 DEF TakeItem, IInv, TypeOK
  <2>2. PICK i \in Candidates : Skip(i) \/ BadKey(i) \/ BadLeaf(i) \/ Cycle(i) \/ Enter(i)
    BY <1>3 DEF TakeItem
  <2>3. CASE BadKey(i)
    BY <2>1, <2>3, DecideKeeps DEF BadKey, Reasons
  <2>4. CASE BadLeaf(i)
    BY <2>1, <2>4, DecideKeeps, LeafReasonType DEF BadLeaf
  <2>5. CASE Cycle(i)
    BY <2>1, <2>5, DecideKeeps DEF Cycle, Reasons
  <2>6. /\ Taken(i) \in Seq(Frames)
        /\ Len(Taken(i)) = Len(stack)
        /\ \A n \in 1 .. Len(stack) :
               /\ Taken(i)[n].cell = stack[n].cell
               /\ Taken(i)[n].left \subseteq DOMAIN heap[Taken(i)[n].cell].items
    BY <2>1, TakenKeepsCells
  <2>7. Len(stack) \in Nat /\ Len(stack) > 0
    BY <2>1, StackType
  <2>8. CASE Skip(i)
    <3>1. stack' = Taken(i) /\ UNCHANGED <<onPath, why, pc>>
      BY <2>8 DEF Skip
    <3>2. stack' # <<>>
      BY <3>1, <2>6, <2>7
    <3>3. TypeOK'
      BY <3>1, <3>2, <2>1, <2>6 DEF IInv, TypeOK, Frames
    <3>4. \A n \in 1 .. Len(stack) : Key(stack'[n].cell) = Key(stack[n].cell)
      BY <3>1, <2>6
    <3>5. /\ onPath = {Key(stack[n].cell) : n \in 1 .. Len(stack)}
          /\ \A m, n \in 1 .. Len(stack) : Key(stack[m].cell) = Key(stack[n].cell) => m = n
      BY DEF IInv, PathIsTheStack
    <3>6. /\ onPath' = {Key(stack'[n].cell) : n \in 1 .. Len(stack')}
          /\ \A m, n \in 1 .. Len(stack') : Key(stack'[m].cell) = Key(stack'[n].cell) => m = n
      BY <3>1, <3>4, <3>5, <2>6
    <3>7. PathIsTheStack'
      BY <3>6, <2>1 DEF PathIsTheStack, Key
    <3>. QED
      BY <3>1, <3>3, <3>7, <2>1 DEF IInv
  <2>9. CASE Enter(i)
    <3> DEFINE c == Item(i).val
               len == Len(stack)
    <3>1. /\ c \in Cells /\ Key(c) \notin onPath
          /\ stack' = Append(Taken(i), Frame(c))
          /\ onPath' = onPath \cup {Key(c)}
          /\ UNCHANGED <<why, pc>>
      BY <2>9 DEF Enter, Refers
    <3> HIDE DEF c
    <3>2. Frame(c) \in Frames /\ Frame(c).cell = c
          /\ Frame(c).left \subseteq DOMAIN heap[c].items
      BY <3>1, FrameType
    <3>3. /\ stack' \in Seq(Frames) /\ Len(stack') = len + 1
          /\ \A n \in 1 .. len : stack'[n] = Taken(i)[n]
          /\ stack'[len + 1] = Frame(c)
      BY <3>1, <3>2, <2>6, AppendProperties
    <3>4. len \in Nat /\ len > 0 /\ \A n \in 1 .. len + 1 : n \in 1 .. len \/ n = len + 1
      BY <2>7
    <3>5. /\ \A n \in 1 .. len : Key(stack'[n].cell) = Key(stack[n].cell)
          /\ Key(stack'[len + 1].cell) = Key(c)
      BY <3>2, <3>3, <2>6
    <3> HIDE DEF len
    <3>6. /\ onPath = {Key(stack[n].cell) : n \in 1 .. len}
          /\ \A m, n \in 1 .. len : Key(stack[m].cell) = Key(stack[n].cell) => m = n
      BY DEF IInv, PathIsTheStack, len
    <3>7. onPath' = {Key(stack'[n].cell) : n \in 1 .. len + 1}
      <4>1. \A n \in 1 .. len : n \in 1 .. len + 1
        BY <3>4
      <4>2. len + 1 \in 1 .. len + 1
        BY <3>4
      <4> DEFINE K(n) == Key(stack'[n].cell)
      <4>3. \A n \in 1 .. len : Key(stack[n].cell) = K(n)
        BY <3>5
      <4>4. K(len + 1) = Key(c)
        BY <3>5
      <4>5. onPath = {K(n) : n \in 1 .. len}
        BY <3>6, <4>3
      <4> HIDE DEF K
      <4>6. onPath' = {K(n) : n \in 1 .. len + 1}
        BY <3>1, <3>4, <4>1, <4>2, <4>4, <4>5
      <4>. QED
        BY <4>6 DEF K
    <3>8. \A m, n \in 1 .. len + 1 :
             Key(stack'[m].cell) = Key(stack'[n].cell) => m = n
      <4>1. \A n \in 1 .. len : Key(stack[n].cell) # Key(c)
        BY <3>1, <3>6
      <4>. QED
        BY <3>4, <3>5, <3>6, <4>1
    <3>9. PathIsTheStack'
      BY <3>3, <3>7, <3>8, <2>1 DEF PathIsTheStack, Key
    <3>10. \A n \in 1 .. Len(stack') : stack'[n].left \subseteq DOMAIN heap[stack'[n].cell].items
      BY <3>2, <3>3, <3>4, <2>6 DEF len
    <3>11. stack' # <<>>
      BY <3>3, <3>4
    <3>12. TypeOK'
      BY <3>1, <3>3, <3>10, <3>11, <2>1 DEF IInv, TypeOK, Frames
    <3>. QED
      BY <3>1, <3>9, <3>12, <2>1 DEF IInv
  <2>. QED
    BY <2>2, <2>3, <2>4, <2>5, <2>8, <2>9
<1>4. CASE Leave
  <2> DEFINE n0 == Len(stack) - 1
  <2>1. /\ pc = "walk" /\ stack' = SubSeq(stack, 1, n0)
        /\ onPath' = onPath \ {Key(TopFrame.cell)}
        /\ pc' = IF Len(stack) = 1 THEN "decided" ELSE "walk"
        /\ UNCHANGED <<heap, root, why, reply>>
    BY <1>4 DEF Leave
  <2>0. stack # <<>>
    BY <2>1 DEF IInv, TypeOK
  <2>2. /\ stack \in Seq(Frames) /\ n0 \in Nat /\ Len(stack) = n0 + 1
        /\ TopFrame = stack[n0 + 1]
    BY <2>0, StackType DEF TopFrame
  <2>3. \A n \in 1 .. n0 : stack[n] \in Frames
    BY <2>2, ElementOfSeq
  <2> HIDE DEF n0
  <2>4. /\ stack' \in Seq(Frames) /\ Len(stack') = n0
        /\ \A n \in 1 .. n0 : stack'[n] = stack[n]
    BY <2>1, <2>2, <2>3, SubSeqProperties
  <2>5. /\ onPath = {Key(stack[n].cell) : n \in 1 .. n0 + 1}
        /\ \A m, n \in 1 .. n0 + 1 : Key(stack[m].cell) = Key(stack[n].cell) => m = n
    BY <2>2 DEF IInv, PathIsTheStack
  <2>6. \A n \in 1 .. n0 : n \in 1 .. n0 + 1 /\ n # n0 + 1
    BY <2>2
  <2>7. \A n \in 1 .. n0 + 1 : n \in 1 .. n0 \/ n = n0 + 1
    BY <2>2
  <2>8. n0 + 1 \in 1 .. n0 + 1
    BY <2>2
  <2>9. onPath' = {Key(stack[n].cell) : n \in 1 .. n0}
    BY <2>1, <2>2, <2>5, <2>6, <2>7, <2>8
  <2>14. /\ onPath' = {Key(stack'[n].cell) : n \in 1 .. Len(stack')}
         /\ \A m, n \in 1 .. Len(stack') : Key(stack'[m].cell) = Key(stack'[n].cell) => m = n
    BY <2>4, <2>5, <2>6, <2>9
  <2>15. heap' = heap
    BY <2>1
  <2>10. PathIsTheStack'
    BY <2>14, <2>15 DEF PathIsTheStack, Key
  <2>11. pc' = "walk" => stack' # <<>>
    BY <2>1, <2>2, <2>4, EmptySeq
  <2>12. \A n \in 1 .. Len(stack') : stack'[n].left \subseteq DOMAIN heap[stack'[n].cell].items
    BY <2>2, <2>4, <2>6 DEF IInv, TypeOK
  <2>13. TypeOK'
    BY <2>1, <2>4, <2>11, <2>12 DEF IInv, TypeOK, Frames
  <2>. QED
    BY <2>1, <2>10, <2>13 DEF IInv
<1>5. CASE Reply
  BY <1>5 DEF Reply, IInv, TypeOK, PathIsTheStack, Key
<1>6. CASE UNCHANGED vars
  BY <1>6 DEF vars, IInv, TypeOK, PathIsTheStack, Key
<1>. QED
  BY <1>1, <1>2, <1>3, <1>4, <1>5, <1>6 DEF Next

(* For every heap: the keys on the path are those of the containers being    *)
(* walked, and none of them is being walked twice, so a cycle is met as a    *)
(* key on the path and never descended into.                                 *)
THEOREM WalkKeepsItsPath == Spec => []PathIsTheStack
<1>1. IInv => PathIsTheStack
  BY DEF IInv
<1>. QED
  BY InitIInv, NextIInv, <1>1, PTL DEF Spec

(* For every heap, the state has its types.                                  *)
THEOREM WalkIsTyped == Spec => []TypeOK
<1>1. IInv => TypeOK
  BY DEF IInv
<1>. QED
  BY InitIInv, NextIInv, <1>1, PTL DEF Spec

-----------------------------------------------------------------------------
(* What the walk has done with a container's items so far: each one that is  *)
(* taken is safe, or is the container being walked one call further in.      *)
Accounted(n, i) ==
    LET c == stack[n].cell
    IN  \/ Faithful(c, i, SafeCells)
        \/ /\ n < Len(stack)
           /\ heap[c].items[i].key # "bad"
           /\ heap[c].items[i].val = stack[n + 1].cell

(* The inductive invariant behind WalkClears.                                *)
Progress ==
    /\ pc \in {"start", "walk"} => why = ""
    /\ pc = "walk" =>
          /\ stack[1].cell = root
          /\ \A n \in 1 .. Len(stack) :
                 \A i \in DOMAIN heap[stack[n].cell].items \ stack[n].left : Accounted(n, i)

CInv == IInv /\ Progress /\ WalkClears

(* A container all of whose items are safe is safe.                          *)
LEMMA SafeByItems ==
  ASSUME NEW c \in Cells, \A i \in DOMAIN heap[c].items : Faithful(c, i, SafeCells)
  PROVE  c \in SafeCells
<1> SUFFICES ASSUME NEW S \in SUBSET Cells,
                    \A d \in Cells : (\A i \in DOMAIN heap[d].items : Faithful(d, i, S)) => d \in S
             PROVE  c \in S
  BY DEF SafeCells
<1>1. SafeCells \subseteq S
  BY DEF SafeCells
<1>2. \A i \in DOMAIN heap[c].items : Faithful(c, i, S)
  BY <1>1 DEF Faithful
<1>. QED
  BY <1>2

(* The heap does not change, and what is safe in it neither.                 *)
LEMMA SafeCellsStay ==
  ASSUME heap' = heap
  PROVE  /\ SafeCells' = SafeCells
         /\ \A c, i, S : Faithful(c, i, S)' = Faithful(c, i, S)
  BY DEF SafeCells, Faithful

(* Before the walk nothing is cleared.                                       *)
LEMMA InitCInv == Init => CInv
  BY InitIInv DEF Init, CInv, Progress, WalkClears

(* A leaf that gives no reason is one encoding/json says truly or refuses.   *)
LEMMA ClearedLeaf == \A v \in Leaves : LeafReason(v) = "" => v \in {"plain", "nan"}
  BY DEF Leaves, LeafReason, Reasons

(* Every step keeps the account.                                             *)
LEMMA NextCInv == CInv /\ [Next]_vars => CInv'
<1> SUFFICES ASSUME CInv, [Next]_vars PROVE Progress' /\ WalkClears'
  BY NextIInv DEF CInv
<1> USE DEF CInv
<1>1. CASE StartAtLeaf
  <2>1. /\ root \in Leaves /\ root' = root /\ pc' = "decided" /\ why' = LeafReason(root)
    BY <1>1 DEF StartAtLeaf, Decide
  <2>. QED
    BY <2>1, ClearedLeaf DEF Progress, WalkClears
<1>2. CASE StartAtCell
  <2>1. /\ root \in Cells /\ stack' = <<Frame(root)>> /\ pc' = "walk" /\ pc = "start"
        /\ UNCHANGED <<heap, root, why>>
    BY <1>2 DEF StartAtCell
  <2>2. Len(stack') = 1 /\ stack'[1].cell = root /\ stack'[1].left = DOMAIN heap[root].items
    BY <2>1 DEF Frame
  <2>3. \A n \in 1 .. Len(stack') : n = 1
    BY <2>2
  <2>4. \A n \in 1 .. Len(stack') : DOMAIN heap'[stack'[n].cell].items \ stack'[n].left = {}
    BY <2>1, <2>2, <2>3
  <2>. QED
    BY <2>1, <2>2, <2>4 DEF Progress, WalkClears
<1>3. CASE TakeItem
  <2>1. pc = "walk" /\ stack # <<>> /\ heap' = heap /\ root' = root
    BY <1>3 DEF TakeItem, IInv, TypeOK
  <2>2. PICK i \in Candidates : Skip(i) \/ BadKey(i) \/ BadLeaf(i) \/ Cycle(i) \/ Enter(i)
    BY <1>3 DEF TakeItem
  <2>3. CASE BadKey(i) \/ BadLeaf(i) \/ Cycle(i)
    <3>1. pc' = "decided" /\ why' # ""
      BY <2>3 DEF BadKey, BadLeaf, Cycle, Decide, LeafReason, Reasons
    <3>. QED
      BY <3>1 DEF Progress, WalkClears
  <2>4. /\ Taken(i) \in Seq(Frames)
        /\ Len(Taken(i)) = Len(stack)
        /\ \A n \in 1 .. Len(stack) : Taken(i)[n].cell = stack[n].cell
    BY <2>1, TakenKeepsCells
  <2>5. stack \in Seq(Frames) /\ Len(stack) \in Nat /\ Len(stack) > 0
    BY <2>1, StackType
  <2> DEFINE len == Len(stack)
  <2>6. /\ len \in 1 .. len
        /\ \A n \in 1 .. len : stack[n] \in Frames
    BY <2>5, ElementOfSeq
  <2>7. \A n \in 1 .. len :
           Taken(i)[n].left = IF n = len THEN stack[n].left \ {i} ELSE stack[n].left
    BY <2>4, <2>5, <2>6, TakenLeaves
  <2>8. /\ why = "" /\ stack[1].cell = root
        /\ \A n \in 1 .. len :
               \A j \in DOMAIN heap[stack[n].cell].items \ stack[n].left : Accounted(n, j)
    BY <2>1 DEF Progress
  <2>9. CASE Skip(i)
    <3>1. stack' = Taken(i) /\ UNCHANGED <<why, pc>>
      BY <2>9 DEF Skip
    <3>2. Faithful(stack[len].cell, i, SafeCells)
      BY <2>9 DEF Skip, Faithful, Item, TopFrame
    <3>3. \A n \in 1 .. len :
             \A j \in DOMAIN heap[stack[n].cell].items \ Taken(i)[n].left :
                 Accounted(n, j) \/ (n = len /\ j = i)
      BY <2>7, <2>8
    <3>4. \A n \in 1 .. len :
             \A j \in DOMAIN heap[stack[n].cell].items \ Taken(i)[n].left : Accounted(n, j)
      BY <3>2, <3>3 DEF Accounted
    <3>5. \A n \in 1 .. len : \A j : Accounted(n, j) => Accounted(n, j)'
      <4> SUFFICES ASSUME NEW n \in 1 .. len, NEW j, Accounted(n, j) PROVE Accounted(n, j)'
        OBVIOUS
      <4>1. n < len => n + 1 \in 1 .. len
        BY <2>5
      <4>2. /\ stack'[n].cell = stack[n].cell /\ Len(stack') = len
            /\ n < len => stack'[n + 1].cell = stack[n + 1].cell
        BY <3>1, <2>4, <4>1
      <4>. QED
        BY <4>2, <2>1, SafeCellsStay DEF Accounted
    <3>6. \A n \in 1 .. Len(stack') :
             \A j \in DOMAIN heap'[stack'[n].cell].items \ stack'[n].left : Accounted(n, j)'
      BY <3>1, <3>4, <3>5, <2>1, <2>4
    <3>8. 1 \in 1 .. len
      BY <2>5
    <3>7. stack'[1].cell = root
      BY <3>1, <3>8, <2>4, <2>8
    <3>. QED
      BY <3>1, <3>6, <3>7, <2>1, <2>8 DEF Progress, WalkClears
  <2>10. CASE Enter(i)
    <3> DEFINE c == Item(i).val
    <3>1. /\ c \in Cells /\ Item(i).key # "bad"
          /\ stack' = Append(Taken(i), Frame(c))
          /\ UNCHANGED <<why, pc>>
      BY <2>10 DEF Enter, Refers
    <3>2. Item(i) = heap[stack[len].cell].items[i]
      BY DEF Item, TopFrame
    <3> HIDE DEF c
    <3>3. Frame(c) \in Frames /\ Frame(c).cell = c /\ Frame(c).left = DOMAIN heap[c].items
      BY <3>1, FrameType DEF Frame
    <3>4. /\ Len(stack') = len + 1
          /\ \A n \in 1 .. len : stack'[n] = Taken(i)[n]
          /\ stack'[len + 1] = Frame(c)
      BY <3>1, <3>3, <2>4, AppendProperties
    <3>5. \A n \in 1 .. len : \A j \in DOMAIN heap[stack[n].cell].items \ Taken(i)[n].left :
             Accounted(n, j) \/ (n = len /\ j = i)
      BY <2>7, <2>8
    <3>6. \A n \in 1 .. len : \A j \in DOMAIN heap[stack[n].cell].items \ Taken(i)[n].left :
             Accounted(n, j)'
      <4> SUFFICES ASSUME NEW n \in 1 .. len,
                          NEW j \in DOMAIN heap[stack[n].cell].items \ Taken(i)[n].left
                   PROVE  Accounted(n, j)'
        OBVIOUS
      <4>1. /\ n < Len(stack')
            /\ stack'[n].cell = stack[n].cell
        BY <3>4, <2>4, <2>5
      <4>2. CASE n = len /\ j = i
        <5>1. heap[stack[n].cell].items[j].key # "bad" /\ heap[stack[n].cell].items[j].val = c
          BY <4>2, <3>1, <3>2 DEF c
        <5>2. stack'[n + 1].cell = c
          BY <4>2, <3>3, <3>4
        <5>. QED
          BY <4>1, <5>1, <5>2, <2>1 DEF Accounted
      <4>3. CASE Accounted(n, j)
        <5>1. n < len => n + 1 \in 1 .. len
          BY <2>5
        <5>2. n < len => stack'[n + 1].cell = stack[n + 1].cell
          BY <5>1, <3>4, <2>4
        <5>. QED
          BY <4>1, <4>3, <5>2, <2>1, SafeCellsStay DEF Accounted
      <4>. QED
        BY <4>2, <4>3, <3>5
    <3>7. \A n \in 1 .. len + 1 : n \in 1 .. len \/ n = len + 1
      BY <2>5
    <3>8. \A n \in 1 .. Len(stack') :
             \A j \in DOMAIN heap'[stack'[n].cell].items \ stack'[n].left : Accounted(n, j)'
      <4>1. \A n \in 1 .. len :
               \A j \in DOMAIN heap'[stack'[n].cell].items \ stack'[n].left : Accounted(n, j)'
        BY <3>4, <3>6, <2>1, <2>4
      <4>2. DOMAIN heap'[stack'[len + 1].cell].items \ stack'[len + 1].left = {}
        BY <3>3, <3>4, <2>1
      <4> HIDE DEF len
      <4>. QED
        BY <4>1, <4>2, <3>4, <3>7
    <3>10. 1 \in 1 .. len
      BY <2>5
    <3>9. stack'[1].cell = root
      BY <3>4, <3>10, <2>4, <2>8
    <3>. QED
      BY <3>1, <3>8, <3>9, <2>1, <2>8 DEF Progress, WalkClears
  <2>. QED
    BY <2>2, <2>3, <2>9, <2>10
<1>4. CASE Leave
  <2> DEFINE n0 == Len(stack) - 1
             c == TopFrame.cell
  <2>1. /\ pc = "walk" /\ stack' = SubSeq(stack, 1, n0) /\ TopFrame.left = {}
        /\ pc' = IF Len(stack) = 1 THEN "decided" ELSE "walk"
        /\ heap' = heap /\ root' = root /\ why' = why
    BY <1>4 DEF Leave
  <2>2. stack # <<>>
    BY <2>1 DEF IInv, TypeOK
  <2>3. /\ stack \in Seq(Frames) /\ n0 \in Nat /\ Len(stack) = n0 + 1
        /\ TopFrame = stack[n0 + 1]
    BY <2>2, StackType DEF TopFrame
  <2>4. \A n \in 1 .. n0 + 1 : stack[n] \in Frames
    BY <2>3, ElementOfSeq
  <2>5. c \in Cells
    BY <2>3, <2>4 DEF Frames
  <2> HIDE DEF n0
  <2>6. /\ Len(stack') = n0 /\ \A n \in 1 .. n0 : stack'[n] = stack[n]
    BY <2>1, <2>3, <2>4, SubSeqProperties
  <2>7. /\ why = "" /\ stack[1].cell = root
        /\ \A n \in 1 .. n0 + 1 :
               \A j \in DOMAIN heap[stack[n].cell].items \ stack[n].left : Accounted(n, j)
    BY <2>1, <2>3 DEF Progress
  <2>13. /\ n0 + 1 \in 1 .. n0 + 1 /\ ~ (n0 + 1 < n0 + 1)
         /\ \A n \in 1 .. n0 : n \in 1 .. n0 + 1 /\ n < n0 + 1
    BY <2>3
  <2>14. c = stack[n0 + 1].cell /\ stack[n0 + 1].left = {}
    BY <2>1, <2>3
  <2> HIDE DEF c
  <2>8. \A j \in DOMAIN heap[c].items : Faithful(c, j, SafeCells)
    <3> SUFFICES ASSUME NEW j \in DOMAIN heap[c].items PROVE Faithful(c, j, SafeCells)
      OBVIOUS
    <3>1. Accounted(n0 + 1, j)
      BY <2>7, <2>13, <2>14
    <3>. QED
      BY <3>1, <2>3, <2>13, <2>14 DEF Accounted
  <2>9. c \in SafeCells
    BY <2>5, <2>8, SafeByItems
  <2>10. \A n \in 1 .. n0 : \A j \in DOMAIN heap[stack[n].cell].items \ stack[n].left :
            Accounted(n, j)'
    <3> SUFFICES ASSUME NEW n \in 1 .. n0,
                        NEW j \in DOMAIN heap[stack[n].cell].items \ stack[n].left
                 PROVE  Accounted(n, j)'
      OBVIOUS
    <3>1. Accounted(n, j) /\ n < n0 + 1 /\ stack'[n] = stack[n]
      BY <2>6, <2>7, <2>13
    <3>2. CASE n = n0
      <4>1. Faithful(stack[n].cell, j, SafeCells)
        BY <3>1, <3>2, <2>3, <2>9, <2>14 DEF Accounted, Faithful
      <4>. QED
        BY <4>1, <3>1, <2>1, SafeCellsStay DEF Accounted
    <3>3. CASE n # n0
      <4>1. n < n0 /\ n + 1 \in 1 .. n0 /\ n < n0 + 1
        BY <3>3, <2>3
      <4>2. stack'[n + 1] = stack[n + 1]
        BY <4>1, <2>6
      <4>3. \/ Faithful(stack[n].cell, j, SafeCells)
            \/ /\ heap[stack[n].cell].items[j].key # "bad"
               /\ heap[stack[n].cell].items[j].val = stack'[n + 1].cell
        BY <4>2, <3>1 DEF Accounted
      <4>4. n < Len(stack') /\ stack'[n].cell = stack[n].cell
        BY <4>1, <3>1, <2>6
      <4>5. heap' = heap
        BY <2>1
      <4>6. CASE Faithful(stack[n].cell, j, SafeCells)
        BY <4>6, <4>4, <4>5, SafeCellsStay DEF Accounted
      <4>7. CASE /\ heap[stack[n].cell].items[j].key # "bad"
                 /\ heap[stack[n].cell].items[j].val = stack'[n + 1].cell
        BY <4>7, <4>4, <4>5 DEF Accounted
      <4>. QED
        BY <4>3, <4>6, <4>7
    <3>. QED
      BY <3>2, <3>3
  <2>11. CASE n0 = 0
    <3>3. n0 + 1 = 1
      BY <2>11
    <3>4. root = c
      BY <3>3, <2>7, <2>14
    <3>1. root = c /\ Len(stack) = 1
      BY <3>3, <3>4, <2>3
    <3>2. pc' = "decided" /\ root' \in SafeCells'
      BY <3>1, <2>1, <2>9, SafeCellsStay
    <3>. QED
      BY <3>2 DEF Progress, WalkClears
  <2>12. CASE n0 # 0
    <3>3. 1 \in 1 .. n0 /\ Len(stack) # 1
      BY <2>3, <2>12
    <3>1. pc' = "walk" /\ stack'[1].cell = root
      BY <3>3, <2>1, <2>6, <2>7
    <3>2. \A n \in 1 .. Len(stack') :
             \A j \in DOMAIN heap'[stack'[n].cell].items \ stack'[n].left : Accounted(n, j)'
      BY <2>1, <2>6, <2>10
    <3>. QED
      BY <3>1, <3>2, <2>1, <2>7 DEF Progress, WalkClears
  <2>. QED
    BY <2>11, <2>12
<1>5. CASE Reply
  <2>1. pc = "decided" /\ pc' = "replied" /\ why' = why /\ root' = root /\ heap' = heap
    BY <1>5 DEF Reply
  <2>. QED
    BY <2>1, SafeCellsStay DEF Progress, WalkClears
<1>6. CASE UNCHANGED vars
  <2>1. UNCHANGED <<heap, root, stack, why, pc>>
    BY <1>6 DEF vars
  <2>2. SafeCells' = SafeCells
    BY <2>1, SafeCellsStay
  <2>3. \A n, j : Accounted(n, j)' = Accounted(n, j)
    BY <2>1, SafeCellsStay DEF Accounted
  <2>4. Progress'
    BY <2>1, <2>3 DEF Progress
  <2>. QED
    BY <2>1, <2>2, <2>4 DEF WalkClears
<1>. QED
  BY <1>1, <1>2, <1>3, <1>4, <1>5, <1>6 DEF Next

(* For every heap: when the walk gives no reason, nothing that encoding/json *)
(* emits of the value is other than what it can say truly, or refuses by     *)
(* itself.                                                                   *)
THEOREM WalkClearsOnlyTheSafe == Spec => []WalkClears
<1>1. CInv => WalkClears
  BY DEF CInv
<1>. QED
  BY InitCInv, NextCInv, <1>1, PTL DEF Spec

-----------------------------------------------------------------------------
(* What the reply carries is what encoding/json says truly.                  *)

(* Emission reaches the cells it starts from, and the cells those show.      *)
LEMMA ReachedCloses ==
  ASSUME NEW from
  PROVE  /\ Reached(from) \subseteq Cells
         /\ from \cap Cells \subseteq Reached(from)
         /\ \A c \in Reached(from) : Shows(c) \cap Cells \subseteq Reached(from)
  BY DEF Reached

(* It reaches nothing outside a set of cells that holds what it starts from  *)
(* and shows nothing outside itself.                                         *)
LEMMA ReachedIsLeast ==
  ASSUME NEW from, NEW S \in SUBSET Cells, from \cap Cells \subseteq S,
         \A c \in S : Shows(c) \cap Cells \subseteq S
  PROVE  Reached(from) \subseteq S
  BY DEF Reached

(* What is reached from a cell that is reached is reached.                   *)
LEMMA ReachedOnwards ==
  ASSUME NEW from, NEW c \in Reached(from)
  PROVE  Reached(Shows(c)) \subseteq Reached(from)
<1>1. /\ Reached(from) \in SUBSET Cells
      /\ Shows(c) \cap Cells \subseteq Reached(from)
      /\ \A d \in Reached(from) : Shows(d) \cap Cells \subseteq Reached(from)
  BY ReachedCloses
<1>. QED
  BY <1>1, ReachedIsLeast

(* What a cell reaches is a cell it shows, or is reached from one.           *)
LEMMA ReachedByShowing ==
  ASSUME NEW c, NEW d \in Reached(Shows(c))
  PROVE  \E e \in Shows(c) \cap Cells : d = e \/ d \in Reached(Shows(e))
<1> DEFINE S == {x \in Cells : \E e \in Shows(c) \cap Cells : x = e \/ x \in Reached(Shows(e))}
<1>1. Shows(c) \cap Cells \subseteq S
  OBVIOUS
<1>2. \A x \in S : Shows(x) \cap Cells \subseteq S
  <2> SUFFICES ASSUME NEW x \in S, NEW y \in Shows(x) \cap Cells PROVE y \in S
    OBVIOUS
  <2>1. PICK e \in Shows(c) \cap Cells : x = e \/ x \in Reached(Shows(e))
    OBVIOUS
  <2>2. y \in Reached(Shows(e))
    BY <2>1, ReachedCloses
  <2>. QED
    BY <2>1, <2>2
<1>3. S \in SUBSET Cells
  OBVIOUS
<1> HIDE DEF S
<1>4. Reached(Shows(c)) \subseteq S
  BY <1>1, <1>2, <1>3, ReachedIsLeast
<1>. QED
  BY <1>4 DEF S

(* A safe container shows safe containers and what encoding/json says truly  *)
(* or refuses, under keys it says truly.                                     *)
LEMMA SafeUnfolds ==
  ASSUME NEW c \in SafeCells
  PROVE  \A i \in DOMAIN heap[c].items : Faithful(c, i, SafeCells)
<1> DEFINE S == {d \in SafeCells : \A i \in DOMAIN heap[d].items : Faithful(d, i, SafeCells)}
<1>1. S \in SUBSET Cells
  BY DEF SafeCells
<1>2. ASSUME NEW d \in Cells, \A i \in DOMAIN heap[d].items : Faithful(d, i, S)
      PROVE  d \in S
  <2>1. \A i \in DOMAIN heap[d].items : Faithful(d, i, SafeCells)
    BY <1>2 DEF Faithful
  <2>. QED
    BY <2>1, SafeByItems
<1> HIDE DEF S
<1>3. c \in S
  BY <1>1, <1>2 DEF SafeCells
<1>. QED
  BY <1>3 DEF S

(* No safe container is reached from itself.                                 *)
LEMMA SafeMeansAcyclic ==
  ASSUME NEW c \in SafeCells
  PROVE  c \notin Reached(Shows(c))
<1> DEFINE S == {d \in SafeCells : d \notin Reached(Shows(d))}
<1>1. S \in SUBSET Cells
  BY DEF SafeCells
<1>2. ASSUME NEW d \in Cells, \A i \in DOMAIN heap[d].items : Faithful(d, i, S)
      PROVE  d \in S
  <2>1. d \in SafeCells
    <3>1. \A i \in DOMAIN heap[d].items : Faithful(d, i, SafeCells)
      BY <1>2 DEF Faithful
    <3>. QED
      BY <3>1, SafeByItems
  <2>2. Shows(d) \cap Cells \subseteq S
    BY <1>2, CellsAssumption DEF Faithful, Shows, Leaves
  <2>3. ASSUME d \in Reached(Shows(d)) PROVE FALSE
    <3>1. PICK e \in Shows(d) \cap Cells : d = e \/ d \in Reached(Shows(e))
      BY <2>3, ReachedByShowing
    <3>2. e \notin Reached(Shows(e))
      BY <2>2, <3>1
    <3>3. e \in Reached(Shows(e))
      <4>1. CASE d = e
        BY <4>1, <2>3
      <4>2. CASE d \in Reached(Shows(e))
        <5>1. Shows(d) \cap Cells \subseteq Reached(Shows(e))
          BY <4>2, ReachedCloses
        <5>. QED
          BY <3>1, <5>1
      <4>. QED
        BY <3>1, <4>1, <4>2
    <3>. QED
      BY <3>2, <3>3
  <2>. QED
    BY <2>1, <2>3
<1> HIDE DEF S
<1>3. c \in S
  BY <1>1, <1>2 DEF SafeCells
<1>. QED
  BY <1>3 DEF S

(* A value whose root is safe is said truly, unless a NaN is refused.        *)
LEMMA SafeIsSaidTruly ==
  ASSUME root \in SafeCells \cup {"plain", "nan"}, ~ MarshalRefuses
  PROVE  SaidTruly
<1>1. {root} \cap Cells \subseteq SafeCells
  BY CellsAssumption DEF Leaves
<1>2. \A c \in SafeCells : Shows(c) \cap Cells \subseteq SafeCells
  BY SafeUnfolds, CellsAssumption DEF Faithful, Shows, Leaves
<1>3. SafeCells \in SUBSET Cells
  BY DEF SafeCells
<1>4. Emitted \subseteq SafeCells
  BY <1>1, <1>2, <1>3, ReachedIsLeast DEF Emitted
<1>5. \A c \in Emitted : Shows(c) \subseteq Cells \cup {"plain", "nan"}
  BY <1>3, <1>4, SafeUnfolds DEF Faithful, Shows
<1>6. EmittedLeaves \subseteq {"plain"}
  <2>1. \A x \in UNION {Shows(c) : c \in Emitted} : x \in Cells \cup {"plain", "nan"}
    BY <1>5
  <2>2. EmittedLeaves \subseteq {"plain", "nan"}
    BY <1>3, <2>1 DEF EmittedLeaves
  <2>. QED
    BY <2>2 DEF MarshalRefuses
<1>7. \A c \in Emitted : \A i \in DOMAIN heap[c].items :
         heap[c].items[i].shown => heap[c].items[i].key # "bad"
  BY <1>4, SafeUnfolds DEF Faithful
<1>8. \A c \in Emitted : c \notin Reached(Shows(c))
  BY <1>4, SafeMeansAcyclic
<1>. QED
  BY <1>6, <1>7, <1>8 DEF SaidTruly

(* Each call's container is emitted, inside those of the calls before it; a  *)
(* reason is one; and the reply is by the reason and the marshaller.         *)
Blame ==
    /\ \A n \in 1 .. Len(stack) :
           /\ stack[n].cell \in Emitted
           /\ \A m \in 1 .. n - 1 : stack[n].cell \in Reached(Shows(stack[m].cell))
    /\ why # "" => ~ SaidTruly
    /\ pc = "replied" =>
           reply = IF why # "" \/ MarshalRefuses THEN "valueError" ELSE "value"
BInv == CInv /\ Blame

(* What is emitted depends on the heap and the root alone.                   *)
LEMMA EmissionStays ==
  ASSUME heap' = heap, root' = root
  PROVE  /\ Emitted' = Emitted /\ SaidTruly' = SaidTruly /\ MarshalRefuses' = MarshalRefuses
         /\ \A c : Shows(c)' = Shows(c)
         /\ \A from : Reached(from)' = Reached(from)
<1>1. \A c : Shows(c)' = Shows(c)
  BY DEF Shows
<1>2. \A from : Reached(from)' = Reached(from)
  BY <1>1 DEF Reached
<1>3. Emitted' = Emitted
  BY <1>2 DEF Emitted
<1>4. EmittedLeaves' = EmittedLeaves
  BY <1>1, <1>3 DEF EmittedLeaves
<1>5. SaidTruly' = SaidTruly
  BY <1>1, <1>2, <1>3, <1>4 DEF SaidTruly
<1>. QED
  BY <1>1, <1>2, <1>3, <1>4, <1>5 DEF MarshalRefuses

(* Containers of one key are one container.                                  *)
LEMMA KeysAreDistinct ==
  ASSUME IInv, NEW c \in Cells, NEW d \in Cells, Key(c) = Key(d)
  PROVE  c = d
<1>1. PICK v \in Values : heap = v.heap
  BY DEF IInv
<1>2. heap[c].addr = heap[d].addr /\ heap[c].kind = heap[d].kind /\ heap[c].len = heap[d].len
  BY DEF Key
<1>. QED
  BY <1>1, <1>2, ValuesAssumption

(* Before the walk nothing is blamed.                                        *)
LEMMA InitBInv == Init => BInv
<1> SUFFICES ASSUME Init PROVE Blame
  BY InitCInv DEF BInv
<1>1. Len(stack) = 0
  BY EmptySeq DEF Init
<1>. QED
  BY <1>1, NoPlace DEF Init, Blame

(* A step that decides blames what is there.                                 *)
LEMMA DecideBlames ==
  ASSUME NEW r, Decide(r), UNCHANGED <<heap, root, reply>>, r # "" => ~ SaidTruly
  PROVE  Blame'
<1>1. Len(stack') = 0 /\ why' = r /\ pc' = "decided"
  BY EmptySeq DEF Decide
<1>2. SaidTruly' = SaidTruly
  BY EmissionStays
<1>. QED
  BY <1>1, <1>2, NoPlace DEF Blame

(* Every step keeps the blame where it belongs.                              *)
LEMMA NextBInv == BInv /\ [Next]_vars => BInv'
<1> SUFFICES ASSUME BInv, [Next]_vars PROVE Blame'
  BY NextCInv DEF BInv
<1> USE DEF BInv, CInv
<1>1. CASE StartAtLeaf
  <2>1. root \in Leaves \ Cells
    BY <1>1, CellsAssumption DEF StartAtLeaf
  <2>2. LeafReason(root) # "" => root # "plain"
    BY DEF LeafReason, Reasons
  <2>3. LeafReason(root) # "" => ~ SaidTruly
    BY <2>1, <2>2 DEF SaidTruly, EmittedLeaves
  <2>. QED
    BY <1>1, <2>3, DecideBlames DEF StartAtLeaf
<1>2. CASE StartAtCell
  <2>1. /\ root \in Cells /\ stack' = <<Frame(root)>> /\ UNCHANGED <<heap, root, why>>
        /\ pc' = "walk" /\ pc = "start"
    BY <1>2 DEF StartAtCell
  <2>2. root \in Emitted
    BY <2>1, ReachedCloses DEF Emitted
  <2>3. Len(stack') = 1 /\ stack'[1].cell = root
    BY <2>1 DEF Frame
  <2>4. why = ""
    BY <2>1 DEF Progress
  <2>5. Emitted' = Emitted
    BY <2>1, EmissionStays
  <2>6. \A n \in 1 .. Len(stack') : n = 1 /\ 1 .. n - 1 = {}
    BY <2>3
  <2>. QED
    BY <2>1, <2>2, <2>3, <2>4, <2>5, <2>6 DEF Blame
<1>3. CASE TakeItem
  <2>1. pc = "walk" /\ stack # <<>> /\ UNCHANGED <<heap, root, reply>> /\ why = ""
    BY <1>3 DEF TakeItem, IInv, TypeOK, Progress
  <2>2. PICK i \in Candidates : Skip(i) \/ BadKey(i) \/ BadLeaf(i) \/ Cycle(i) \/ Enter(i)
    BY <1>3 DEF TakeItem
  <2> DEFINE len == Len(stack)
             top == stack[len].cell
  <2>3. stack \in Seq(Frames) /\ len \in Nat /\ len > 0 /\ len \in 1 .. len
    <3>1. stack \in Seq(Frames) /\ len \in Nat /\ len > 0
      BY <2>1, StackType
    <3>. QED
      BY <3>1
  <2>4. \A n \in 1 .. len : stack[n].cell \in Cells
    <3> SUFFICES ASSUME NEW n \in 1 .. len PROVE stack[n].cell \in Cells
      OBVIOUS
    <3>1. stack[n] \in Frames
      BY <2>3, ElementOfSeq
    <3>. QED
      BY <3>1 DEF Frames
  <2>5. /\ Taken(i) \in Seq(Frames)
        /\ Len(Taken(i)) = len
        /\ \A n \in 1 .. len : Taken(i)[n].cell = stack[n].cell
    BY <2>1, TakenKeepsCells
  <2>6. i \in DOMAIN heap[top].items /\ Item(i) = heap[top].items[i]
    BY <2>3 DEF Candidates, TopFrame, Item, IInv, TypeOK
  <2>7. Item(i).shown => Item(i).val \in Shows(top)
    BY <2>6 DEF Shows
  <2>8. /\ top \in Emitted
        /\ \A n \in 1 .. len :
               /\ stack[n].cell \in Emitted
               /\ \A m \in 1 .. n - 1 : stack[n].cell \in Reached(Shows(stack[m].cell))
    BY <2>3 DEF Blame
  <2> HIDE DEF top
  <2>9. CASE BadKey(i)
    <3>1. ~ SaidTruly
      BY <2>6, <2>8, <2>9 DEF BadKey, SaidTruly
    <3>. QED
      BY <2>1, <2>9, <3>1, DecideBlames DEF BadKey
  <2>10. CASE BadLeaf(i)
    <3>1. Item(i).val \in EmittedLeaves
      BY <2>7, <2>8, <2>10, CellsAssumption DEF BadLeaf, EmittedLeaves, Leaves
    <3>2. ~ SaidTruly
      BY <2>10, <3>1 DEF BadLeaf, SaidTruly
    <3>. QED
      BY <2>1, <2>10, <3>2, DecideBlames DEF BadLeaf
  <2>11. CASE Cycle(i)
    <3> DEFINE c == Item(i).val
    <3>1. c \in Cells /\ c \in Shows(top) /\ Key(c) \in onPath
      BY <2>7, <2>11 DEF Cycle, Refers
    <3>2. PICK n \in 1 .. len : Key(c) = Key(stack[n].cell)
      BY <3>1 DEF IInv, PathIsTheStack
    <3>3. stack[n].cell \in Cells
      BY <2>4, <3>2
    <3> HIDE DEF c
    <3>4. c = stack[n].cell
      BY <3>1, <3>2, <3>3, KeysAreDistinct
    <3>5. c \in Reached(Shows(c))
      <4>1. CASE n = len
        BY <4>1, <3>1, <3>4, ReachedCloses DEF top
      <4>2. CASE n # len
        <5>1. n \in 1 .. len - 1
          BY <4>2, <2>3, <3>2
        <5>2. top \in Reached(Shows(stack[n].cell))
          BY <5>1, <2>3, <2>8 DEF top
        <5>. QED
          BY <5>2, <3>1, <3>4, ReachedCloses
      <4>. QED
        BY <4>1, <4>2
    <3>6. c \in Emitted
      BY <2>8, <3>2, <3>4
    <3>7. ~ SaidTruly
      BY <3>5, <3>6 DEF SaidTruly
    <3>. QED
      BY <2>1, <2>11, <3>7, DecideBlames DEF Cycle
  <2>12. /\ Emitted' = Emitted /\ SaidTruly' = SaidTruly
         /\ \A c : Shows(c)' = Shows(c)
         /\ \A from : Reached(from)' = Reached(from)
    BY <2>1, EmissionStays
  <2>13. CASE Skip(i)
    <3>1. stack' = Taken(i) /\ why' = why /\ pc' = pc
      BY <2>13 DEF Skip
    <3>2. \A n \in 1 .. len : \A m \in 1 .. n - 1 : m \in 1 .. len
      BY <2>3
    <3>3. /\ Len(stack') = len
          /\ \A n \in 1 .. len : stack'[n].cell = stack[n].cell
      BY <3>1, <2>5
    <3>. QED
      BY <3>1, <3>2, <3>3, <2>1, <2>8, <2>12 DEF Blame
  <2>14. CASE Enter(i)
    <3> DEFINE c == Item(i).val
    <3>1. /\ c \in Cells /\ c \in Shows(top)
          /\ stack' = Append(Taken(i), Frame(c)) /\ why' = why /\ pc' = pc
      BY <2>7, <2>14 DEF Enter, Refers
    <3> HIDE DEF c
    <3>2. Frame(c) \in Frames /\ Frame(c).cell = c
      BY <3>1, FrameType
    <3>3. /\ Len(stack') = len + 1 /\ stack'[len + 1].cell = c
          /\ \A n \in 1 .. len : stack'[n].cell = stack[n].cell
      BY <3>1, <3>2, <2>5, AppendProperties
    <3>4. c \in Emitted
      BY <3>1, <2>8, ReachedCloses DEF Emitted
    <3>5. \A m \in 1 .. len : c \in Reached(Shows(stack[m].cell))
      <4> SUFFICES ASSUME NEW m \in 1 .. len PROVE c \in Reached(Shows(stack[m].cell))
        OBVIOUS
      <4>1. CASE m = len
        BY <4>1, <3>1, ReachedCloses DEF top
      <4>2. CASE m # len
        <5>1. m \in 1 .. len - 1
          BY <4>2, <2>3
        <5>2. top \in Reached(Shows(stack[m].cell))
          BY <5>1, <2>3, <2>8 DEF top
        <5>. QED
          BY <5>2, <3>1, ReachedCloses
      <4>. QED
        BY <4>1, <4>2
    <3>6. ASSUME NEW n \in 1 .. len + 1
          PROVE  /\ stack'[n].cell \in Emitted
                 /\ \A m \in 1 .. n - 1 : stack'[n].cell \in Reached(Shows(stack'[m].cell))
      <4>1. CASE n = len + 1
        <5>1. n - 1 = len
          BY <4>1, <2>3
        <5>. QED
          BY <4>1, <5>1, <3>3, <3>4, <3>5
      <4>2. CASE n # len + 1
        <5>1. n \in 1 .. len /\ \A m \in 1 .. n - 1 : m \in 1 .. len
          BY <4>2, <3>6, <2>3
        <5>. QED
          BY <5>1, <3>3, <2>8
      <4>. QED
        BY <4>1, <4>2
    <3>. QED
      BY <3>1, <3>3, <3>6, <2>1, <2>12 DEF Blame
  <2>. QED
    BY <2>2, <2>9, <2>10, <2>11, <2>13, <2>14
<1>4. CASE Leave
  <2> DEFINE n0 == Len(stack) - 1
  <2>1. /\ pc = "walk" /\ stack' = SubSeq(stack, 1, n0) /\ pc' # "replied"
        /\ UNCHANGED <<heap, root, why, reply>>
    BY <1>4 DEF Leave
  <2>2. stack # <<>>
    BY <2>1 DEF IInv, TypeOK
  <2>3. stack \in Seq(Frames) /\ n0 \in Nat /\ Len(stack) = n0 + 1
    BY <2>2, StackType
  <2>4. \A n \in 1 .. n0 + 1 : stack[n] \in Frames
    BY <2>3, ElementOfSeq
  <2> HIDE DEF n0
  <2>5. Len(stack') = n0 /\ \A n \in 1 .. n0 : stack'[n] = stack[n]
    BY <2>1, <2>3, <2>4, SubSeqProperties
  <2>6. /\ Emitted' = Emitted /\ SaidTruly' = SaidTruly
        /\ \A c : Shows(c)' = Shows(c)
        /\ \A from : Reached(from)' = Reached(from)
    BY <2>1, EmissionStays
  <2>7. \A n \in 1 .. n0 : n \in 1 .. n0 + 1 /\ \A m \in 1 .. n - 1 : m \in 1 .. n0
    BY <2>3
  <2>. QED
    BY <2>1, <2>3, <2>5, <2>6, <2>7 DEF Blame
<1>5. CASE Reply
  <2>1. /\ UNCHANGED <<heap, root, stack, why>>
        /\ reply' = IF why # "" \/ MarshalRefuses THEN "valueError" ELSE "value"
    BY <1>5 DEF Reply
  <2>2. /\ Emitted' = Emitted /\ SaidTruly' = SaidTruly /\ MarshalRefuses' = MarshalRefuses
        /\ \A c : Shows(c)' = Shows(c)
        /\ \A from : Reached(from)' = Reached(from)
    BY <2>1, EmissionStays
  <2>. QED
    BY <2>1, <2>2 DEF Blame
<1>6. CASE UNCHANGED vars
  <2>1. UNCHANGED <<heap, root, stack, why, pc, reply>>
    BY <1>6 DEF vars
  <2>2. /\ Emitted' = Emitted /\ SaidTruly' = SaidTruly /\ MarshalRefuses' = MarshalRefuses
        /\ \A c : Shows(c)' = Shows(c)
        /\ \A from : Reached(from)' = Reached(from)
    BY <2>1, EmissionStays
  <2>. QED
    BY <2>1, <2>2 DEF Blame
<1>. QED
  BY <1>1, <1>2, <1>3, <1>4, <1>5, <1>6 DEF Next

(* For every heap: the reply carries the value exactly when encoding/json    *)
(* says it truly: no leaf or key it would corrupt or refuse is emitted, and  *)
(* no container is inside itself, however deep and however often shared.     *)
THEOREM RepliesSayTheValueTruly == Spec => []ValueIffSaidTruly
<1>1. BInv => ValueIffSaidTruly
  <2> SUFFICES ASSUME BInv, pc = "replied" PROVE reply = "value" <=> SaidTruly
    BY DEF ValueIffSaidTruly
  <2>1. reply = IF why # "" \/ MarshalRefuses THEN "valueError" ELSE "value"
    BY DEF BInv, Blame
  <2>2. CASE why # ""
    BY <2>1, <2>2 DEF BInv, Blame
  <2>3. CASE MarshalRefuses
    BY <2>1, <2>3 DEF MarshalRefuses, SaidTruly
  <2>4. CASE why = "" /\ ~ MarshalRefuses
    <3>1. root \in SafeCells \cup {"plain", "nan"}
      BY <2>4 DEF BInv, CInv, WalkClears
    <3>. QED
      BY <2>1, <2>4, <3>1, SafeIsSaidTruly
  <2>. QED
    BY <2>2, <2>3, <2>4
<1>. QED
  BY InitBInv, NextBInv, <1>1, PTL DEF Spec

-----------------------------------------------------------------------------
(* The reason is the first: the walk goes through the paths in the order     *)
(* encoding/json emits them.                                                 *)

(* A set of numbers that is not empty has a least one.                       *)
LEMMA LeastNumber ==
  ASSUME NEW T \in SUBSET Nat, T # {}
  PROVE  \E x \in T : \A y \in T : x <= y
<1>1. PICK x \in T : \A y \in T : ~ (<<y, x>> \in OpToRel(<, Nat))
  BY NatLessThanWellFounded, WFMin
<1>2. \A y \in T : ~(y < x)
  BY <1>1 DEF OpToRel
<1>. QED
  BY <1>2

(* One step along a path.                                                    *)
Onward(v, i) ==
    IF v \in Cells /\ i \in DOMAIN heap[v].items /\ heap[v].items[i].shown
    THEN heap[v].items[i].val ELSE "absent"

(* The steps along a path are the recursion they are written as.             *)
LEMMA AlongUnfolds ==
  ASSUME NEW p \in Seq(Nat)
  PROVE  /\ Along(p)[0] = root
         /\ \A n \in 1 .. Len(p) : Along(p)[n] = Onward(Along(p)[n - 1], p[n])
<1> DEFINE Body(f, n) == IF n = 0 THEN root ELSE Onward(f[n - 1], p[n])
           Walks(f, m) == f = [n \in 0 .. m |-> Body(f, n)]
           T == {m \in Nat : ~ \E f : Walks(f, m)}
<1>1. Len(p) \in Nat
  BY LenProperties
<1>2. T = {}
  <2> SUFFICES ASSUME T # {} PROVE FALSE
    OBVIOUS
  <2>1. PICK m \in T : \A k \in T : m <= k
    <3>1. T \in SUBSET Nat
      OBVIOUS
    <3>. QED
      BY <3>1, LeastNumber
  <2>2. m \in Nat /\ ~ \E f : Walks(f, m)
    BY <2>1
  <2>5. \A k \in Nat : k \notin T => \E f : Walks(f, k)
    OBVIOUS
  <2> HIDE DEF T
  <2>3. CASE m = 0
    <3> DEFINE f == [n \in 0 .. 0 |-> root]
    <3>1. \A n \in 0 .. 0 : n = 0
      OBVIOUS
    <3>2. Walks(f, 0)
      BY <3>1
    <3>. QED
      BY <2>2, <2>3, <3>2
  <2>4. CASE m # 0
    <3>1. m - 1 \in Nat /\ m - 1 \notin T
      BY <2>1, <2>2, <2>4
    <3>2. PICK f : Walks(f, m - 1)
      BY <3>1, <2>5
    <3> DEFINE g == [n \in 0 .. m |-> IF n = m THEN Onward(f[m - 1], p[m]) ELSE f[n]]
    <3>3. /\ \A n \in 0 .. m - 1 : n \in 0 .. m /\ n # m /\ n \in Int
          /\ \A n \in 0 .. m : n = m \/ n \in 0 .. m - 1
          /\ \A n \in 0 .. m : n # 0 => n - 1 \in 0 .. m - 1
          /\ m \in 0 .. m
      BY <2>2, <3>1
    <3>4. /\ \A n \in 0 .. m - 1 : g[n] = f[n]
          /\ g[m] = Onward(f[m - 1], p[m])
      BY <3>3
    <3>5. \A n \in 0 .. m - 1 : f[n] = Body(f, n)
      BY <3>2
    <3>6. g = [n \in 0 .. m |-> g[n]]
      OBVIOUS
    <3> HIDE DEF g
    <3>7. \A n \in 0 .. m : n # 0 => g[n - 1] = f[n - 1]
      BY <3>3, <3>4
    <3>8. \A n \in 0 .. m : g[n] = Body(g, n)
      <4> SUFFICES ASSUME NEW n \in 0 .. m PROVE g[n] = Body(g, n)
        OBVIOUS
      <4>1. CASE n = m
        BY <4>1, <2>4, <3>4, <3>7
      <4>2. CASE n \in 0 .. m - 1
        BY <4>2, <3>4, <3>5, <3>7
      <4>. QED
        BY <3>3, <4>1, <4>2
    <3>9. Walks(g, m)
      BY <3>6, <3>8
    <3>. QED
      BY <2>2, <3>9
  <2>. QED
    BY <2>3, <2>4
<1>3. PICK f : Walks(f, Len(p))
  BY <1>1, <1>2
<1> DEFINE A == CHOOSE g : g = [n \in 0 .. Len(p) |->
                  IF n = 0 THEN root
                  ELSE IF /\ g[n - 1] \in Cells
                          /\ p[n] \in DOMAIN heap[g[n - 1]].items
                          /\ heap[g[n - 1]].items[p[n]].shown
                       THEN heap[g[n - 1]].items[p[n]].val
                       ELSE "absent"]
<1>4. A = [n \in 0 .. Len(p) |-> Body(A, n)]
  BY <1>3 DEF Onward
<1>5. Along(p) = A
  BY DEF Along
<1> HIDE DEF A
<1>6. \A n \in 0 .. Len(p) : Along(p)[n] = Body(Along(p), n)
  BY <1>4, <1>5
<1>7. 0 \in 0 .. Len(p) /\ \A n \in 1 .. Len(p) : n \in 0 .. Len(p) /\ n # 0
  BY <1>1
<1>. QED
  BY <1>6, <1>7

(* Paths that begin alike lead alike.                                        *)
LEMMA AlongAgrees ==
  ASSUME NEW p \in Seq(Nat), NEW q \in Seq(Nat), NEW k \in Nat,
         k <= Len(p), k <= Len(q), \A m \in 1 .. k : q[m] = p[m]
  PROVE  \A m \in 0 .. k : Along(q)[m] = Along(p)[m]
<1> DEFINE T == {m \in 0 .. k : Along(q)[m] # Along(p)[m]}
<1> SUFFICES ASSUME T # {} PROVE FALSE
  OBVIOUS
<1>0. Len(p) \in Nat /\ Len(q) \in Nat
  BY LenProperties
<1>1. PICK m \in T : \A j \in T : m <= j
  <2>1. T \in SUBSET Nat
    OBVIOUS
  <2>. QED
    BY <2>1, LeastNumber
<1>2. m \in 0 .. k /\ Along(q)[m] # Along(p)[m]
  BY <1>1
<1>3. CASE m = 0
  BY <1>2, <1>3, AlongUnfolds
<1>4. CASE m # 0
  <2>1. m - 1 \in 0 .. k /\ m - 1 \notin T
    BY <1>1, <1>2, <1>4
  <2>2. m \in 1 .. k /\ m \in 1 .. Len(p) /\ m \in 1 .. Len(q)
    BY <1>0, <1>2, <1>4
  <2>3. Along(q)[m - 1] = Along(p)[m - 1] /\ q[m] = p[m]
    BY <2>1, <2>2
  <2>. QED
    BY <1>2, <2>2, <2>3, AlongUnfolds
<1>. QED
  BY <1>3, <1>4

(* A path that has come to no container leads nowhere from there.            *)
LEMMA NowhereFrom ==
  ASSUME NEW q \in Seq(Nat), NEW n \in 0 .. Len(q), Along(q)[n] \notin Cells
  PROVE  \A m \in n + 1 .. Len(q) : Along(q)[m] = "absent"
<1> DEFINE T == {m \in n + 1 .. Len(q) : Along(q)[m] # "absent"}
<1> SUFFICES ASSUME T # {} PROVE FALSE
  OBVIOUS
<1>0. Len(q) \in Nat
  BY LenProperties
<1>1. PICK m \in T : \A j \in T : m <= j
  <2>1. T \in SUBSET Nat
    BY <1>0
  <2>. QED
    BY <2>1, LeastNumber
<1>2. m \in n + 1 .. Len(q) /\ Along(q)[m] # "absent"
  BY <1>1
<1>3. m \in 1 .. Len(q) /\ m - 1 \in Nat /\ (m - 1 = n \/ m - 1 \in n + 1 .. Len(q))
  BY <1>0, <1>2
<1>4. Along(q)[m - 1] \notin Cells
  <2>1. CASE m - 1 = n
    BY <2>1
  <2>2. CASE m - 1 \in n + 1 .. Len(q)
    <3>1. m - 1 \notin T
      BY <1>1, <1>3
    <3>. QED
      BY <2>2, <3>1, CellsAssumption
  <2>. QED
    BY <1>3, <2>1, <2>2
<1>5. Along(q)[m] = "absent"
  BY <1>3, <1>4, AlongUnfolds DEF Onward
<1>. QED
  BY <1>2, <1>5

(* A path that leaves the value, or goes on from a leaf, has no reason.      *)
LEMMA NoReasonBeyond ==
  ASSUME NEW q \in Seq(Nat), NEW n \in 0 .. Len(q),
         \/ Along(q)[n] = "absent"
         \/ Along(q)[n] \notin Cells /\ n < Len(q)
  PROVE  ReasonAt(q) = ""
<1>0. Len(q) \in Nat
  BY LenProperties
<1>1. Along(q)[Len(q)] = "absent"
  <2>1. CASE n = Len(q)
    BY <1>0, <2>1
  <2>2. CASE n < Len(q)
    <3>1. Along(q)[n] \notin Cells /\ Len(q) \in n + 1 .. Len(q)
      BY <1>0, <2>2, CellsAssumption
    <3>. QED
      BY <3>1, NowhereFrom
  <2>. QED
    BY <1>0, <2>1, <2>2
<1>2. Along(q)[Len(q)] \notin Cells /\ Along(q)[Len(q)] \notin Leaves
  BY <1>1, CellsAssumption DEF Leaves
<1>. QED
  BY <1>1, <1>2 DEF ReasonAt

(* What has been taken of a frame, and where the walk stands: p leads        *)
(* through the frames of s, and everything emitted before has no reason.     *)
Done(f) == DOMAIN heap[f.cell].items \ f.left

OnRoute(s, p) ==
    /\ s[1].cell = root
    /\ \A n \in 1 .. Len(p) :
           /\ p[n] \in Done(s[n])
           /\ heap[s[n].cell].items[p[n]].shown
           /\ heap[s[n].cell].items[p[n]].key # "bad"
           /\ heap[s[n].cell].items[p[n]].val = s[n + 1].cell

InOrder(s, p) ==
    \A n \in 1 .. Len(s) : heap[s[n].cell].kind # "otherMap" =>
        /\ \A j \in Done(s[n]), l \in s[n].left : j < l
        /\ n <= Len(p) => \A j \in Done(s[n]) : j <= p[n]

(* q parts from p at an item that the frame there has done with.             *)
Parts(s, p, q, n) ==
    /\ n <= Len(q)
    /\ \A m \in 1 .. n - 1 : q[m] = p[m]
    /\ q[n] \in Done(s[n])
    /\ n <= Len(p) => q[n] # p[n]

Clear(s, p) ==
    \A q \in Seq(Nat) : \A n \in 1 .. Len(s) : Parts(s, p, q, n) => ReasonAt(q) = ""

Route(s, p) ==
    /\ p \in Seq(Nat) /\ Len(s) = Len(p) + 1
    /\ OnRoute(s, p) /\ InOrder(s, p) /\ Clear(s, p)

(* A stack of calls: no container twice.                                     *)
Calls(s) ==
    /\ s \in Seq(Frames)
    /\ \A m, n \in 1 .. Len(s) : s[m].cell = s[n].cell => m = n

HeapOK ==
    \A c \in Cells :
        /\ DOMAIN heap[c].items \subseteq Nat
        /\ \A i \in DOMAIN heap[c].items : heap[c].items[i].val \in Cells \cup Leaves

LEMMA StateFacts ==
  ASSUME IInv
  PROVE  HeapOK /\ Calls(stack)
<1>1. PICK v \in Values : heap = v.heap
  BY DEF IInv
<1>2. HeapOK
  BY <1>1, ValuesAssumption DEF HeapOK
<1>3. stack \in Seq(Frames)
  BY DEF IInv, TypeOK, Frames
<1>4. \A m, n \in 1 .. Len(stack) : stack[m].cell = stack[n].cell => m = n
  BY DEF IInv, PathIsTheStack
<1>. QED
  BY <1>2, <1>3, <1>4 DEF Calls

(* The route leads to the containers of the calls.                           *)
LEMMA RouteLeads ==
  ASSUME NEW s, NEW p, Calls(s), Route(s, p)
  PROVE  /\ Len(p) \in Nat /\ Len(s) = Len(p) + 1
         /\ \A n \in 1 .. Len(s) : s[n].cell \in Cells
         /\ \A n \in 0 .. Len(p) : Along(p)[n] = s[n + 1].cell
<1>0. p \in Seq(Nat) /\ Len(p) \in Nat /\ Len(s) = Len(p) + 1 /\ s[1].cell = root
  BY LenProperties DEF Route, OnRoute
<1>1. \A n \in 1 .. Len(s) : s[n].cell \in Cells
  <2>1. \A n \in 1 .. Len(s) : s[n] \in Frames
    BY ElementOfSeq DEF Calls
  <2>. QED
    BY <2>1 DEF Frames
<1>2. \A n \in 0 .. Len(p) : Along(p)[n] = s[n + 1].cell
  <2> DEFINE T == {n \in 0 .. Len(p) : Along(p)[n] # s[n + 1].cell}
  <2> SUFFICES ASSUME T # {} PROVE FALSE
    OBVIOUS
  <2>1. PICK m \in T : \A j \in T : m <= j
    <3>1. T \in SUBSET Nat
      OBVIOUS
    <3>. QED
      BY <3>1, LeastNumber
  <2>2. m \in 0 .. Len(p) /\ Along(p)[m] # s[m + 1].cell
    BY <2>1
  <2>3. CASE m = 0
    BY <1>0, <2>2, <2>3, AlongUnfolds
  <2>4. CASE m # 0
    <3>1. m - 1 \in 0 .. Len(p) /\ m \in 1 .. Len(p) /\ m \in 1 .. Len(s) /\ (m - 1) + 1 = m
      BY <1>0, <2>2, <2>4
    <3>2. m - 1 \notin T
      BY <2>1, <3>1
    <3>3. Along(p)[m - 1] = s[m].cell
      BY <3>1, <3>2
    <3>4. /\ p[m] \in DOMAIN heap[s[m].cell].items
          /\ heap[s[m].cell].items[p[m]].shown
          /\ heap[s[m].cell].items[p[m]].val = s[m + 1].cell
      BY <3>1 DEF Route, OnRoute, Done
    <3>5. Along(p)[m] = Onward(s[m].cell, p[m])
      BY <1>0, <3>1, <3>3, AlongUnfolds
    <3>6. s[m].cell \in Cells
      BY <1>1, <3>1
    <3>. QED
      BY <2>2, <3>4, <3>5, <3>6 DEF Onward
  <2>. QED
    BY <2>3, <2>4
<1>. QED
  BY <1>0, <1>1, <1>2

(* So does a path that follows the route, as far as it does.                 *)
LEMMA FollowerLeads ==
  ASSUME NEW s, NEW p, Calls(s), Route(s, p), NEW q \in Seq(Nat),
         NEW k \in Nat, k <= Len(p), k <= Len(q), \A m \in 1 .. k : q[m] = p[m]
  PROVE  /\ \A m \in 0 .. k : Along(q)[m] = s[m + 1].cell
         /\ k < Len(q) => Along(q)[k + 1] = Onward(s[k + 1].cell, q[k + 1])
<1>1. p \in Seq(Nat) /\ Len(p) \in Nat /\ Len(q) \in Nat
  BY LenProperties DEF Route
<1>2. \A m \in 0 .. k : Along(q)[m] = Along(p)[m]
  BY <1>1, AlongAgrees
<1>3. \A m \in 0 .. k : Along(q)[m] = s[m + 1].cell
  BY <1>1, <1>2, RouteLeads
<1>4. ASSUME k < Len(q) PROVE Along(q)[k + 1] = Onward(s[k + 1].cell, q[k + 1])
  <2>1. k + 1 \in 1 .. Len(q) /\ (k + 1) - 1 = k /\ k \in 0 .. k
    BY <1>1, <1>4
  <2>2. Along(q)[k + 1] = Onward(Along(q)[(k + 1) - 1], q[k + 1])
    BY <2>1, AlongUnfolds
  <2>. QED
    BY <1>3, <2>1, <2>2
<1>. QED
  BY <1>3, <1>4

(* The route itself has no reason, nor has any place on it.                  *)
LEMMA RouteIsClean ==
  ASSUME NEW s, NEW p, Calls(s), Route(s, p), NEW q \in Seq(Nat),
         Len(q) <= Len(p), \A m \in 1 .. Len(q) : q[m] = p[m]
  PROVE  ReasonAt(q) = ""
<1> DEFINE n == Len(q)
<1>1. n \in Nat /\ Len(p) \in Nat /\ Len(s) = Len(p) + 1
  BY LenProperties, RouteLeads
<1>2. \A m \in 0 .. n : Along(q)[m] = s[m + 1].cell /\ s[m + 1].cell \in Cells
  <2>1. \A m \in 0 .. n : Along(q)[m] = s[m + 1].cell
    <3>1. n \in Nat /\ n <= Len(p) /\ n <= Len(q) /\ \A m \in 1 .. n : q[m] = p[m]
      BY <1>1
    <3> HIDE DEF n
    <3>. QED
      BY <3>1, FollowerLeads
  <2>2. \A m \in 0 .. n : m + 1 \in 1 .. Len(s)
    BY <1>1
  <2>. QED
    BY <2>1, <2>2, RouteLeads
<1>3. n \in 0 .. n
  BY <1>1
<1>4. Along(q)[n] # "absent" /\ Along(q)[n] \notin Leaves
  BY <1>2, <1>3, CellsAssumption
<1>5. ASSUME n > 0 PROVE heap[Along(q)[n - 1]].items[q[n]].key # "bad"
  <2>1. n \in 1 .. Len(p) /\ n \in 1 .. n /\ n - 1 \in 0 .. n /\ (n - 1) + 1 = n
    BY <1>1, <1>5
  <2>2. Along(q)[n - 1] = s[n].cell /\ q[n] = p[n]
    BY <1>2, <2>1
  <2>. QED
    BY <2>1, <2>2 DEF Route, OnRoute
<1>6. \A k \in 0 .. n - 1 : Along(q)[k] # Along(q)[n]
  <2> SUFFICES ASSUME NEW k \in 0 .. n - 1 PROVE Along(q)[k] # Along(q)[n]
    OBVIOUS
  <2>1. k \in 0 .. n /\ k + 1 \in 1 .. Len(s) /\ n + 1 \in 1 .. Len(s) /\ k + 1 # n + 1
    BY <1>1
  <2>2. s[k + 1].cell # s[n + 1].cell
    BY <2>1 DEF Calls
  <2>. QED
    BY <1>2, <1>3, <2>1, <2>2
<1>. QED
  BY <1>4, <1>5, <1>6 DEF ReasonAt

(* A path that leaves a container by no item of it has no reason.            *)
LEMMA NoPlaceThere ==
  ASSUME NEW s, NEW p, Calls(s), Route(s, p), NEW q \in Seq(Nat),
         NEW n \in 1 .. Len(s), n <= Len(q), \A m \in 1 .. n - 1 : q[m] = p[m],
         Onward(s[n].cell, q[n]) = "absent"
  PROVE  ReasonAt(q) = ""
<1>1. Len(q) \in Nat /\ Len(p) \in Nat /\ Len(s) = Len(p) + 1 /\ n - 1 \in Nat
      /\ n - 1 <= Len(p) /\ n - 1 < Len(q) /\ (n - 1) + 1 = n /\ n \in 0 .. Len(q)
  BY LenProperties, RouteLeads
<1>2. Along(q)[n] = Onward(s[n].cell, q[n])
  <2> DEFINE k == n - 1
  <2>1. k \in Nat /\ k <= Len(p) /\ k < Len(q) /\ k <= Len(q) /\ k + 1 = n
        /\ \A m \in 1 .. k : q[m] = p[m]
    BY <1>1
  <2> HIDE DEF k
  <2>2. Along(q)[k + 1] = Onward(s[k + 1].cell, q[k + 1])
    BY <2>1, FollowerLeads
  <2>. QED
    BY <2>1, <2>2
<1>. QED
  BY <1>1, <1>2, NoReasonBeyond

(* The reason at an item of the container being walked.                      *)
LEMMA ItemsReason ==
  ASSUME NEW s, NEW p, Calls(s), Route(s, p), HeapOK, NEW q \in Seq(Nat),
         Len(q) = Len(s), \A m \in 1 .. Len(p) : q[m] = p[m],
         NEW item, item = heap[s[Len(s)].cell].items[q[Len(q)]],
         q[Len(q)] \in DOMAIN heap[s[Len(s)].cell].items, item.shown
  PROVE  /\ item.key = "bad" => ReasonAt(q) = "nonUTF8"
         /\ item.key # "bad" /\ item.val \in Leaves => ReasonAt(q) = LeafReason(item.val)
         /\ /\ item.key # "bad" /\ item.val \notin Leaves
            /\ \E m \in 1 .. Len(s) : s[m].cell = item.val
            => ReasonAt(q) = "cycle"
<1> DEFINE n == Len(q)
<1>1. n \in Nat /\ Len(p) \in Nat /\ n = Len(p) + 1 /\ n - 1 = Len(p) /\ n > 0
      /\ Len(p) < Len(q) /\ Len(p) <= Len(q)
  BY LenProperties, RouteLeads
<1>2. s[n].cell \in Cells
  BY <1>1, RouteLeads
<1>3. /\ \A m \in 0 .. Len(p) : Along(q)[m] = s[m + 1].cell
      /\ Along(q)[Len(p) + 1] = Onward(s[Len(p) + 1].cell, q[Len(p) + 1])
  <2> DEFINE k == Len(p)
  <2>1. k \in Nat /\ k <= Len(p) /\ k < Len(q) /\ k <= Len(q) /\ \A m \in 1 .. k : q[m] = p[m]
    BY <1>1
  <2> HIDE DEF k
  <2>2. /\ \A m \in 0 .. k : Along(q)[m] = s[m + 1].cell
        /\ k < Len(q) => Along(q)[k + 1] = Onward(s[k + 1].cell, q[k + 1])
    BY <2>1, FollowerLeads
  <2>. QED
    BY <2>1, <2>2 DEF k
<1>4. Along(q)[n] = item.val
  BY <1>1, <1>2, <1>3 DEF Onward
<1>5. item.val \in Cells \cup Leaves
  BY <1>1, <1>2 DEF HeapOK
<1>6. Along(q)[n] # "absent"
  BY <1>4, <1>5, CellsAssumption DEF Leaves
<1>7. Along(q)[n - 1] = s[n].cell
  <2>1. Len(p) \in 0 .. Len(p)
    BY <1>1
  <2>. QED
    BY <1>1, <1>3, <2>1
<1>8. (\E k \in 0 .. n - 1 : Along(q)[k] = Along(q)[n])
        <=> \E m \in 1 .. Len(s) : s[m].cell = item.val
  <2>1. ASSUME NEW k \in 0 .. n - 1, Along(q)[k] = Along(q)[n]
        PROVE  \E m \in 1 .. Len(s) : s[m].cell = item.val
    <3>1. k + 1 \in 1 .. Len(s) /\ k \in 0 .. Len(p)
      BY <1>1
    <3>. QED
      BY <1>3, <1>4, <2>1, <3>1
  <2>2. ASSUME NEW m \in 1 .. Len(s), s[m].cell = item.val
        PROVE  \E k \in 0 .. n - 1 : Along(q)[k] = Along(q)[n]
    <3>1. m - 1 \in 0 .. n - 1 /\ m - 1 \in 0 .. Len(p) /\ (m - 1) + 1 = m
      BY <1>1
    <3>2. Along(q)[m - 1] = s[m].cell
      BY <1>3, <3>1
    <3>. QED
      BY <1>4, <2>2, <3>1, <3>2
  <2>. QED
    BY <2>1, <2>2
<1>9. heap[Along(q)[n - 1]].items[q[n]] = item
  BY <1>1, <1>7
<1> HIDE DEF n
<1>10. ReasonAt(q) =
         IF Along(q)[n] = "absent" THEN ""
         ELSE IF n > 0 /\ heap[Along(q)[n - 1]].items[q[n]].key = "bad" THEN "nonUTF8"
         ELSE IF Along(q)[n] \in Leaves THEN LeafReason(Along(q)[n])
         ELSE IF \E k \in 0 .. n - 1 : Along(q)[k] = Along(q)[n] THEN "cycle" ELSE ""
  BY DEF ReasonAt, n
<1>. QED
  BY <1>1, <1>4, <1>6, <1>8, <1>9, <1>10

(* The order of emission is total.                                           *)
LEMMA BeforeIsTotal ==
  ASSUME NEW a \in Seq(Nat), NEW b \in Seq(Nat), ~ Before(a, b), ~ Before(b, a)
  PROVE  a = b
<1> DEFINE T == {n \in 1 .. Len(a) : n <= Len(b) /\ a[n] # b[n]}
<1>1. /\ Len(a) \in Nat /\ Len(b) \in Nat
      /\ \A n \in 1 .. Len(a) : a[n] \in Nat
      /\ \A n \in 1 .. Len(b) : b[n] \in Nat
  BY LenProperties, ElementOfSeq
<1>2. T = {}
  <2> SUFFICES ASSUME T # {} PROVE FALSE
    OBVIOUS
  <2>1. PICK n \in T : \A m \in T : n <= m
    <3>1. T \in SUBSET Nat
      OBVIOUS
    <3>. QED
      BY <3>1, LeastNumber
  <2>2. n \in 1 .. Len(a) /\ n \in 1 .. Len(b) /\ a[n] # b[n]
    BY <1>1, <2>1
  <2>3. \A k \in 1 .. n - 1 : a[k] = b[k]
    <3> SUFFICES ASSUME NEW k \in 1 .. n - 1 PROVE a[k] = b[k]
      OBVIOUS
    <3>1. k < n /\ k \in 1 .. Len(a) /\ k <= Len(b)
      BY <1>1, <2>2
    <3>. QED
      BY <2>1, <2>2, <3>1
  <2>4. a[n] < b[n] \/ b[n] < a[n]
    BY <1>1, <2>2
  <2>. QED
    BY <2>2, <2>3, <2>4 DEF Before
<1>3. \A n \in 1 .. Len(a) : n <= Len(b) => a[n] = b[n]
  BY <1>2
<1>4. ASSUME NEW s \in Seq(Nat), NEW t \in Seq(Nat), Len(s) \in Nat, Len(t) \in Nat,
             Len(s) < Len(t), \A n \in 1 .. Len(s) : s[n] = t[n]
      PROVE  Before(s, t)
  <2>1. \A n \in 1 .. Len(s) : t[n] \in Nat
    BY <1>4, ElementOfSeq
  <2>2. /\ SubSeq(t, 1, Len(s)) \in Seq(Nat)
        /\ Len(SubSeq(t, 1, Len(s))) = Len(s)
        /\ \A n \in 1 .. Len(s) : SubSeq(t, 1, Len(s))[n] = t[n]
    BY <1>4, <2>1, SubSeqProperties
  <2>3. s = SubSeq(t, 1, Len(s))
    BY <1>4, <2>2, SeqEqual
  <2>. QED
    BY <1>4, <2>3 DEF Before
<1>5. ~(Len(a) < Len(b)) /\ ~(Len(b) < Len(a))
  BY <1>1, <1>3, <1>4
<1>. QED
  BY <1>1, <1>3, <1>5, SeqEqual

(* What the property says of a reason.                                       *)
Given(r) ==
    IF \A c \in Cells : heap[c].kind # "otherMap" THEN r = FirstReason
    ELSE /\ r \in {ReasonAt(p) : p \in Paths}
         /\ r = "" => \A p \in Paths : ReasonAt(p) = ""

LEMMA PathsAreSequences ==
  /\ HeapOK => Paths \subseteq Seq(Nat)
  /\ <<>> \in Paths
<1>1. Cardinality(Cells) \in Nat
  BY CellsAssumption, FS_CardinalityType
<1> DEFINE places == UNION {DOMAIN heap[c].items : c \in Cells}
<1>2. Paths = UNION {[1 .. n -> places] : n \in 0 .. Cardinality(Cells)}
  BY DEF Paths
<1>3. ASSUME HeapOK, NEW p \in Paths PROVE p \in Seq(Nat)
  <2>1. places \subseteq Nat
    BY <1>3 DEF HeapOK
  <2> HIDE DEF places
  <2>2. PICK n \in 0 .. Cardinality(Cells) : p \in [1 .. n -> places]
    BY <1>2
  <2>3. n \in Nat /\ p \in [1 .. n -> Nat]
    <3>1. n \in Nat
      BY <1>1
    <3>2. p = [k \in 1 .. n |-> p[k]] /\ \A k \in 1 .. n : p[k] \in Nat
      BY <2>1, <2>2
    <3>. QED
      BY <3>1, <3>2
  <2>. QED
    BY <2>3
<1>4. <<>> \in Paths
  <2> HIDE DEF places
  <2>1. 0 \in 0 .. Cardinality(Cells)
    BY <1>1
  <2>2. <<>> \in [1 .. 0 -> places]
    OBVIOUS
  <2>. QED
    BY <1>2, <2>1, <2>2
<1>. QED
  BY <1>3, <1>4

(* Where no place has a reason, none is the first.                           *)
LEMMA NoneIsGiven ==
  ASSUME \A q \in Paths : ReasonAt(q) = ""
  PROVE  Given("")
<1>1. FirstReason = ""
  BY DEF FirstReason
<1>2. ReasonAt(<<>>) = "" /\ <<>> \in Paths
  BY PathsAreSequences
<1>. QED
  BY <1>1, <1>2 DEF Given

(* A place with a reason, and none before it, is the first.                  *)
LEMMA FirstIsGiven ==
  ASSUME HeapOK, NEW p \in Paths, ReasonAt(p) # "",
         (\A c \in Cells : heap[c].kind # "otherMap")
            => \A q \in Paths : Before(q, p) => ReasonAt(q) = ""
  PROVE  Given(ReasonAt(p))
<1>1. CASE \A c \in Cells : heap[c].kind # "otherMap"
  <2> DEFINE bad == {q \in Paths : ReasonAt(q) # ""}
             first == FirstOf(bad)
  <2>1. p \in bad /\ \A o \in bad : ~ Before(o, p)
    BY <1>1
  <2>2. first \in bad /\ \A o \in bad : ~ Before(o, first)
    BY <2>1 DEF FirstOf
  <2>3. bad # {} /\ FirstReason = ReasonAt(first)
    BY <2>1 DEF FirstReason
  <2>4. bad \subseteq Seq(Nat)
    BY PathsAreSequences
  <2> HIDE DEF bad, first
  <2>5. p = first
    BY <2>1, <2>2, <2>4, BeforeIsTotal
  <2>. QED
    BY <1>1, <2>3, <2>5 DEF Given
<1>2. CASE ~ \A c \in Cells : heap[c].kind # "otherMap"
  BY <1>2 DEF Given
<1>. QED
  BY <1>1, <1>2

(* The calls are no more than the containers.                                *)
LEMMA CallsAreFew ==
  ASSUME NEW s, Calls(s)
  PROVE  Len(s) \in Nat /\ Len(s) <= Cardinality(Cells)
<1>1. Len(s) \in Nat /\ \A n \in 1 .. Len(s) : s[n] \in Frames
  BY LenProperties, ElementOfSeq DEF Calls
<1> DEFINE f == [n \in 1 .. Len(s) |-> s[n].cell]
<1>2. f \in [1 .. Len(s) -> Cells]
  BY <1>1 DEF Frames
<1>3. \A m, n \in 1 .. Len(s) : f[m] = f[n] => m = n
  BY DEF Calls
<1> HIDE DEF f
<1>4. f \in Injection(1 .. Len(s), Cells)
  BY <1>2, <1>3 DEF Injection, IsInjective
<1>5. Cardinality(1 .. Len(s)) <= Cardinality(Cells)
  BY <1>4, CellsAssumption, FS_Injection
<1>6. Cardinality(1 .. Len(s)) = Len(s)
  <2> DEFINE k == Len(s)
  <2>1. k \in Int /\ 1 \in Int /\ (1 > k => k = 0)
    BY <1>1
  <2> HIDE DEF k
  <2>2. Cardinality(1 .. k) = IF 1 > k THEN 0 ELSE k - 1 + 1
    BY <2>1, FS_Interval
  <2>. QED
    BY <2>1, <2>2 DEF k
<1>. QED
  BY <1>1, <1>5, <1>6

(* The item the walk is at, as a path.                                       *)
LEMMA ItemsPath ==
  ASSUME NEW s, NEW p, Calls(s), Route(s, p), HeapOK,
         NEW i \in DOMAIN heap[s[Len(s)].cell].items
  PROVE  /\ Append(p, i) \in Seq(Nat) /\ Append(p, i) \in Paths
         /\ Len(Append(p, i)) = Len(s) /\ Append(p, i)[Len(s)] = i
         /\ \A m \in 1 .. Len(p) : Append(p, i)[m] = p[m]
<1>1. /\ p \in Seq(Nat) /\ Len(p) \in Nat /\ Len(s) = Len(p) + 1
      /\ \A n \in 1 .. Len(s) : s[n].cell \in Cells
  BY RouteLeads DEF Route
<1>2. Len(s) \in 1 .. Len(s) /\ Len(s) \in Nat /\ Len(s) <= Cardinality(Cells)
      /\ Cardinality(Cells) \in Nat
  BY <1>1, CallsAreFew, CellsAssumption, FS_CardinalityType
<1>3. i \in Nat
  BY <1>1, <1>2 DEF HeapOK
<1> DEFINE P == Append(p, i)
<1>4. /\ P \in Seq(Nat) /\ Len(P) = Len(s)
      /\ P[Len(s)] = i /\ \A m \in 1 .. Len(p) : P[m] = p[m]
  BY <1>1, <1>3, AppendProperties
<1>5. P \in Paths
  <2> DEFINE places == UNION {DOMAIN heap[c].items : c \in Cells}
  <2>1. \A m \in 1 .. Len(s) : P[m] \in places
    <3> SUFFICES ASSUME NEW m \in 1 .. Len(s) PROVE P[m] \in places
      OBVIOUS
    <3>1. CASE m = Len(s)
      BY <1>1, <1>2, <1>4, <3>1
    <3>2. CASE m \in 1 .. Len(p)
      <4>1. p[m] \in DOMAIN heap[s[m].cell].items
        BY <3>2 DEF Route, OnRoute, Done
      <4>. QED
        BY <1>1, <1>4, <3>2, <4>1
    <3>. QED
      BY <1>1, <3>1, <3>2
  <2>2. P \in [1 .. Len(s) -> places]
    <3> HIDE DEF places
    <3>1. P \in [1 .. Len(s) -> Nat]
      BY <1>4, LenProperties
    <3>. QED
      BY <2>1, <3>1
  <2> HIDE DEF places, P
  <2>3. Len(s) \in 0 .. Cardinality(Cells)
    BY <1>2
  <2>4. Paths = UNION {[1 .. n -> places] : n \in 0 .. Cardinality(Cells)}
    BY DEF Paths, places
  <2>. QED
    BY <2>2, <2>3, <2>4
<1>. QED
  BY <1>4, <1>5

(* Nothing emitted before the item the walk is at has a reason.              *)
LEMMA NothingBefore ==
  ASSUME NEW s, NEW p, Calls(s), Route(s, p), HeapOK,
         \A c \in Cells : heap[c].kind # "otherMap",
         \A n \in 1 .. Len(s) : s[n].left \subseteq Nat,
         NEW i \in s[Len(s)].left, i \in DOMAIN heap[s[Len(s)].cell].items,
         \A j \in s[Len(s)].left : i <= j,
         NEW q \in Seq(Nat), Before(q, Append(p, i))
  PROVE  ReasonAt(q) = ""
<1> DEFINE P == Append(p, i)
<1>1. /\ P \in Seq(Nat) /\ Len(P) = Len(s) /\ P[Len(s)] = i
      /\ \A m \in 1 .. Len(p) : P[m] = p[m]
  BY ItemsPath
<1>2. Len(p) \in Nat /\ Len(s) = Len(p) + 1 /\ Len(q) \in Nat
      /\ \A n \in 1 .. Len(s) : s[n].cell \in Cells
  BY RouteLeads, LenProperties
<1> HIDE DEF P
<1>3. CASE Len(q) < Len(P) /\ q = SubSeq(P, 1, Len(q))
  <2>1. \A m \in 1 .. Len(q) : P[m] \in Nat
    BY <1>1, <1>2, <1>3, ElementOfSeq
  <2>2. \A m \in 1 .. Len(q) : SubSeq(P, 1, Len(q))[m] = P[m]
    BY <1>2, <2>1, SubSeqProperties
  <2>3. Len(q) <= Len(p) /\ \A m \in 1 .. Len(q) : q[m] = p[m]
    <3>1. \A m \in 1 .. Len(q) : q[m] = P[m]
      BY <1>3, <2>2
    <3>2. Len(q) <= Len(p) /\ \A m \in 1 .. Len(q) : m \in 1 .. Len(p)
      BY <1>1, <1>2, <1>3
    <3>. QED
      BY <1>1, <3>1, <3>2
  <2>. QED
    BY <2>3, RouteIsClean
<1>4. ASSUME NEW n \in 1 .. Len(q), n <= Len(P), \A k \in 1 .. n - 1 : q[k] = P[k], q[n] < P[n]
      PROVE  ReasonAt(q) = ""
  <2>1. n \in 1 .. Len(s) /\ n <= Len(q) /\ \A k \in 1 .. n - 1 : q[k] = p[k]
    BY <1>1, <1>2, <1>4
  <2>2. CASE q[n] \notin DOMAIN heap[s[n].cell].items
    <3>1. Onward(s[n].cell, q[n]) = "absent"
      BY <2>2 DEF Onward
    <3>. QED
      BY <2>1, <3>1, NoPlaceThere
  <2>3. CASE q[n] \in DOMAIN heap[s[n].cell].items
    <3>1. /\ \A j \in Done(s[n]), l \in s[n].left : j < l
          /\ n <= Len(p) => \A j \in Done(s[n]) : j <= p[n]
      BY <1>2, <2>1 DEF Route, InOrder
    <3>2. q[n] \notin s[n].left
      <4> SUFFICES ASSUME q[n] \in s[n].left PROVE FALSE
        OBVIOUS
      <4>1. q[n] \in Nat /\ P[n] \in Nat
        BY <1>1, <1>4, ElementOfSeq
      <4>2. CASE n = Len(s)
        BY <1>1, <1>4, <4>1, <4>2
      <4>3. CASE n \in 1 .. Len(p)
        <5>1. p[n] \in Done(s[n]) /\ P[n] = p[n]
          BY <1>1, <4>3 DEF Route, OnRoute
        <5>2. p[n] < q[n]
          BY <3>1, <5>1
        <5>. QED
          BY <1>4, <4>1, <5>1, <5>2
      <4>. QED
        BY <1>2, <2>1, <4>2, <4>3
    <3>3. q[n] \in Done(s[n])
      BY <2>3, <3>2 DEF Done
    <3>4. n <= Len(p) => q[n] # p[n]
      BY <1>1, <1>2, <1>4, <2>1, ElementOfSeq
    <3>5. Parts(s, p, q, n)
      BY <2>1, <3>3, <3>4 DEF Parts
    <3>. QED
      BY <2>1, <3>5 DEF Route, Clear
  <2>. QED
    BY <2>2, <2>3
<1>. QED
  BY <1>3, <1>4 DEF Before, P

(* Reasons and the order of paths depend on the value alone.                 *)
LEMMA ReasonsStay ==
  ASSUME heap' = heap, root' = root
  PROVE  /\ \A p : ReasonAt(p)' = ReasonAt(p)
         /\ \A r : Given(r)' = Given(r)
<1>1. \A p : Along(p)' = Along(p)
  BY DEF Along
<1>2. \A p : ReasonAt(p)' = ReasonAt(p)
  BY <1>1 DEF ReasonAt
<1>3. Paths' = Paths
  BY DEF Paths
<1>4. FirstReason' = FirstReason
  <2> DEFINE bad == {p \in Paths : ReasonAt(p) # ""}
  <2>1. bad' = bad
    BY <1>2, <1>3
  <2> DEFINE first == FirstOf(bad)
  <2>2. first' = first
    BY <2>1
  <2>3. ReasonAt(first)' = ReasonAt(first)
    BY <1>2, <2>2
  <2>. QED
    BY <2>1, <2>3 DEF FirstReason
<1>. QED
  BY <1>2, <1>3, <1>4 DEF Given

LEMMA RouteStays ==
  ASSUME heap' = heap, root' = root, NEW p, Route(stack', p)
  PROVE  Route(stack, p)'
<1>1. \A f : Done(f)' = Done(f)
  BY DEF Done
<1>2. OnRoute(stack, p)'
  BY DEF Route, OnRoute, Done
<1>3. InOrder(stack, p)'
  BY DEF Route, InOrder, Done
<1>4. Clear(stack, p)'
  BY ReasonsStay DEF Route, Clear, Parts, Done
<1>. QED
  BY <1>2, <1>3, <1>4 DEF Route

(* The frame the walk is in.                                                 *)
LEMMA TopFacts ==
  ASSUME IInv, pc = "walk"
  PROVE  /\ Len(stack) \in Nat /\ Len(stack) > 0 /\ Len(stack) \in 1 .. Len(stack)
         /\ TopFrame = stack[Len(stack)] /\ TopFrame.cell \in Cells
         /\ TopFrame.left \subseteq DOMAIN heap[TopFrame.cell].items
         /\ \A n \in 1 .. Len(stack) :
                stack[n].left \subseteq DOMAIN heap[stack[n].cell].items
                /\ stack[n].left \subseteq Nat
<1>1. stack # <<>>
  BY DEF IInv, TypeOK
<1>2. stack \in Seq(Frames) /\ Len(stack) \in Nat /\ Len(stack) > 0
  BY <1>1, StackType
<1>3. \A n \in 1 .. Len(stack) : stack[n] \in Frames
  BY <1>2, ElementOfSeq
<1>4. \A n \in 1 .. Len(stack) : stack[n].left \subseteq DOMAIN heap[stack[n].cell].items
  BY DEF IInv, TypeOK
<1>. QED
  BY <1>2, <1>3, <1>4 DEF TopFrame, Frames

(* Taking an item, whatever comes of it, in the terms above.                 *)
LEMMA TakenIs ==
  ASSUME IInv, pc = "walk", NEW i \in Candidates
  PROVE  /\ Taken(i) \in Seq(Frames) /\ Len(Taken(i)) = Len(stack)
         /\ \A n \in 1 .. Len(stack) : Taken(i)[n].cell = stack[n].cell
         /\ \A n \in 1 .. Len(stack) : n # Len(stack) =>
                Taken(i)[n].left = stack[n].left /\ Done(Taken(i)[n]) = Done(stack[n])
         /\ Taken(i)[Len(stack)].left = TopFrame.left \ {i}
         /\ Done(Taken(i)[Len(stack)]) = Done(TopFrame) \cup {i}
         /\ i \in TopFrame.left /\ i \in DOMAIN heap[TopFrame.cell].items
         /\ heap[TopFrame.cell].kind # "otherMap" => \A j \in TopFrame.left : i <= j
<1>1. i \in TopFrame.left
      /\ (heap[TopFrame.cell].kind # "otherMap" => \A j \in TopFrame.left : i <= j)
  BY DEF Candidates
<1>2. stack # <<>> /\ stack \in Seq(Frames)
  BY StackType DEF IInv, TypeOK
<1>3. /\ Taken(i) \in Seq(Frames) /\ Len(Taken(i)) = Len(stack)
      /\ \A n \in 1 .. Len(stack) : Taken(i)[n].cell = stack[n].cell
  BY <1>2, TakenKeepsCells
<1>4. \A n \in 1 .. Len(stack) :
         Taken(i)[n].left = IF n = Len(stack) THEN stack[n].left \ {i} ELSE stack[n].left
  BY <1>2, StackType, TakenLeaves
<1>. QED
  BY <1>1, <1>3, <1>4, TopFacts DEF Done

LEMMA EqualOrLess ==
  ASSUME NEW a \in Nat, NEW b \in Nat, a <= b
  PROVE  a = b \/ a < b
  OBVIOUS

(* Nothing at an item, and nothing in it, has a reason.                      *)
Harmless(p, i) ==
    \A q \in Seq(Nat) :
        /\ Len(stack) <= Len(q) /\ q[Len(stack)] = i
        /\ \A m \in 1 .. Len(p) : q[m] = p[m]
        => ReasonAt(q) = ""

(* Where the route stands.                                                   *)
LEMMA RouteFacts ==
  ASSUME IInv, NEW p, Route(stack, p)
  PROVE  /\ p \in Seq(Nat) /\ Len(p) \in Nat /\ Len(stack) = Len(p) + 1 /\ Len(stack) \in Nat
         /\ stack[1].cell = root /\ Len(stack) \in 1 .. Len(stack) /\ 1 \in 1 .. Len(stack)
         /\ \A n \in 1 .. Len(p) :
                n \in 1 .. Len(stack) /\ n + 1 \in 1 .. Len(stack) /\ n # Len(stack)
<1> DEFINE len == Len(stack)
<1>1. /\ p \in Seq(Nat) /\ Len(p) \in Nat /\ len = Len(p) + 1 /\ stack[1].cell = root
  BY StateFacts, RouteLeads DEF Route, OnRoute
<1> HIDE DEF len
<1>2. len \in Nat /\ len \in 1 .. len /\ 1 \in 1 .. len
      /\ \A n \in 1 .. Len(p) : n \in 1 .. len /\ n + 1 \in 1 .. len /\ n # len
  BY <1>1
<1>. QED
  BY <1>1, <1>2 DEF len

(* Taking an item leaves the calls on the route.                             *)
LEMMA TakenOnRoute ==
  ASSUME IInv, pc = "walk", NEW p, Route(stack, p), NEW i \in Candidates
  PROVE  OnRoute(Taken(i), p)
<1> DEFINE s == Taken(i)
           len == Len(stack)
<1>1. /\ p \in Seq(Nat) /\ Len(p) \in Nat /\ len = Len(p) + 1 /\ len \in Nat
      /\ stack[1].cell = root /\ len \in 1 .. len /\ 1 \in 1 .. len
      /\ \A n \in 1 .. Len(p) : n \in 1 .. len /\ n + 1 \in 1 .. len /\ n # len
  BY RouteFacts
<1>2. /\ Len(s) = len
      /\ \A n \in 1 .. len : s[n].cell = stack[n].cell
      /\ \A n \in 1 .. len : n # len =>
             s[n].left = stack[n].left /\ Done(s[n]) = Done(stack[n])
      /\ s[len].left = TopFrame.left \ {i}
      /\ Done(s[len]) = Done(TopFrame) \cup {i}
      /\ i \in TopFrame.left
      /\ heap[TopFrame.cell].kind # "otherMap" => \A j \in TopFrame.left : i <= j
  BY TakenIs
<1> HIDE DEF s, len
<1>4. s[1].cell = root
  BY <1>1, <1>2
<1>5. ASSUME NEW n \in 1 .. Len(p)
      PROVE  /\ p[n] \in Done(s[n])
             /\ heap[s[n].cell].items[p[n]].shown
             /\ heap[s[n].cell].items[p[n]].key # "bad"
             /\ heap[s[n].cell].items[p[n]].val = s[n + 1].cell
  <2>1. /\ p[n] \in Done(stack[n])
        /\ heap[stack[n].cell].items[p[n]].shown
        /\ heap[stack[n].cell].items[p[n]].key # "bad"
        /\ heap[stack[n].cell].items[p[n]].val = stack[n + 1].cell
    BY <1>5 DEF Route, OnRoute
  <2>2. s[n].cell = stack[n].cell /\ s[n + 1].cell = stack[n + 1].cell
        /\ Done(s[n]) = Done(stack[n])
    BY <1>1, <1>2
  <2>. QED
    BY <2>1, <2>2
<1>. QED
  BY <1>4, <1>5 DEF OnRoute, s

(* Taking the least item left keeps what is done before what is left.        *)
LEMMA TakenInOrder ==
  ASSUME IInv, pc = "walk", NEW p, Route(stack, p), NEW i \in Candidates
  PROVE  /\ InOrder(Taken(i), p)
         /\ heap[TopFrame.cell].kind # "otherMap" =>
                \A j \in Done(Taken(i)[Len(stack)]) : j <= i
<1> DEFINE s == Taken(i)
           len == Len(stack)
<1>1. /\ p \in Seq(Nat) /\ Len(p) \in Nat /\ len = Len(p) + 1 /\ len \in Nat
      /\ stack[1].cell = root /\ len \in 1 .. len /\ 1 \in 1 .. len
      /\ \A n \in 1 .. Len(p) : n \in 1 .. len /\ n + 1 \in 1 .. len /\ n # len
  BY RouteFacts
<1>2. /\ Len(s) = len
      /\ \A n \in 1 .. len : s[n].cell = stack[n].cell
      /\ \A n \in 1 .. len : n # len =>
             s[n].left = stack[n].left /\ Done(s[n]) = Done(stack[n])
      /\ s[len].left = TopFrame.left \ {i}
      /\ Done(s[len]) = Done(TopFrame) \cup {i}
      /\ i \in TopFrame.left
      /\ heap[TopFrame.cell].kind # "otherMap" => \A j \in TopFrame.left : i <= j
  BY TakenIs
<1>3. TopFrame = stack[len] /\ TopFrame.left \subseteq Nat
  BY TopFacts
<1> HIDE DEF s, len
<1>4. \A n \in 1 .. len : heap[stack[n].cell].kind # "otherMap" =>
         /\ \A j \in Done(stack[n]), l \in stack[n].left : j < l
         /\ n <= Len(p) => \A j \in Done(stack[n]) : j <= p[n]
  BY DEF Route, InOrder, len
<1>5. ASSUME heap[TopFrame.cell].kind # "otherMap"
      PROVE  \A j \in Done(s[len]) : j <= i
  <2> SUFFICES ASSUME NEW j \in Done(s[len]) PROVE j <= i
    OBVIOUS
  <2>1. i \in Nat
    BY <1>2, <1>3
  <2>2. j = i \/ j < i
    BY <1>4, <1>5, <1>1, <1>2, <1>3
  <2>3. j \in Int
    BY TopFacts, StateFacts, <1>2, <1>3 DEF Done, HeapOK
  <2>. QED
    BY <2>1, <2>2, <2>3
<1>6. InOrder(s, p)
  <2> SUFFICES ASSUME NEW n \in 1 .. len, heap[s[n].cell].kind # "otherMap"
               PROVE  /\ \A j \in Done(s[n]), l \in s[n].left : j < l
                      /\ n <= Len(p) => \A j \in Done(s[n]) : j <= p[n]
    BY <1>2 DEF InOrder
  <2>1. /\ \A j \in Done(stack[n]), l \in stack[n].left : j < l
        /\ n <= Len(p) => \A j \in Done(stack[n]) : j <= p[n]
    BY <1>4, <1>2
  <2>2. CASE n = len
    <3>1. (\A j \in TopFrame.left : i <= j) /\ s[n].left = TopFrame.left \ {i}
          /\ Done(s[n]) = Done(stack[n]) \cup {i} /\ stack[n].left = TopFrame.left
      BY <1>2, <1>3, <2>2
    <3>2. \A l \in s[n].left : i < l
      <4> SUFFICES ASSUME NEW l \in s[n].left PROVE i < l
        OBVIOUS
      <4>1. l \in Nat /\ i \in Nat /\ i <= l /\ l # i
        BY <1>2, <1>3, <3>1
      <4>. QED
        BY <4>1
    <3>3. ~(n <= Len(p))
      BY <1>1, <2>2
    <3>4. \A j \in Done(s[n]), l \in s[n].left : j < l
      <4> SUFFICES ASSUME NEW j \in Done(s[n]), NEW l \in s[n].left PROVE j < l
        OBVIOUS
      <4>1. CASE j = i
        BY <3>2, <4>1
      <4>2. CASE j # i
        BY <2>1, <3>1, <4>2
      <4>. QED
        BY <4>1, <4>2
    <3>. QED
      BY <3>3, <3>4
  <2>3. CASE n # len
    BY <1>2, <2>1, <2>3
  <2>. QED
    BY <2>2, <2>3
<1>. QED
  BY <1>5, <1>6 DEF s, len

(* Such an item is passed.                                                   *)
LEMMA ItemPassed ==
  ASSUME IInv, pc = "walk", NEW p, Route(stack, p), NEW i \in Candidates,
         Harmless(p, i)
  PROVE  Route(Taken(i), p)
<1> DEFINE s == Taken(i)
           len == Len(stack)
<1>1. /\ p \in Seq(Nat) /\ Len(p) \in Nat /\ len = Len(p) + 1 /\ len \in Nat
      /\ stack[1].cell = root /\ len \in 1 .. len /\ 1 \in 1 .. len
      /\ \A n \in 1 .. Len(p) : n \in 1 .. len /\ n + 1 \in 1 .. len /\ n # len
  BY RouteFacts
<1>2. /\ Len(s) = len
      /\ \A n \in 1 .. len : s[n].cell = stack[n].cell
      /\ \A n \in 1 .. len : n # len =>
             s[n].left = stack[n].left /\ Done(s[n]) = Done(stack[n])
      /\ s[len].left = TopFrame.left \ {i}
      /\ Done(s[len]) = Done(TopFrame) \cup {i}
      /\ i \in TopFrame.left
      /\ heap[TopFrame.cell].kind # "otherMap" => \A j \in TopFrame.left : i <= j
  BY TakenIs
<1>3. TopFrame = stack[len] /\ TopFrame.left \subseteq Nat
  BY TopFacts
<1> HIDE DEF s, len
<1>4. OnRoute(s, p)
  BY TakenOnRoute DEF s
<1>5. InOrder(s, p)
  BY TakenInOrder DEF s
<1>6. Clear(s, p)
  <2> SUFFICES ASSUME NEW q \in Seq(Nat), NEW n \in 1 .. len, Parts(s, p, q, n)
               PROVE  ReasonAt(q) = ""
    BY <1>2 DEF Clear
  <2>1. n <= Len(q) /\ (\A m \in 1 .. n - 1 : q[m] = p[m]) /\ q[n] \in Done(s[n])
        /\ (n <= Len(p) => q[n] # p[n])
    BY DEF Parts
  <2>2. CASE q[n] \in Done(stack[n])
    <3>1. Parts(stack, p, q, n)
      BY <2>1, <2>2 DEF Parts
    <3>. QED
      BY <3>1 DEF Route, Clear, len
  <2>3. CASE q[n] \notin Done(stack[n])
    <3>1. n = len /\ q[len] = i
      <4>1. CASE n = len
        BY <1>2, <1>3, <2>1, <2>3, <4>1
      <4>2. CASE n # len
        BY <1>2, <2>1, <2>3, <4>2
      <4>. QED
        BY <4>1, <4>2
    <3>2. n - 1 = Len(p)
      BY <1>1, <3>1
    <3>3. \A m \in 1 .. Len(p) : q[m] = p[m]
      BY <2>1, <3>2
    <3>. QED
      BY <2>1, <3>1, <3>3 DEF len, Harmless
  <2>. QED
    BY <2>2, <2>3
<1>. QED
  BY <1>1, <1>2, <1>4, <1>5, <1>6 DEF Route, s

(* An item that is not emitted, or a leaf that gives no reason.              *)
LEMMA SkippedRoute ==
  ASSUME IInv, pc = "walk", NEW p, Route(stack, p), NEW i \in Candidates, Skip(i)
  PROVE  Route(Taken(i), p)
<1> DEFINE len == Len(stack)
<1>1. HeapOK /\ Calls(stack)
  BY StateFacts
<1>2. /\ Len(p) \in Nat /\ len = Len(p) + 1 /\ len \in 1 .. len /\ len \in Nat
      /\ TopFrame = stack[len] /\ TopFrame.cell \in Cells
      /\ i \in DOMAIN heap[TopFrame.cell].items
  BY <1>1, RouteLeads, TopFacts, TakenIs
<1>3. \/ ~ Item(i).shown
      \/ Item(i).key # "bad" /\ Item(i).val \in {"plain", "nan"}
  BY DEF Skip
<1>4. Item(i) = heap[stack[len].cell].items[i]
  BY <1>2 DEF Item
<1>5. ASSUME NEW q \in Seq(Nat), len <= Len(q), q[len] = i,
             \A m \in 1 .. Len(p) : q[m] = p[m]
      PROVE  ReasonAt(q) = ""
  <2>1. Len(q) \in Nat /\ \A m \in 1 .. len - 1 : q[m] = p[m]
    BY <1>2, <1>5, LenProperties
  <2>2. CASE ~ Item(i).shown
    <3>1. Onward(stack[len].cell, q[len]) = "absent"
      BY <1>4, <1>5, <2>2 DEF Onward
    <3>. QED
      BY <1>1, <1>2, <1>5, <2>1, <3>1, NoPlaceThere
  <2>3. CASE Item(i).shown /\ Item(i).key # "bad" /\ Item(i).val \in {"plain", "nan"}
    <3>1. CASE len = Len(q)
      <4>0. PICK item : item = Item(i)
        OBVIOUS
      <4>1. /\ Len(q) = Len(stack) /\ q[Len(q)] = i
            /\ item = heap[stack[Len(stack)].cell].items[q[Len(q)]] /\ item.shown
            /\ q[Len(q)] \in DOMAIN heap[stack[Len(stack)].cell].items
        BY <1>2, <1>4, <1>5, <2>3, <3>1, <4>0
      <4>2. item.key # "bad" /\ item.val \in Leaves /\ LeafReason(item.val) = ""
        BY <2>3, <4>0 DEF Leaves, LeafReason, Reasons
      <4>3. \A m \in 1 .. Len(p) : q[m] = p[m]
        BY <1>5
      <4>4. ReasonAt(q) = LeafReason(item.val)
        BY <1>1, <4>1, <4>2, <4>3, ItemsReason
      <4>. QED
        BY <4>2, <4>4
    <3>2. CASE len < Len(q)
      <4> DEFINE k == Len(p)
      <4>1. k \in Nat /\ k <= Len(p) /\ k < Len(q) /\ k <= Len(q) /\ k + 1 = len
            /\ \A m \in 1 .. k : q[m] = p[m]
        BY <1>2, <1>5, <2>1, <3>2
      <4> HIDE DEF k
      <4>2. Along(q)[k + 1] = Onward(stack[k + 1].cell, q[k + 1])
        BY <1>1, <4>1, FollowerLeads
      <4>3. Along(q)[len] = Item(i).val
        BY <1>2, <1>4, <1>5, <2>3, <4>1, <4>2 DEF Onward
      <4>4. Item(i).val \notin Cells
        BY <2>3, CellsAssumption DEF Leaves
      <4>5. len \in 0 .. Len(q) /\ len < Len(q)
        BY <1>2, <2>1, <3>2
      <4> HIDE DEF len
      <4>. QED
        BY <4>3, <4>4, <4>5, NoReasonBeyond
    <3>4. len \in Nat /\ Len(q) \in Nat /\ len <= Len(q)
      BY <1>2, <1>5, <2>1
    <3> HIDE DEF len
    <3>. QED
      BY <3>1, <3>2, <3>4, EqualOrLess
  <2>. QED
    BY <1>3, <2>2, <2>3
<1>6. Harmless(p, i)
  BY <1>5 DEF Harmless
<1>. QED
  BY <1>6, ItemPassed

(* Entering a container goes one item further on the route.                  *)
LEMMA EnteredRoute ==
  ASSUME IInv, pc = "walk", NEW p, Route(stack, p), NEW i \in Candidates, Refers(i)
  PROVE  Route(Append(Taken(i), Frame(Item(i).val)), Append(p, i))
<1> DEFINE t == Taken(i)
           c == Item(i).val
           s == Append(t, Frame(c))
           P == Append(p, i)
           len == Len(stack)
<1>1. /\ p \in Seq(Nat) /\ Len(p) \in Nat /\ len = Len(p) + 1 /\ len \in Nat
      /\ stack[1].cell = root /\ len \in 1 .. len /\ 1 \in 1 .. len
      /\ \A n \in 1 .. Len(p) : n \in 1 .. len /\ n + 1 \in 1 .. len /\ n # len
  BY RouteFacts
<1>2. /\ t \in Seq(Frames) /\ Len(t) = len
      /\ \A n \in 1 .. len : t[n].cell = stack[n].cell
      /\ \A n \in 1 .. len : n # len =>
             t[n].left = stack[n].left /\ Done(t[n]) = Done(stack[n])
      /\ Done(t[len]) = Done(TopFrame) \cup {i}
      /\ i \in TopFrame.left /\ i \in DOMAIN heap[TopFrame.cell].items
  BY TakenIs
<1>3. TopFrame = stack[len]
  BY TopFacts
<1>4. /\ c \in Cells /\ Item(i).shown /\ Item(i).key # "bad"
      /\ Item(i) = heap[stack[len].cell].items[i]
  BY <1>3 DEF Refers, Item
<1>5. Frame(c) \in Frames /\ Frame(c).cell = c /\ Done(Frame(c)) = {}
  <2>1. Frame(c) \in Frames /\ Frame(c).cell = c
    BY <1>4, FrameType
  <2>. QED
    BY <2>1 DEF Done, Frame
<1>6. /\ P \in Seq(Nat) /\ Len(P) = len /\ P[len] = i
      /\ \A m \in 1 .. Len(p) : P[m] = p[m]
  <2>1. HeapOK /\ Calls(stack) /\ i \in DOMAIN heap[stack[Len(stack)].cell].items
    BY StateFacts, <1>2, <1>3
  <2>. QED
    BY <2>1, ItemsPath
<1>7. OnRoute(t, p) /\ InOrder(t, p)
      /\ (heap[TopFrame.cell].kind # "otherMap" => \A j \in Done(t[len]) : j <= i)
  BY TakenOnRoute, TakenInOrder
<1> DEFINE f == Frame(c)
<1> HIDE DEF f
<1>8. s = Append(t, f) /\ f \in Frames /\ f.cell = c /\ Done(f) = {}
  BY <1>5 DEF f
<1> HIDE DEF t, c, s, P, len
<1>9. /\ Len(s) = len + 1
      /\ \A n \in 1 .. len : s[n] = t[n]
      /\ s[len + 1] = f
  BY <1>2, <1>8, AppendProperties
<1>10. \A n \in 1 .. len : n \in 1 .. Len(p) \/ n = len
  BY <1>1
<1>11. \A n \in 1 .. len + 1 : n \in 1 .. len \/ n = len + 1
  BY <1>1
<1>12. OnRoute(s, P)
  <2>1. s[1].cell = root
    BY <1>1, <1>2, <1>9
  <2>2. ASSUME NEW n \in 1 .. len
        PROVE  /\ P[n] \in Done(s[n])
               /\ heap[s[n].cell].items[P[n]].shown
               /\ heap[s[n].cell].items[P[n]].key # "bad"
               /\ heap[s[n].cell].items[P[n]].val = s[n + 1].cell
    <3>1. CASE n \in 1 .. Len(p)
      <4>1. /\ p[n] \in Done(t[n])
            /\ heap[t[n].cell].items[p[n]].shown
            /\ heap[t[n].cell].items[p[n]].key # "bad"
            /\ heap[t[n].cell].items[p[n]].val = t[n + 1].cell
        BY <1>7, <3>1 DEF OnRoute
      <4>2. s[n] = t[n] /\ s[n + 1] = t[n + 1] /\ P[n] = p[n]
        BY <1>1, <1>6, <1>9, <3>1
      <4>. QED
        BY <4>1, <4>2
    <3>2. CASE n = len
      <4>1. s[n] = t[len] /\ s[n + 1].cell = c /\ P[n] = i /\ t[len].cell = stack[len].cell
        BY <1>1, <1>2, <1>6, <1>8, <1>9, <3>2
      <4>. QED
        BY <1>2, <1>4, <4>1 DEF c
    <3>. QED
      BY <1>10, <3>1, <3>2
  <2>. QED
    BY <1>6, <2>1, <2>2 DEF OnRoute
<1>13. InOrder(s, P)
  <2> SUFFICES ASSUME NEW n \in 1 .. len + 1, heap[s[n].cell].kind # "otherMap"
               PROVE  /\ \A j \in Done(s[n]), l \in s[n].left : j < l
                      /\ n <= len => \A j \in Done(s[n]) : j <= P[n]
    BY <1>6, <1>9 DEF InOrder
  <2>1. CASE n = len + 1
    BY <1>8, <1>9, <2>1
  <2>2. CASE n \in 1 .. len
    <3>1. s[n] = t[n]
      BY <1>9, <2>2
    <3>2. /\ \A j \in Done(t[n]), l \in t[n].left : j < l
          /\ n <= Len(p) => \A j \in Done(t[n]) : j <= p[n]
      BY <1>2, <1>7, <2>2, <3>1 DEF InOrder
    <3>3. CASE n \in 1 .. Len(p)
      <4>1. n <= Len(p) /\ P[n] = p[n]
        BY <1>1, <1>6, <3>3
      <4>. QED
        BY <3>1, <3>2, <4>1
    <3>4. CASE n = len
      BY <1>2, <1>3, <1>6, <1>7, <2>2, <3>1, <3>2, <3>4
    <3>. QED
      BY <1>10, <2>2, <3>3, <3>4
  <2>. QED
    BY <1>11, <2>1, <2>2
<1>14. Clear(s, P)
  <2> SUFFICES ASSUME NEW q \in Seq(Nat), NEW n \in 1 .. len + 1, Parts(s, P, q, n)
               PROVE  ReasonAt(q) = ""
    BY <1>9 DEF Clear
  <2>1. n <= Len(q) /\ (\A m \in 1 .. n - 1 : q[m] = P[m]) /\ q[n] \in Done(s[n])
        /\ (n <= len => q[n] # P[n])
    BY <1>6 DEF Parts
  <2>2. n \in 1 .. len
    <3>1. n # len + 1
      BY <1>8, <1>9, <2>1
    <3>. QED
      BY <1>11, <3>1
  <2>3. n <= len /\ \A m \in 1 .. n - 1 : m \in 1 .. Len(p)
    BY <1>1, <2>2
  <2>4. \A m \in 1 .. n - 1 : q[m] = p[m]
    BY <1>6, <2>1, <2>3
  <2>5. q[n] \in Done(stack[n]) /\ (n <= Len(p) => q[n] # p[n])
    <3>1. s[n] = t[n]
      BY <1>9, <2>2
    <3>2. CASE n \in 1 .. Len(p)
      BY <1>1, <1>2, <1>6, <2>1, <2>2, <2>3, <3>1, <3>2
    <3>3. CASE n = len
      <4>1. ~(n <= Len(p))
        BY <1>1, <3>3
      <4>. QED
        BY <1>2, <1>3, <1>6, <2>1, <2>3, <3>1, <3>3, <4>1
    <3>. QED
      BY <1>10, <2>2, <3>2, <3>3
  <2>6. Parts(stack, p, q, n)
    BY <2>1, <2>4, <2>5 DEF Parts
  <2>. QED
    BY <2>2, <2>6 DEF Route, Clear, len
<1>. QED
  BY <1>6, <1>9, <1>12, <1>13, <1>14 DEF Route, s, t, c, P

(* Where every item of the container has been taken, nothing in it has a     *)
(* reason.                                                                   *)
LEMMA NothingLeft ==
  ASSUME IInv, pc = "walk", NEW p, Route(stack, p), TopFrame.left = {},
         NEW q \in Seq(Nat), Len(p) <= Len(q), \A m \in 1 .. Len(p) : q[m] = p[m]
  PROVE  ReasonAt(q) = ""
<1>1. HeapOK /\ Calls(stack)
  BY StateFacts
<1>2. Len(p) \in Nat /\ Len(q) \in Nat
  BY RouteFacts, LenProperties
<1>3. CASE Len(p) = Len(q)
  <2>1. Len(q) <= Len(p) /\ \A m \in 1 .. Len(q) : q[m] = p[m]
    BY <1>2, <1>3
  <2>. QED
    BY <1>1, <2>1, RouteIsClean
<1>4. CASE Len(p) < Len(q)
  <2> DEFINE len == Len(stack)
  <2>1. len = Len(p) + 1 /\ len \in Nat /\ len \in 1 .. len /\ TopFrame = stack[len]
    BY RouteFacts, TopFacts
  <2>2. len <= Len(q) /\ len - 1 = Len(p)
    <3> HIDE DEF len
    <3>. QED
      BY <1>2, <1>4, <2>1
  <2>3. \A m \in 1 .. len - 1 : q[m] = p[m]
    BY <2>2
  <2>4. CASE q[len] \in DOMAIN heap[stack[len].cell].items
    <3>1. q[len] \in Done(stack[len]) /\ ~(len <= Len(p))
      <4>1. q[len] \in Done(stack[len])
        BY <2>1, <2>4 DEF Done
      <4> HIDE DEF len
      <4>2. ~(len <= Len(p))
        BY <1>2, <2>1
      <4>. QED
        BY <4>1, <4>2
    <3>2. Parts(stack, p, q, len)
      BY <2>2, <2>3, <3>1 DEF Parts
    <3>. QED
      BY <2>1, <3>2 DEF Route, Clear
  <2>5. CASE q[len] \notin DOMAIN heap[stack[len].cell].items
    <3>1. Onward(stack[len].cell, q[len]) = "absent"
      BY <2>5 DEF Onward
    <3>. QED
      BY <1>1, <2>1, <2>2, <2>3, <3>1, NoPlaceThere
  <2>. QED
    BY <2>4, <2>5
<1>. QED
  BY <1>2, <1>3, <1>4, EqualOrLess

(* Leaving a container goes back to the item that led to it.                 *)
LEMMA LeftRoute ==
  ASSUME IInv, pc = "walk", NEW p, Route(stack, p), TopFrame.left = {}, Len(stack) # 1
  PROVE  Route(SubSeq(stack, 1, Len(stack) - 1), SubSeq(p, 1, Len(p) - 1))
<1> DEFINE k == Len(p)
           s == SubSeq(stack, 1, k)
           r == SubSeq(p, 1, k - 1)
<1>1. /\ p \in Seq(Nat) /\ Len(p) \in Nat /\ Len(stack) = Len(p) + 1
      /\ stack[1].cell = root
  BY RouteFacts
<1>2. stack \in Seq(Frames)
  BY StateFacts DEF Calls
<1> HIDE DEF k
<1>3. k \in Nat /\ k > 0 /\ Len(p) = k /\ Len(stack) = k + 1 /\ Len(stack) - 1 = k
  BY <1>1 DEF k
<1>4. (\A n \in 1 .. k : stack[n] \in Frames) /\ (\A n \in 1 .. k - 1 : p[n] \in Nat)
  BY <1>1, <1>2, <1>3, ElementOfSeq
<1>5. Len(s) = k /\ \A n \in 1 .. k : s[n] = stack[n]
  BY <1>2, <1>3, <1>4, SubSeqProperties
<1>6. r \in Seq(Nat) /\ Len(r) = k - 1 /\ \A n \in 1 .. k - 1 : r[n] = p[n]
  BY <1>1, <1>3, <1>4, SubSeqProperties
<1> HIDE DEF s, r
<1>7. 1 \in 1 .. k /\ \A n \in 1 .. k - 1 : n \in 1 .. k /\ n + 1 \in 1 .. k /\ n \in 1 .. k + 1
  BY <1>3
<1>8. OnRoute(s, r)
  <2>1. ASSUME NEW n \in 1 .. k - 1
        PROVE  /\ r[n] \in Done(s[n])
               /\ heap[s[n].cell].items[r[n]].shown
               /\ heap[s[n].cell].items[r[n]].key # "bad"
               /\ heap[s[n].cell].items[r[n]].val = s[n + 1].cell
    <3>1. /\ p[n] \in Done(stack[n])
          /\ heap[stack[n].cell].items[p[n]].shown
          /\ heap[stack[n].cell].items[p[n]].key # "bad"
          /\ heap[stack[n].cell].items[p[n]].val = stack[n + 1].cell
      BY <1>3, <1>7 DEF Route, OnRoute
    <3>2. s[n] = stack[n] /\ s[n + 1] = stack[n + 1] /\ r[n] = p[n]
      BY <1>5, <1>6, <1>7
    <3>. QED
      BY <3>1, <3>2
  <2>2. s[1].cell = root
    BY <1>1, <1>5, <1>7
  <2>. QED
    BY <1>6, <2>1, <2>2 DEF OnRoute
<1>9. InOrder(s, r)
  <2> SUFFICES ASSUME NEW n \in 1 .. k, heap[s[n].cell].kind # "otherMap"
               PROVE  /\ \A j \in Done(s[n]), l \in s[n].left : j < l
                      /\ n <= k - 1 => \A j \in Done(s[n]) : j <= r[n]
    BY <1>5, <1>6 DEF InOrder
  <2>1. s[n] = stack[n] /\ n \in 1 .. k + 1 /\ n <= k
        /\ (n <= k - 1 => n \in 1 .. k - 1)
    BY <1>3, <1>5
  <2>2. /\ \A j \in Done(stack[n]), l \in stack[n].left : j < l
        /\ n <= k => \A j \in Done(stack[n]) : j <= p[n]
    BY <1>3, <2>1 DEF Route, InOrder
  <2>. QED
    BY <1>6, <2>1, <2>2
<1>10. Clear(s, r)
  <2> SUFFICES ASSUME NEW q \in Seq(Nat), NEW n \in 1 .. k, Parts(s, r, q, n)
               PROVE  ReasonAt(q) = ""
    BY <1>5 DEF Clear
  <2>1. n <= Len(q) /\ (\A m \in 1 .. n - 1 : q[m] = r[m]) /\ q[n] \in Done(s[n])
        /\ (n <= k - 1 => q[n] # r[n])
    BY <1>6 DEF Parts
  <2>2. n \in 1 .. k + 1 /\ s[n] = stack[n] /\ \A m \in 1 .. n - 1 : m \in 1 .. k - 1
    BY <1>3, <1>5
  <2>3. \A m \in 1 .. n - 1 : q[m] = p[m]
    BY <1>6, <2>1, <2>2
  <2>4. CASE q[n] # p[n]
    <3>1. Parts(stack, p, q, n)
      BY <2>1, <2>2, <2>3, <2>4 DEF Parts
    <3>. QED
      BY <1>3, <2>2, <3>1 DEF Route, Clear
  <2>5. CASE q[n] = p[n]
    <3>1. n = k
      <4>1. n <= k - 1 => n \in 1 .. k - 1
        BY <1>3
      <4>2. ~(n <= k - 1)
        BY <1>6, <2>1, <2>5, <4>1
      <4>. QED
        BY <1>3, <4>2
    <3>2. \A m \in 1 .. k : m \in 1 .. n - 1 \/ m = n
      BY <1>3, <3>1
    <3>3. Len(p) <= Len(q) /\ \A m \in 1 .. Len(p) : q[m] = p[m]
      BY <1>3, <2>1, <2>3, <2>5, <3>1, <3>2
    <3>. QED
      BY <3>3, NothingLeft
  <2>. QED
    BY <2>4, <2>5
<1>. QED
  BY <1>3, <1>5, <1>6, <1>8, <1>9, <1>10 DEF Route, s, r

(* The reason the walk finds at an item is that of the place it leads to.    *)
LEMMA ReasonHere ==
  ASSUME IInv, pc = "walk", NEW p, Route(stack, p), NEW i \in Candidates, Item(i).shown
  PROVE  /\ Item(i).key = "bad" => ReasonAt(Append(p, i)) = "nonUTF8"
         /\ Item(i).key # "bad" /\ Item(i).val \in Leaves
                => ReasonAt(Append(p, i)) = LeafReason(Item(i).val)
         /\ /\ Item(i).key # "bad" /\ Item(i).val \notin Leaves
            /\ \E m \in 1 .. Len(stack) : stack[m].cell = Item(i).val
            => ReasonAt(Append(p, i)) = "cycle"
<1>1. HeapOK /\ Calls(stack)
  BY StateFacts
<1>2. i \in DOMAIN heap[stack[Len(stack)].cell].items
      /\ Item(i) = heap[stack[Len(stack)].cell].items[i]
  BY TakenIs, TopFacts DEF Item
<1>3. PICK item : item = Item(i)
  OBVIOUS
<1>4. PICK q : q = Append(p, i)
  OBVIOUS
<1>5. /\ q \in Seq(Nat) /\ Len(q) = Len(stack) /\ q[Len(stack)] = i
      /\ \A m \in 1 .. Len(p) : q[m] = p[m]
  BY <1>1, <1>2, <1>4, ItemsPath
<1>6. /\ item = heap[stack[Len(stack)].cell].items[q[Len(q)]] /\ item.shown
      /\ q[Len(q)] \in DOMAIN heap[stack[Len(stack)].cell].items
  BY <1>2, <1>3, <1>5
<1>7. /\ item.key = "bad" => ReasonAt(q) = "nonUTF8"
      /\ item.key # "bad" /\ item.val \in Leaves => ReasonAt(q) = LeafReason(item.val)
      /\ /\ item.key # "bad" /\ item.val \notin Leaves
         /\ \E m \in 1 .. Len(stack) : stack[m].cell = item.val
         => ReasonAt(q) = "cycle"
  BY <1>1, <1>5, <1>6, ItemsReason
<1>. QED
  BY <1>3, <1>4, <1>7

(* A reason at the item the walk is at is the one to give.                   *)
LEMMA DecidedRightly ==
  ASSUME IInv, pc = "walk", NEW p, Route(stack, p), NEW i \in Candidates,
         ReasonAt(Append(p, i)) # ""
  PROVE  Given(ReasonAt(Append(p, i)))
<1>1. HeapOK /\ Calls(stack)
  BY StateFacts
<1>2. /\ TopFrame = stack[Len(stack)] /\ TopFrame.cell \in Cells
      /\ \A n \in 1 .. Len(stack) : stack[n].left \subseteq Nat
      /\ i \in stack[Len(stack)].left /\ i \in DOMAIN heap[stack[Len(stack)].cell].items
      /\ heap[TopFrame.cell].kind # "otherMap" => \A j \in stack[Len(stack)].left : i <= j
  BY TopFacts, TakenIs
<1>3. PICK P : P = Append(p, i)
  OBVIOUS
<1>4. P \in Paths
  BY <1>1, <1>2, <1>3, ItemsPath
<1>5. ASSUME \A c \in Cells : heap[c].kind # "otherMap", NEW q \in Paths, Before(q, P)
      PROVE  ReasonAt(q) = ""
  <2>1. q \in Seq(Nat)
    BY <1>1, PathsAreSequences
  <2>2. \A j \in stack[Len(stack)].left : i <= j
    BY <1>2, <1>5
  <2>. QED
    BY <1>1, <1>2, <1>3, <1>5, <2>1, <2>2, NothingBefore
<1>. QED
  BY <1>1, <1>3, <1>4, <1>5, FirstIsGiven

(* A value that is no container has its reason, and no place in it has one.  *)
LEMMA LeafIsGiven ==
  ASSUME HeapOK, root \in Leaves
  PROVE  Given(LeafReason(root))
<1>1. <<>> \in Seq(Nat) /\ Len(<<>>) = 0 /\ <<>> \in Paths /\ Paths \subseteq Seq(Nat)
  BY EmptySeq, PathsAreSequences
<1>2. root \notin Cells /\ root # "absent"
  BY CellsAssumption DEF Leaves
<1>3. PICK e : e = <<>>
  OBVIOUS
<1>4. Along(e)[0] = root
  BY <1>1, <1>3, AlongUnfolds
<1>5. ReasonAt(e) = LeafReason(root)
  <2>1. Len(e) = 0 /\ ~ (Len(e) > 0) /\ Along(e)[Len(e)] = root
    BY <1>1, <1>3, <1>4
  <2>. QED
    BY <1>2, <2>1 DEF ReasonAt
<1>6. ASSUME NEW q \in Seq(Nat), q # e PROVE ReasonAt(q) = ""
  <2>1. Len(q) \in Nat /\ Len(q) # 0
    BY <1>3, <1>6, LenProperties, EmptySeq
  <2>2. 0 \in 0 .. Len(q) /\ 0 < Len(q)
    BY <2>1
  <2>3. Along(q)[0] \notin Cells
    BY <1>2, <1>6, AlongUnfolds
  <2>. QED
    BY <2>2, <2>3, NoReasonBeyond
<1>7. CASE LeafReason(root) = ""
  BY <1>1, <1>5, <1>6, <1>7, NoneIsGiven
<1>8. CASE LeafReason(root) # ""
  <2>1. ASSUME NEW q \in Paths, Before(q, e) PROVE FALSE
    <3>1. Len(q) \in Nat /\ Len(e) = 0
      BY <1>1, <1>3, LenProperties
    <3>. QED
      BY <2>1, <3>1 DEF Before
  <2>. QED
    BY <1>1, <1>3, <1>5, <1>8, <2>1, FirstIsGiven
<1>. QED
  BY <1>7, <1>8

(* The walk sets out at the root.                                            *)
LEMMA FirstRoute ==
  ASSUME IInv, root \in Cells
  PROVE  Route(<<Frame(root)>>, <<>>)
<1> DEFINE s == <<Frame(root)>>
<1>1. Frame(root) \in Frames /\ Frame(root).cell = root /\ Done(Frame(root)) = {}
  <2>1. Frame(root) \in Frames /\ Frame(root).cell = root
    BY FrameType
  <2>. QED
    BY <2>1 DEF Done, Frame
<1>2. Len(s) = 1 /\ s[1] = Frame(root) /\ \A n \in 1 .. Len(s) : n = 1
  OBVIOUS
<1>3. <<>> \in Seq(Nat) /\ Len(<<>>) = 0 /\ \A n \in 1 .. 0 : FALSE
  BY EmptySeq
<1> HIDE DEF s
<1>4. \A n \in 1 .. Len(s) : Done(s[n]) = {}
  BY <1>1, <1>2
<1>5. OnRoute(s, <<>>)
  BY <1>1, <1>2, <1>3 DEF OnRoute
<1>6. InOrder(s, <<>>)
  BY <1>4 DEF InOrder
<1>7. Clear(s, <<>>)
  BY <1>4 DEF Clear, Parts
<1>. QED
  BY <1>2, <1>3, <1>5, <1>6, <1>7 DEF Route, s

(* The inductive invariant behind ReasonIsTheFirst: while it walks it has    *)
(* found no reason, and its calls are a route.                               *)
OnItsWay ==
    /\ pc \in {"start", "walk"} => why = ""
    /\ pc = "walk" => \E p : Route(stack, p)

RInv == IInv /\ OnItsWay /\ ReasonIsTheFirst

LEMMA InitRInv == Init => RInv
  BY InitIInv DEF Init, RInv, OnItsWay, ReasonIsTheFirst

LEMMA ReasonsGiven ==
  /\ ReasonIsTheFirst <=> (pc \in {"decided", "replied"} => Given(why))
  /\ ReasonIsTheFirst' <=> (pc' \in {"decided", "replied"} => Given(why)')
<1>1. ReasonIsTheFirst <=> (pc \in {"decided", "replied"} => Given(why))
  BY DEF ReasonIsTheFirst, Given
<1>2. ReasonIsTheFirst' <=> (pc' \in {"decided", "replied"} => Given(why)')
  BY DEF ReasonIsTheFirst, Given
<1>. QED
  BY <1>1, <1>2

(* Deciding by the reason to give keeps the invariant.                       *)
LEMMA DecideGives ==
  ASSUME NEW r, Decide(r), Given(r), UNCHANGED <<heap, root, reply>>
  PROVE  OnItsWay' /\ ReasonIsTheFirst'
<1>1. why' = r /\ pc' = "decided"
  BY DEF Decide
<1>2. Given(r)'
  BY ReasonsStay
<1>3. Given(why)'
  BY <1>1, <1>2
<1>. QED
  BY <1>1, <1>3, ReasonsGiven DEF OnItsWay

LEMMA NextRInv == RInv /\ [Next]_vars => RInv'
<1> SUFFICES ASSUME RInv, [Next]_vars PROVE OnItsWay' /\ ReasonIsTheFirst'
  BY NextIInv DEF RInv
<1> USE DEF RInv
<1>1. CASE StartAtLeaf
  BY <1>1, LeafIsGiven, StateFacts, DecideGives DEF StartAtLeaf
<1>2. CASE StartAtCell
  <2>1. /\ pc = "start" /\ root \in Cells /\ stack' = <<Frame(root)>> /\ pc' = "walk"
        /\ UNCHANGED <<heap, root, why>>
    BY <1>2 DEF StartAtCell
  <2>2. Route(stack', <<>>)
    BY <2>1, FirstRoute
  <2>3. Route(stack, <<>>)'
    BY <2>1, <2>2, RouteStays
  <2>. QED
    BY <2>1, <2>3, ReasonsGiven DEF OnItsWay
<1>3. CASE TakeItem
  <2>1. pc = "walk" /\ why = "" /\ UNCHANGED <<heap, root, reply>>
    BY <1>3 DEF TakeItem, OnItsWay
  <2>2. PICK p : Route(stack, p)
    BY <2>1 DEF OnItsWay
  <2>3. PICK i \in Candidates : Skip(i) \/ BadKey(i) \/ BadLeaf(i) \/ Cycle(i) \/ Enter(i)
    BY <1>3 DEF TakeItem
  <2>4. ASSUME NEW r, Decide(r), r = ReasonAt(Append(p, i)), r # ""
        PROVE  OnItsWay' /\ ReasonIsTheFirst'
    BY <2>1, <2>2, <2>4, DecidedRightly, DecideGives
  <2>5. ASSUME NEW p1, Route(stack', p1), UNCHANGED <<why, pc>>
        PROVE  OnItsWay' /\ ReasonIsTheFirst'
    <3>1. Route(stack, p1)'
      BY <2>1, <2>5, RouteStays
    <3>. QED
      BY <2>1, <2>5, <3>1, ReasonsGiven DEF OnItsWay
  <2>6. CASE BadKey(i)
    BY <2>1, <2>2, <2>4, <2>6, ReasonHere DEF BadKey
  <2>7. CASE BadLeaf(i)
    <3>1. Item(i).val \in Leaves /\ LeafReason(Item(i).val) # ""
          /\ Item(i).shown /\ Item(i).key # "bad" /\ Decide(LeafReason(Item(i).val))
      BY <2>7 DEF BadLeaf, Leaves, LeafReason, Reasons
    <3>. QED
      BY <2>1, <2>2, <2>4, <3>1, ReasonHere
  <2>8. CASE Cycle(i)
    <3>1. /\ Item(i).shown /\ Item(i).key # "bad" /\ Item(i).val \in Cells
          /\ Key(Item(i).val) \in onPath /\ Decide("cycle")
      BY <2>8 DEF Cycle, Refers
    <3>2. PICK n \in 1 .. Len(stack) : Key(Item(i).val) = Key(stack[n].cell)
      BY <3>1 DEF IInv, PathIsTheStack
    <3>3. stack[n].cell \in Cells
      BY <2>2, <3>2, StateFacts, RouteLeads
    <3>4. stack[n].cell = Item(i).val
      BY <3>1, <3>2, <3>3, KeysAreDistinct
    <3>5. Item(i).val \notin Leaves
      BY <3>1, CellsAssumption
    <3>6. ReasonAt(Append(p, i)) = "cycle"
      BY <2>1, <2>2, <3>1, <3>2, <3>4, <3>5, ReasonHere
    <3>. QED
      BY <2>4, <3>1, <3>6
  <2>9. CASE Skip(i)
    <3>1. Route(Taken(i), p) /\ stack' = Taken(i) /\ UNCHANGED <<why, pc>>
      BY <2>1, <2>2, <2>9, SkippedRoute DEF Skip
    <3>. QED
      BY <2>5, <3>1
  <2>10. CASE Enter(i)
    <3>1. Refers(i) /\ stack' = Append(Taken(i), Frame(Item(i).val)) /\ UNCHANGED <<why, pc>>
      BY <2>10 DEF Enter
    <3>2. Route(stack', Append(p, i))
      BY <2>1, <2>2, <3>1, EnteredRoute
    <3>. QED
      BY <2>5, <3>1, <3>2
  <2>. QED
    BY <2>3, <2>6, <2>7, <2>8, <2>9, <2>10
<1>4. CASE Leave
  <2>1. /\ pc = "walk" /\ why = "" /\ TopFrame.left = {}
        /\ stack' = SubSeq(stack, 1, Len(stack) - 1)
        /\ pc' = IF Len(stack) = 1 THEN "decided" ELSE "walk"
        /\ UNCHANGED <<heap, root, why, reply>>
    BY <1>4 DEF Leave, OnItsWay
  <2>2. PICK p : Route(stack, p)
    BY <2>1 DEF OnItsWay
  <2>3. CASE Len(stack) # 1
    <3>1. Route(stack', SubSeq(p, 1, Len(p) - 1))
      BY <2>1, <2>2, <2>3, LeftRoute
    <3>2. Route(stack, SubSeq(p, 1, Len(p) - 1))'
      BY <2>1, <3>1, RouteStays
    <3>. QED
      BY <2>1, <2>3, <3>2, ReasonsGiven DEF OnItsWay
  <2>4. CASE Len(stack) = 1
    <3>1. Len(p) = 0
      BY <2>2, <2>4, RouteFacts
    <3>2. \A q \in Seq(Nat) : Len(p) <= Len(q) /\ \A m \in 1 .. Len(p) : q[m] = p[m]
      BY <3>1, LenProperties
    <3>3. \A q \in Paths : ReasonAt(q) = ""
      BY <2>1, <2>2, <3>2, NothingLeft, PathsAreSequences, StateFacts
    <3>4. Given("")'
      BY <2>1, <3>3, NoneIsGiven, ReasonsStay
    <3>5. Given(why)'
      BY <2>1, <3>4
    <3>. QED
      BY <2>1, <2>4, <3>5, ReasonsGiven DEF OnItsWay
  <2>. QED
    BY <2>3, <2>4
<1>5. CASE Reply
  <2>1. pc = "decided" /\ pc' = "replied" /\ UNCHANGED <<heap, root, why>>
    BY <1>5 DEF Reply
  <2>2. Given(why)'
    BY <2>1, ReasonsGiven, ReasonsStay
  <2>. QED
    BY <2>1, <2>2, ReasonsGiven DEF OnItsWay
<1>6. CASE UNCHANGED vars
  <2>1. UNCHANGED <<heap, root, stack, why, pc>>
    BY <1>6 DEF vars
  <2>2. ASSUME pc = "walk" PROVE \E p : Route(stack, p)'
    <3>1. PICK p : Route(stack, p)
      BY <2>2 DEF OnItsWay
    <3>2. Route(stack', p)
      BY <2>1, <3>1
    <3>. QED
      BY <2>1, <3>2, RouteStays
  <2>3. ASSUME pc \in {"decided", "replied"} PROVE Given(why)'
    BY <2>1, <2>3, ReasonsGiven, ReasonsStay
  <2>. QED
    BY <2>1, <2>2, <2>3, ReasonsGiven DEF OnItsWay
<1>. QED
  BY <1>1, <1>2, <1>3, <1>4, <1>5, <1>6 DEF Next

(* For every heap: the reason is that of the first place, in the order       *)
(* encoding/json emits them, that could not be emitted faithfully; where     *)
(* some map's keys are not strings it is that of some such place, and none   *)
(* is given where there is none.                                             *)
THEOREM ReasonsComeFirst == Spec => []ReasonIsTheFirst
<1>1. RInv => ReasonIsTheFirst
  BY DEF RInv
<1>. QED
  BY InitRInv, NextRInv, <1>1, PTL DEF Spec
=============================================================================
