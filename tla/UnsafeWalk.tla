----------------------------- MODULE UnsafeWalk -----------------------------
(* jsonUnsafe of go/clib/core.go: the walk over a parsed value that decides, *)
(* before encoding/json sees it, whether the reply of tabnas_parse may carry *)
(* the value.  The value is a heap of cells that may share and may form      *)
(* cycles.  A cell is what the walk keeps on its path: a pointer, map or     *)
(* slice, with the structs, arrays and interfaces inside it flattened into   *)
(* its items, in the order the walk takes them.                              *)
EXTENDS Naturals, Sequences, FiniteSets

CONSTANTS Cells,     \* the containers of the heap
          Values     \* the values to walk: a heap and a root in it

(* An item is what a container holds at one place:                           *)
(*   key    "none", "good" or "bad" (not UTF-8)                              *)
(*   shown  whether encoding/json emits it (a struct's field may be hidden)  *)
(*   val    a cell, or one of the Leaves                                     *)
(* A cell has a kind, an address, a length (0 for all but a slice) and items.*)
Leaves == {"plain",     \* a scalar, null, bytes, an empty container
           "nonUTF8",   \* a string or raw fragment that is not UTF-8
           "big",       \* a big.Int or big.Float
           "nan",       \* a float that encoding/json refuses
           "opaque"}    \* a value whose inspection panics

Kinds == {"pointer", "ordered", "stringMap", "otherMap", "slice"}

Reasons == {"nonUTF8", "big", "cycle", "opaque"}

\* A heap is finite; "absent" is no container.
ASSUME CellsAssumption ==
    /\ IsFiniteSet(Cells)
    /\ Cells \cap (Leaves \cup {"absent"}) = {}

\* Every item is a container or a leaf, and no two containers share address,
\* length and type: they would be one.
ASSUME ValuesAssumption ==
    \A v \in Values :
        /\ v.root \in Cells \cup Leaves
        /\ \A c \in Cells : DOMAIN v.heap[c].items \in SUBSET Nat
        /\ \A c \in Cells : \A i \in DOMAIN v.heap[c].items :
               v.heap[c].items[i].val \in Cells \cup Leaves
        /\ \A c, d \in Cells :
               /\ v.heap[c].addr = v.heap[d].addr
               /\ v.heap[c].kind = v.heap[d].kind
               /\ v.heap[c].len = v.heap[d].len
               => c = d

VARIABLES heap,      \* a function from Cells to their contents
          root,      \* the parsed value: a cell or a leaf
          stack,     \* the calls of container not yet returned
          onPath,    \* unsafeWalk.onPath
          why,       \* the reason found, "" while there is none
          pc,        \* "start", "walk", "decided" or "replied"
          reply      \* what acceptDoc sends: "none", "value" or "valueError"

vars == <<heap, root, stack, onPath, why, pc, reply>>

-----------------------------------------------------------------------------

\* A mistake in Key: a slice and a shorter slice of it share an address.
KeyByAddress(c) == <<heap[c].addr, heap[c].kind, 0>>

\* pathKey: a container is known by its address, its length and its type.
Key(c) == <<heap[c].addr, heap[c].kind, heap[c].len>>

Frame(c) == [cell |-> c, left |-> DOMAIN heap[c].items]

TopFrame == stack[Len(stack)]

Item(i) == heap[TopFrame.cell].items[i]

\* A mistake in Candidates: every map is walked as Go iterates it.
CandidatesUnsorted == TopFrame.left

\* The items the walk may take next: a map whose keys are not strings is
\* walked in Go's iteration order, which is any.
Candidates ==
    IF heap[TopFrame.cell].kind = "otherMap" THEN TopFrame.left
    ELSE {i \in TopFrame.left : \A j \in TopFrame.left : i <= j}

\* A mistake in Taken: the loop does not move on.
TakenAgain(i) == stack

Taken(i) == [stack EXCEPT ![Len(stack)].left = @ \ {i}]

\* A reason ends every call on the way out, and each deletes its own key.
Decide(reason) ==
    /\ why' = reason
    /\ stack' = <<>>
    /\ onPath' = {}
    /\ pc' = "decided"

-----------------------------------------------------------------------------

Init ==
    /\ \E v \in Values : heap = v.heap /\ root = v.root
    /\ stack = <<>> /\ onPath = {}
    /\ why = ""
    /\ pc = "start"
    /\ reply = "none"

\* A leaf's reason: opaque is what the recovered panic leaves.
LeafReason(v) == IF v \in Reasons THEN v ELSE ""

StartAtLeaf ==
    /\ pc = "start"
    /\ root \in Leaves
    /\ Decide(LeafReason(root))
    /\ UNCHANGED <<heap, root, reply>>

StartAtCell ==
    /\ pc = "start"
    /\ root \in Cells
    /\ stack' = <<Frame(root)>>
    /\ onPath' = {Key(root)}
    /\ pc' = "walk"
    /\ UNCHANGED <<heap, root, why, reply>>

\* A mistake in Skip: an item whose key is not UTF-8 is passed over by its
\* value alone.
SkipByValue(i) ==
    /\ ~ Item(i).shown \/ Item(i).val \in {"plain", "nan"}
    /\ stack' = Taken(i)
    /\ UNCHANGED <<onPath, why, pc>>

\* A field that is not emitted is not walked, and a leaf that is safe, or
\* that encoding/json refuses by itself, gives no reason.
Skip(i) ==
    /\ \/ ~ Item(i).shown
       \/ Item(i).key # "bad" /\ Item(i).val \in {"plain", "nan"}
    /\ stack' = Taken(i)
    /\ UNCHANGED <<onPath, why, pc>>

BadKey(i) ==
    /\ Item(i).shown
    /\ Item(i).key = "bad"
    /\ Decide("nonUTF8")

BadLeaf(i) ==
    /\ Item(i).shown
    /\ Item(i).key # "bad"
    /\ Item(i).val \in {"nonUTF8", "big", "opaque"}
    /\ Decide(LeafReason(Item(i).val))

Refers(i) ==
    /\ Item(i).shown
    /\ Item(i).key # "bad"
    /\ Item(i).val \in Cells

Cycle(i) ==
    /\ Refers(i)
    /\ Key(Item(i).val) \in onPath
    /\ Decide("cycle")

Enter(i) ==
    /\ Refers(i)
    /\ Key(Item(i).val) \notin onPath
    /\ stack' = Append(Taken(i), Frame(Item(i).val))
    /\ onPath' = onPath \cup {Key(Item(i).val)}
    /\ UNCHANGED <<why, pc>>

TakeItem ==
    /\ pc = "walk"
    /\ \E i \in Candidates : Skip(i) \/ BadKey(i) \/ BadLeaf(i) \/ Cycle(i) \/ Enter(i)
    /\ UNCHANGED <<heap, root, reply>>

\* A mistake in Leave: the key stays on the path.
LeaveMarked ==
    /\ pc = "walk"
    /\ TopFrame.left = {}
    /\ stack' = SubSeq(stack, 1, Len(stack) - 1)
    /\ pc' = IF Len(stack) = 1 THEN "decided" ELSE "walk"
    /\ UNCHANGED <<heap, root, onPath, why, reply>>

\* container returns: its deferred delete takes its key off the path.
Leave ==
    /\ pc = "walk"
    /\ TopFrame.left = {}
    /\ stack' = SubSeq(stack, 1, Len(stack) - 1)
    /\ onPath' = onPath \ {Key(TopFrame.cell)}
    /\ pc' = IF Len(stack) = 1 THEN "decided" ELSE "walk"
    /\ UNCHANGED <<heap, root, why, reply>>

-----------------------------------------------------------------------------
(* What encoding/json does with the value (external): it emits the items     *)
(* that are shown, in order, and refuses a value that holds a NaN.           *)

\* One step of emission leads from a cell to the cells it shows.
Shows(c) == {heap[c].items[i].val : i \in {j \in DOMAIN heap[c].items :
                                              heap[c].items[j].shown}}

\* The cells that emission reaches from some values: the least set that
\* holds them and is closed under Shows.
Reached(from) ==
    LET closed(S) == \A c \in S : Shows(c) \cap Cells \subseteq S
    IN  {c \in Cells : \A S \in SUBSET Cells :
                           from \cap Cells \subseteq S /\ closed(S) => c \in S}

Emitted == Reached({root})

EmittedLeaves == ((UNION {Shows(c) : c \in Emitted}) \cup {root}) \ Cells

MarshalRefuses == "nan" \in EmittedLeaves

\* A mistake in Reply: the marshaller is trusted to refuse what it cannot say.
ReplyTrusting ==
    /\ pc = "decided"
    /\ reply' = IF MarshalRefuses THEN "valueError" ELSE "value"
    /\ pc' = "replied"
    /\ UNCHANGED <<heap, root, stack, onPath, why>>

\* acceptDoc
Reply ==
    /\ pc = "decided"
    /\ reply' = IF why # "" \/ MarshalRefuses THEN "valueError" ELSE "value"
    /\ pc' = "replied"
    /\ UNCHANGED <<heap, root, stack, onPath, why>>

Next == StartAtLeaf \/ StartAtCell \/ TakeItem \/ Leave \/ Reply

Spec == Init /\ [][Next]_vars

FairSpec == Spec /\ WF_vars(Next)

-----------------------------------------------------------------------------
(* Properties                                                                *)

\* Type correctness: a frame's items are its cell's.
TypeOK ==
    /\ root \in Cells \cup Leaves
    /\ stack \in Seq([cell : Cells, left : SUBSET Nat])
    /\ \A n \in 1 .. Len(stack) : stack[n].left \subseteq DOMAIN heap[stack[n].cell].items
    /\ why \in Reasons \cup {""}
    /\ pc \in {"start", "walk", "decided", "replied"}
    /\ pc = "walk" => stack # <<>>
    /\ reply \in {"none", "value", "valueError"}

\* onPath holds the containers between the root and the value being walked,
\* each once: the calls that have not returned, no other, and never two of
\* the same container.  It is what bounds the recursion by the heap.
PathIsTheStack ==
    /\ onPath = {Key(stack[n].cell) : n \in 1 .. Len(stack)}
    /\ \A m, n \in 1 .. Len(stack) :
           Key(stack[m].cell) = Key(stack[n].cell) => m = n

\* What encoding/json says of an item itself is true, when the cells in S are.
Faithful(c, i, S) ==
    LET item == heap[c].items[i]
    IN  item.shown => item.key # "bad" /\ item.val \in S \cup {"plain", "nan"}

\* The containers emission can say truly and finish: those that show only
\* what it says truly and containers of that sort, and so no cycle.
SafeCells ==
    {c \in Cells : \A S \in SUBSET Cells :
        (\A d \in Cells : (\A i \in DOMAIN heap[d].items : Faithful(d, i, S)) => d \in S)
            => c \in S}

\* When the walk gives no reason, there is none anywhere in the value: it
\* has skipped nothing that encoding/json emits, along any path.
WalkClears ==
    pc \in {"decided", "replied"} /\ why = ""
        => root \in SafeCells \cup {"plain", "nan"}

\* Emission says the value truly: it reaches no leaf and no key that it would
\* corrupt (not UTF-8, a big number) or refuse, and no container from itself.
SaidTruly ==
    /\ EmittedLeaves \subseteq {"plain"}
    /\ \A c \in Emitted : \A i \in DOMAIN heap[c].items :
           heap[c].items[i].shown => heap[c].items[i].key # "bad"
    /\ \A c \in Emitted : c \notin Reached(Shows(c))

\* A reply carries the value exactly when encoding/json says it truly,
\* however deep the trouble lies and however often containers are shared:
\* sharing is not a cycle, and what is not emitted gives no reason.
ValueIffSaidTruly == pc = "replied" => (reply = "value" <=> SaidTruly)

\* The steps from the root along the items p takes, "absent" where p leaves
\* the value: a path is the places encoding/json is in while it emits.
Along(p) ==
    LET at[n \in 0 .. Len(p)] ==
            IF n = 0 THEN root
            ELSE IF /\ at[n - 1] \in Cells
                    /\ p[n] \in DOMAIN heap[at[n - 1]].items
                    /\ heap[at[n - 1]].items[p[n]].shown
                 THEN heap[at[n - 1]].items[p[n]].val
                 ELSE "absent"
    IN  at

\* Why the place a path ends in cannot be emitted, "" where it can.
ReasonAt(p) ==
    LET at == Along(p)
        n == Len(p)
        badKey == n > 0 /\ heap[at[n - 1]].items[p[n]].key = "bad"
    IN  IF at[n] = "absent" THEN ""
        ELSE IF badKey THEN "nonUTF8"
        ELSE IF at[n] \in Leaves THEN LeafReason(at[n])
        ELSE IF \E k \in 0 .. n - 1 : at[k] = at[n] THEN "cycle" ELSE ""

\* The paths no longer than it takes to meet a cell twice.
Paths ==
    LET places == UNION {DOMAIN heap[c].items : c \in Cells}
    IN  UNION {[1 .. n -> places] : n \in 0 .. Cardinality(Cells)}

\* p is emitted before q: it leads to q, or is before it where they part.
Before(p, q) ==
    \/ Len(p) < Len(q) /\ p = SubSeq(q, 1, Len(p))
    \/ \E n \in 1 .. Len(p) :
           /\ n <= Len(q)
           /\ \A k \in 1 .. n - 1 : p[k] = q[k]
           /\ p[n] < q[n]

FirstOf(S) == CHOOSE p \in S : \A q \in S : ~ Before(q, p)

FirstReason ==
    LET bad == {p \in Paths : ReasonAt(p) # ""}
    IN  IF bad = {} THEN "" ELSE ReasonAt(FirstOf(bad))

\* The reason is that of the first place, in the order encoding/json emits
\* them, that could not be emitted faithfully; where a map's keys are not
\* strings it is that of some such place, and none is given where none is.
ReasonIsTheFirst ==
    pc \in {"decided", "replied"} =>
        IF \A c \in Cells : heap[c].kind # "otherMap" THEN why = FirstReason
        ELSE /\ why \in {ReasonAt(p) : p \in Paths}
             /\ why = "" => \A p \in Paths : ReasonAt(p) = ""

\* The walk ends on every heap, cyclic ones too, and acceptDoc replies.
WalkEnds == <>(pc = "replied")
=============================================================================
