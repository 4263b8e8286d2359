---------------------------- MODULE MCUnsafeWalk ----------------------------
(* Heaps for UnsafeWalk: every container of each kind with up to two items,  *)
(* referring to itself, to each other or to leaves of every sort.            *)
EXTENDS UnsafeWalk, TLC

CONSTANTS c1, c2, c3

PlainItem(v) == [key |-> "none", shown |-> TRUE, val |-> v]
NamedItem(k, v) == [key |-> k, shown |-> TRUE, val |-> v]
HiddenField(v) == [key |-> "none", shown |-> FALSE, val |-> v]

UpToTwo(items) == {<<>>} \cup [1 .. 1 -> items] \cup [1 .. 2 -> items]

\* A container with an address of its own.
At(address, kind, contents) ==
    {[addr |-> address, kind |-> kind, len |-> IF kind = "slice" THEN Len(s) ELSE 0,
      items |-> s] : s \in {t \in contents : kind = "slice" => t # <<>>}}

\* Two containers, the first of any kind and any contents.
AnyContainer(a, vals) ==
    UNION {
      At(a, "pointer", UpToTwo({PlainItem(v) : v \in vals}
                               \cup {HiddenField("nonUTF8"), HiddenField(c1)})),
      At(a, "ordered", UpToTwo({NamedItem("good", v) : v \in vals}
                               \cup {NamedItem("bad", "plain"), NamedItem("bad", c2)})),
      At(a, "slice", UpToTwo({PlainItem(v) : v \in vals}))}

MapOf(a, vals) ==
    At(a, "stringMap", UpToTwo({NamedItem(k, v) : k \in {"good", "bad"}, v \in vals}))

OtherMap(a, vals) == At(a, "otherMap", UpToTwo({PlainItem(v) : v \in vals}))

Value(r, h) == [root |-> r, heap |-> h]

AllLeaves == {"plain", "nonUTF8", "big", "nan", "opaque", c1, c2}
FewLeaves == {"plain", "nonUTF8", c1, c2}

Empty(c, a) == c :> [addr |-> a, kind |-> "pointer", len |-> 0, items |-> <<>>]

Unused == Empty(c3, 3)

TwoValues ==
    {Value(c1, (c1 :> x) @@ (c2 :> y) @@ Unused) :
        x \in AnyContainer(1, AllLeaves),
        y \in MapOf(2, FewLeaves \ {c2}) \cup OtherMap(2, FewLeaves)}
    \cup {Value(v, Empty(c1, 1) @@ Empty(c2, 2) @@ Unused) : v \in Leaves}

\* Three slices: the second a shorter slice of the first, at its address.
SharedSlices ==
    LET vals == {"plain", "big", c1, c2, c3}
        slices(a) == At(a, "slice", UpToTwo({PlainItem(v) : v \in vals}))
        shorter(x) == [x EXCEPT !.len = 1, !.items = <<x.items[1]>>]
    IN  {Value(c1, (c1 :> x) @@ (c2 :> shorter(x)) @@ (c3 :> z)) :
            x \in {y \in slices(1) : y.len = 2}, z \in slices(2)}

MCValues == TwoValues \cup SharedSlices
=============================================================================
