--------------------------- MODULE MCRadixNumber ---------------------------
(* Small widths for RadixNumber: a double of 5 bits, a head of 3 digits, an  *)
(* int64 of 8 bits, so that ties, sticky tails, saturation and overflow to   *)
(* Infinity are reached by literals of up to five digits.                     *)
EXTENDS RadixNumber

CONSTANT MaxDigits   \* bound: the digits of a literal

\* Digits that set the first, the last, both or no bits.
SomeDigits == {0, 1, 8, 15}

MCLiterals == UNION {[1 .. n -> SomeDigits] : n \in 1 .. MaxDigits}
=============================================================================
