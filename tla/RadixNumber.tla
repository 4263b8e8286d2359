---------------------------- MODULE RadixNumber ----------------------------
(* How the three ports turn an uppercase-prefixed hexadecimal literal        *)
(* (`0X1F`, `-0Xa6f2f78f4f9bf44`) into a double: parseUppercaseHex of        *)
(* ts/src/json5.ts and go/json5.go, radix_literal_value and digits_to_f64 of *)
(* rs/src/lib.rs.  The machine's widths are constants, so that small ones    *)
(* show every rounding case: the code has Bits = 4 (hexadecimal, the only    *)
(* base the plugin's own definition matches), Precision = 53, HeadWidth =    *)
(* 128, IntWidth = 63 and MaxExponent = 1023.                                *)
EXTENDS Integers, Sequences, SequencesExt

CONSTANTS Bits,         \* width of one digit
          Precision,    \* significant bits of a double
          HeadWidth,    \* bits of the u128 head
          IntWidth,     \* bits of an int64's magnitude
          MaxExponent,  \* the largest exponent of a finite double
          Literals      \* the digit strings after the prefix

\* 2 ^ k.
TwoTo[k \in Nat] == IF k = 0 THEN 1 ELSE 2 * TwoTo[k - 1]

ASSUME WidthsAssumption ==
    /\ Bits \in Nat \ {0} /\ Precision \in Nat \ {0}
    /\ HeadWidth \in Nat /\ IntWidth \in Nat
    /\ Precision + 2 * Bits < HeadWidth + 2
    /\ MaxExponent \in Nat /\ MaxExponent > Precision

ASSUME LiteralsAssumption == \A ds \in Literals : ds \in Seq(0 .. TwoTo[Bits] - 1)

VARIABLES port,      \* "ts", "go" or "rs"
          sign,      \* the literal's sign, "" where it has none
          digits,    \* the digits after the prefix, as written
          read,      \* Rust: how many digits radix_literal_value has taken
          taken,     \* Rust: the digits it has collected
          pc,        \* "sign", "digits", "round" or "done"
          negative,  \* whether the sign has turned out to be "-"
          value      \* the number the literal became

vars == <<port, sign, digits, read, taken, pc, negative, value>>

-----------------------------------------------------------------------------
(* Doubles.  A magnitude is a natural number: a finite one itself, Infinity  *)
(* the number at which rounding reaches it.                                  *)

Infinity == TwoTo[MaxExponent + 1]

Doubles == {m * TwoTo[e] : m \in 0 .. TwoTo[Precision] - 1,
                           e \in 0 .. MaxExponent + 1 - Precision} \cup {Infinity}

\* The double nearest to n, ties to the even mantissa, as IEEE 754 rounds.
Nearest(n) ==
    IF n >= Infinity THEN Infinity
    ELSE LET below == CHOOSE d \in Doubles :
                          d <= n /\ \A e \in Doubles : e <= n => e <= d
             above == CHOOSE d \in Doubles :
                          d >= n /\ \A e \in Doubles : e >= n => d <= e
         IN  IF n - below < above - n THEN below
             ELSE IF n - below > above - n THEN above
             ELSE IF n = below THEN n
             ELSE IF (below \div (above - below)) % 2 = 0 THEN below ELSE above

\* A product of doubles, the second a power of two.
Product(m, p) == IF m * p >= Infinity THEN Infinity ELSE m * p

\* The integer a run of digits denotes.
Pack(run) ==
    LET packed[k \in 0 .. Len(run)] ==
            IF k = 0 THEN 0 ELSE packed[k - 1] * TwoTo[Bits] + run[k]
    IN  packed[Len(run)]

Number(neg, magnitude) == [negative |-> neg, magnitude |-> magnitude]

-----------------------------------------------------------------------------
(* digits_to_f64                                                             *)

\* How many bits a positive n takes.
Width(n) == CHOOSE w \in 1 .. HeadWidth : TwoTo[w - 1] <= n /\ n < TwoTo[w]

pow2(k) == IF k > MaxExponent THEN Infinity ELSE TwoTo[k]

HeadLen == HeadWidth \div Bits

LeadingZerosDropped(ds) == SelectInSeq(ds, LAMBDA d : d # 0)

\* Plausible mistakes in LongToDouble.
LongForgettingTail(ds) ==
    LET head == Pack(SubSeq(ds, 1, HeadLen))
        shift == Width(head) - Precision
        mantissa == head \div TwoTo[shift]
        half == (head \div TwoTo[shift - 1]) % 2 = 1
        sticky == head % TwoTo[shift - 1] # 0
        up == IF half /\ (sticky \/ mantissa % 2 = 1) THEN 1 ELSE 0
    IN  Product(mantissa + up, pow2(Bits * (Len(ds) - HeadLen) + shift))

\* More digits than the head holds: its top Precision bits, rounded by the
\* bit below them and by whether anything further down is set.
LongToDouble(ds) ==
    LET head == Pack(SubSeq(ds, 1, HeadLen))
        tail == SubSeq(ds, HeadLen + 1, Len(ds))
        dropped == Bits * Len(tail)
        shift == Width(head) - Precision
        mantissa == head \div TwoTo[shift]
        half == (head \div TwoTo[shift - 1]) % 2 = 1
        sticky == \/ head % TwoTo[shift - 1] # 0
                  \/ \E i \in 1 .. Len(tail) : tail[i] # 0
        up == IF half /\ (sticky \/ mantissa % 2 = 1) THEN 1 ELSE 0
    IN  Product(mantissa + up, pow2(dropped + shift))

digits_to_f64(digs) ==
    LET start == LeadingZerosDropped(digs)
        ds == SubSeq(digs, start, Len(digs))
    IN  IF start = 0 THEN 0
        ELSE IF Len(ds) <= HeadLen THEN Nearest(Pack(ds))  \* `as f64`
        ELSE LongToDouble(ds)

-----------------------------------------------------------------------------
(* The external conversions of the other two ports.                          *)

\* parseInt(s, 16): the exact integer, rounded once.
parseInt(ds) == Nearest(Pack(ds))

\* strconv.ParseInt(s, 16, 64), whose error parseUppercaseHex drops: the
\* largest int64 stands in for what does not fit.
ParseInt(ds) == IF Pack(ds) < TwoTo[IntWidth] THEN Pack(ds) ELSE TwoTo[IntWidth] - 1

-----------------------------------------------------------------------------
(* The three conversions, from the text the definition matched.              *)

Init ==
    /\ port \in {"ts", "go", "rs"}
    /\ sign \in {"", "+", "-"}
    /\ digits \in Literals
    /\ read = 0 /\ taken = <<>>
    /\ pc = "sign"
    /\ negative = FALSE
    /\ value = Number(FALSE, 0)

TakeSign ==
    /\ pc = "sign"
    /\ negative' = (sign = "-")
    /\ pc' = IF port = "rs" THEN "digits" ELSE "round"
    /\ UNCHANGED <<port, sign, digits, read, taken, value>>

\* Rust collects the digit values before it folds them.
TakeDigit ==
    /\ pc = "digits"
    /\ read < Len(digits)
    /\ taken' = Append(taken, digits[read + 1])
    /\ read' = read + 1
    /\ UNCHANGED <<port, sign, digits, pc, negative, value>>

AllDigitsTaken ==
    /\ pc = "digits"
    /\ read = Len(digits)
    /\ pc' = "round"
    /\ UNCHANGED <<port, sign, digits, read, taken, negative, value>>

\* sign * parseInt(...): the product keeps the sign of a zero.
RoundTs ==
    /\ pc = "round" /\ port = "ts"
    /\ value' = Number(negative, parseInt(digits))
    /\ pc' = "done"
    /\ UNCHANGED <<port, sign, digits, read, taken, negative>>

\* float64(sign * n): an integer product, so zero loses its sign.
RoundGo ==
    /\ pc = "round" /\ port = "go"
    /\ LET n == ParseInt(digits)
       IN  value' = Number(negative /\ n # 0, Nearest(n))
    /\ pc' = "done"
    /\ UNCHANGED <<port, sign, digits, read, taken, negative>>

RoundRs ==
    /\ pc = "round" /\ port = "rs"
    /\ value' = Number(negative, digits_to_f64(taken))
    /\ pc' = "done"
    /\ UNCHANGED <<port, sign, digits, read, taken, negative>>

Next == TakeSign \/ TakeDigit \/ AllDigitsTaken \/ RoundTs \/ RoundGo \/ RoundRs

Spec == Init /\ [][Next]_vars

-----------------------------------------------------------------------------
(* Properties                                                                *)

\* The literal's own number: its exact integer rounded once, with its sign.
LiteralsNumber == Number(sign = "-", Nearest(Pack(digits)))

\* An uppercase hexadecimal literal becomes the double nearest to its exact
\* integer, rounded once, half to even, with its sign: always in TypeScript
\* and Rust, and in Go as long as the integer fits an int64 and is not zero.
\* What breaks it is a second rounding, a tie decided without the digits
\* below the head, or an overflow that is not Infinity.
RoundsOnce ==
    pc = "done" /\ (port = "go" => Pack(digits) \in 1 .. TwoTo[IntWidth] - 1)
        => value = LiteralsNumber

\* test/spec/numbers.tsv: "A hexadecimal literal wider than the exact double
\* integer range has to be rounded ONCE from the exact integer, the way
\* ECMAScript parseInt does it."  Stated of every port and every width.
WideLiteralsAreRoundedOnce ==
    pc = "done" /\ Pack(digits) >= TwoTo[Precision]
        => value.magnitude = Nearest(Pack(digits))
=============================================================================
