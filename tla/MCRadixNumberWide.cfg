SPECIFICATION Spec
CONSTANTS
    Bits = 4
    Precision = 5
    HeadWidth = 12
    IntWidth = 8
    MaxExponent = 17
    MaxDigits = 3
    Literals <- MCLiterals
INVARIANT WideLiteralsAreRoundedOnce
CHECK_DEADLOCK FALSE
