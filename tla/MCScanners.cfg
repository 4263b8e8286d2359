SPECIFICATION ScannersFairSpec
CONSTANTS
    Bits = 4
    Precision = 5
    HeadWidth = 12
    IntWidth = 8
    MaxExponent = 17
    MaxDigits = 5
    Literals <- MCLiterals
    MaxPieces = 4
    Keys <- MCKeys
    Texts <- MCTexts
    infinity = TRUE
    MaxLength = 5
    MaxStringPieces = 3
    Strings <- MCStrings
    Readers <- MCReaders
INVARIANTS
    NamesAndOnlyNames
    KeyIsTheName
    RoundsOnce
    AnswersAreTheSpecified
    ReadsExactlyTheLiterals
    ValueIsTheLiterals
    ClosesAtTheClosingQuote
    PositionIsTheSources
PROPERTIES
    EveryStringIsDecided
CHECK_DEADLOCK FALSE
