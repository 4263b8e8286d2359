------------------------------ MODULE Scanners ------------------------------
(* The readers the plugin brings beside the engine's lexer, each by itself:  *)
(* an unquoted key (Identifier), an uppercase hexadecimal literal            *)
(* (RadixNumber), a string with a continuation (ContinuedString) and the     *)
(* guard in front of a source that may hold no value (RequireValue).  One    *)
(* behaviour is one reader at work; the variables of the others rest.        *)
EXTENDS RadixNumber

CONSTANTS infinity,    \* the plugin's option of that name
          Keys,        \* the runs of characters the lexer may judge as a key
          Texts,       \* the sources the guard may be handed
          Strings,     \* the sources at an opening quote
          Readers      \* the ports and the string options they read by

ASSUME KeysAssumption == \A k \in Keys : k \in Seq(STRING) /\ k # <<>>

ASSUME TextsAssumption == Texts \subseteq Seq({"sp", "LF", "/", "*", "#", "v"})

VARIABLES reader,                        \* "number", "name", "guard" or "string"
          source, i, out, tin, val, key,              \* Identifier's
          src, options, guards, given, at, hash, answer,  \* RequireValue's
          syntax, text, place, row, col, said, pending, outcome  \* ContinuedString's

numberVars == <<sign, digits, read, taken, negative, value>>
nameVars == <<source, i, out, tin, val, key>>
guardVars == <<src, options, guards, given, at, hash, answer>>
stringVars == <<syntax, text, place, row, col, said, pending, outcome>>

Names == INSTANCE Identifier WITH Sources <- Keys
Guards == INSTANCE RequireValue WITH Sources <- Texts, Ports <- {"ts", "go", "rs"}
\* (The string reader with what is proved of it, which ScannersProofs cites.)
Quoted == INSTANCE ContinuedStringProofs
          WITH Sources <- Strings, src <- text, at <- place, value <- said

NumberRests == sign = "" /\ digits = <<>> /\ read = 0 /\ taken = <<>>
               /\ negative = FALSE /\ value = Number(FALSE, 0)
NameRests == source = <<>> /\ i = 0 /\ out = <<>> /\ tin = "none"
             /\ val = <<>> /\ key = <<>>
GuardRests == src = <<>> /\ options = [requireValue |-> FALSE, hashComment |-> FALSE]
              /\ guards = 1 /\ given = <<>> /\ at = 1 /\ hash = FALSE /\ answer = "none"
StringRests == syntax = <<>> /\ text = <<>> /\ place = 1 /\ row = 1 /\ col = 1
               /\ said = <<>> /\ pending = <<>> /\ outcome = "check"

ScannersInit ==
    \/ reader = "number" /\ Init /\ NameRests /\ GuardRests /\ StringRests
    \/ reader = "name" /\ Names!Init /\ NumberRests /\ GuardRests /\ StringRests
    \/ reader = "guard" /\ Guards!Init /\ NumberRests /\ NameRests /\ StringRests
    \/ reader = "string" /\ Quoted!Init /\ pc = "rest"
       /\ NumberRests /\ NameRests /\ GuardRests

ReadNumber ==
    reader = "number" /\ Next /\ UNCHANGED <<reader, nameVars, guardVars, stringVars>>
ReadName ==
    reader = "name" /\ Names!Next /\ UNCHANGED <<reader, numberVars, guardVars, stringVars>>
ReadGuarded ==
    reader = "guard" /\ Guards!Next /\ UNCHANGED <<reader, numberVars, nameVars, stringVars>>
ReadString ==
    reader = "string" /\ Quoted!Next
    /\ UNCHANGED <<reader, pc, numberVars, nameVars, guardVars>>

ScannersNext == ReadNumber \/ ReadName \/ ReadGuarded \/ ReadString

scannersVars == <<reader, port, pc, numberVars, nameVars, guardVars, stringVars>>

ScannersSpec == ScannersInit /\ [][ScannersNext]_scannersVars

\* A port's loop over a string goes on until it returns.
ScannersFairSpec == ScannersSpec /\ WF_scannersVars(ReadString)

-----------------------------------------------------------------------------
\* A run that is no value is taken as a key exactly when it is an
\* IdentifierName (textCheck and decodeIdentifierName).
NamesAndOnlyNames == reader = "name" => Names!NamesAndOnlyNames

\* The key of the pair and the value of its token are the decoded name,
\* whichever of its spellings the source uses (the after-open action of pair).
KeyIsTheName == reader = "name" => Names!KeyIsTheName

\* A source is answered as the options and the lexer's first token say, by
\* the three ports alike (the wrapped parser.start, Parse, parse_with).
AnswersAreTheSpecified == reader = "guard" => Guards!AnswersAreTheSpecified

\* A string with a continuation is made a token exactly when it is a literal
\* (fixedCheck, stringCheck and readContinuedString).
ReadsExactlyTheLiterals == reader = "string" => Quoted!ReadsExactlyTheLiterals

\* Its value is the literal's, in the code units or the characters of the
\* port, however continuations cut the pairs and escapes (emitUnit, flushHi).
ValueIsTheLiterals == reader = "string" => Quoted!ValueIsTheLiterals

\* It closes at the quote the scan that let it in stopped at (scanString).
ClosesAtTheClosingQuote == reader = "string" => Quoted!ClosesAtTheClosingQuote

\* After it, and at an error in it, row and column are the source's by
\* strings.tsv:44-46, the raw LS, PS and CR apart that two ports count
\* otherwise (readContinuedString's row and column).
PositionIsTheSources == reader = "string" => Quoted!PositionIsTheSources

\* Every string is left to the engine, read or refused
\* (readContinuedString's loop moves on).
EveryStringIsDecided == reader = "string" => Quoted!EveryStringIsDecided
=============================================================================
