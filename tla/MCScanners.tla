----------------------------- MODULE MCScanners -----------------------------
(* The scanners over every key of a few pieces and every source of a few     *)
(* characters, the literals of MCRadixNumber on its small widths, and the    *)
(* strings of MCContinuedString.                                             *)
EXTENDS Scanners, MCRadixNumber

CONSTANTS MaxPieces,   \* bound: the pieces of a key
          MaxLength,   \* bound: the characters of a source with no value
          MaxStringPieces  \* bound: the pieces between a string's quotes

\* Characters of every class, and halves of escapes, so that an escape is
\* whole, cut, or runs into a character.
Pieces ==
    {<<"a">>, <<"-">>, <<"zwnj">>, <<"eacute">>, <<"scriptA">>, <<"emoji">>,
     <<"Infinity">>, <<"\\">>, <<"u">>, <<"0", "X">>,
     <<"\\", "u", "0", "0">>, <<"0", "0">>, <<"3", "0">>, <<"d", "8">>}

MCKeys == {FlattenSeq(p) : p \in UNION {[1 .. n -> Pieces] : n \in 1 .. MaxPieces}}

MCTexts == UNION {[1 .. n -> {"sp", "LF", "/", "*", "#", "v"}] : n \in 0 .. MaxLength}

\* Only the strings and the readers are taken from there.
Bodies == INSTANCE MCContinuedString
          WITH MaxPieces <- MaxStringPieces, Sources <- {}, Readers <- {},
               src <- text, at <- place, value <- said

MCStrings == Bodies!MCSources
MCReaders == Bodies!MCReaders
=============================================================================
