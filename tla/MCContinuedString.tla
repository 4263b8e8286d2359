--------------------------- MODULE MCContinuedString ----------------------------
(***************************************************************************)
(* ContinuedString over every string made of up to MaxPieces pieces, in    *)
(* each port: a piece is a character, an escape, half an escape, a half of *)
(* a surrogate pair or a continuation, so escapes get cut by continuations *)
(* and by the end of the source.                                           *)
(***************************************************************************)
EXTENDS ContinuedString, SequencesExt

CONSTANT MaxPieces   (* bound: pieces between the quotes *)

Pieces ==
  { <<"\\", "LF">>, <<"\\", "CR">>, <<"\\", "LS">>, <<"LF">>, <<"CR">>, <<"LS">>,
    <<"z">>, <<"1">>, <<"^A">>, <<"\\">>, <<"\\", "z">>, <<"\\", "0">>, <<"\\", "1">>,
    <<"\\", "x", "E">>, <<"\\", "u", "{">>,
    <<"\\", "u", "D", "8", "0", "0">>, <<"\\", "u", "D", "E", "0", "0">> }

(* The literal is closed and something follows it, or the source ends on a *)
(* backslash.                                                              *)
MCSources ==
  { <<q>> \o FlattenSeq(body) \o end :
      q \in {"'", "BQ"},
      body \in UNION {[1..k -> Pieces] : k \in 1..MaxPieces},
      end \in {<<"'", "z">>, <<"BQ", "z">>, <<"\\">>} }

(* The string options the grammar declares. *)
Declared == [allowUnknown |-> TRUE, escapeStrict |-> FALSE, allowControl |-> FALSE]

(* TypeScript and Go read the live options, which a host may set later;    *)
(* Rust keeps the document's.                                              *)
SetLater == [allowUnknown |-> FALSE, escapeStrict |-> TRUE, allowControl |-> TRUE]

MCReaders ==
  [port : {"ts", "go", "rs"}, syntax : {Declared}] \cup [port : {"ts", "go"}, syntax : {SetLater}]
===============================================================================
