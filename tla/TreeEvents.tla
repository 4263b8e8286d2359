------------------------------ MODULE TreeEvents ------------------------------
(***************************************************************************)
(* The vocabulary json5-render shares with the host that feeds it: the     *)
(* events of a tree, and the tokens of the text they are written as.  A    *)
(* token is a short string; how a scalar or a key is spelled (quoted,      *)
(* scalar-text) is left to the value itself, so a key and a string scalar  *)
(* with the same spelling are the same token, as they are in the text.     *)
(***************************************************************************)
CONSTANTS
  Scalars,   (* the spellings of the scalar values a document may hold     *)
  Keys       (* the spellings of the keys an object may hold               *)

Punctuation == {"[", "]", "{", "}", ",", ":", "\n"}

(* Marks the end of a record in a step's outputs; never part of the text.  *)
RecordEnd == "record-end"

ASSUME SpellingsAssumption ==
  (Scalars \cup Keys) \cap (Punctuation \cup {RecordEnd}) = {}

Token == Punctuation \cup Scalars \cup Keys

Begins == {"array-start", "object-start"}
Ends   == {"array-end", "object-end"}

Event == [kind : Begins \cup Ends, text : {""}]
           \cup [kind : {"key"}, text : Keys]
           \cup [kind : {"scalar"}, text : Scalars]
===============================================================================
