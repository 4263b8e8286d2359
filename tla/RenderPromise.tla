---------------------------- MODULE RenderPromise -----------------------------
(***************************************************************************)
(* The render seen from outside: the events offered, the text so far and   *)
(* what of it is written out, by which json5-render (Json5Render) is held  *)
(* to what it promises (TreeText).                                         *)
(***************************************************************************)
EXTENDS Json5Render

Document == INSTANCE TreeText WITH events <- seen, text <- written \o held,
                                   kept <- written

(* The text is, event by event, the text of the tree the events spell; an  *)
(* event is refused exactly when no tree holds it; what is written out is  *)
(* the text up to the last record's end (render.alc 6-41).                 *)
WritesTheTree == Document!Spec
===============================================================================
