---------------------------- MODULE MCJson5Render -----------------------------
(***************************************************************************)
(* json5-render checked on small instances: against what a reader of       *)
(* JSON's syntax makes of its text, and against what it promises           *)
(* (RenderPromise).                                                        *)
(***************************************************************************)
EXTENDS RenderPromise
===============================================================================
