--------------------------- MODULE MCClibRelease ---------------------------
(* Two runs over two tags.                                                     *)
EXTENDS ClibRelease

=============================================================================
