-------------------------- MODULE MCDocumentRender --------------------------
(***************************************************************************)
(* DocumentRender for TLC: an old and a new server, any routes open.       *)
(***************************************************************************)
EXTENDS DocumentRender

CONSTANTS t1, t2

OldAndNew == {14, 19}
=============================================================================
